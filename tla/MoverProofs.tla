----------------------------- MODULE MoverProofs -----------------------------
(***************************************************************************)
(* A mover process for any number of source pods, callers and connections: *)
(* two source pods never write at the same time, nothing is left running   *)
(* when it has returned, and the connection pool stays exact.              *)
(***************************************************************************)
EXTENDS MoverProcess, FiniteSetTheorems, TLAPS

-----------------------------------------------------------------------------
(* The connection pool                                                     *)

(* PoolExact, with the set of connections that are up in terms of members. *)
Members ==
  /\ \A c \in Callers : caller[c].step \in {"holds", "image"} =>
       \E k \in Entries : conns[k].conn = caller[c].conn
  /\ \A k \in Entries : conns[k].conn \in up
                        /\ conns[k].users = Cardinality(Holders(conns[k].conn))
  /\ \A c \in Callers : At(c, "insert") => caller[c].conn \in up
  /\ \A n \in up : \/ \E k \in Entries : n = conns[k].conn
                   \/ \E c \in Callers : At(c, "insert") /\ n = caller[c].conn

(* Members says the same as PoolExact, before and after a step.            *)
LEMMA ExactMembers == (PoolExact <=> Members) /\ (PoolExact' <=> Members')
BY DEF PoolExact, Members

(* The parts of Members, one at a time.                                    *)
LEMMA HolderHasEntry ==
  ASSUME PoolInv, NEW d \in Callers, caller[d].step \in {"holds", "image"}
  PROVE  \E k \in Entries : conns[k].conn = caller[d].conn
BY ExactMembers DEF PoolInv, Members

LEMMA EntryIsUp ==
  ASSUME PoolInv, NEW k \in Entries
  PROVE  conns[k].conn \in up
BY ExactMembers DEF PoolInv, Members

LEMMA WaitingIsUp ==
  ASSUME PoolInv, NEW d \in Callers, At(d, "insert")
  PROVE  caller[d].conn \in up
BY ExactMembers DEF PoolInv, Members

LEMMA UpIsOwned ==
  ASSUME PoolInv, NEW i \in up
  PROVE  \/ \E k \in Entries : i = conns[k].conn
         \/ \E d \in Callers : At(d, "insert") /\ i = caller[d].conn
BY ExactMembers DEF PoolInv, Members

(* A connection has finitely many holders.                                 *)
LEMMA HoldersFinite ==
  ASSUME NEW n
  PROVE  IsFiniteSet(Holders(n)) /\ Cardinality(Holders(n)) \in Nat
<1>1. Holders(n) \subseteq Callers
  BY DEF Holders
<1>. QED BY <1>1, PoolAssumption, FS_Subset, FS_CardinalityType

(* An entry is a record.                                                   *)
LEMMA EntryIsRecord ==
  ASSUME PoolInv, NEW k \in Entries
  PROVE  k \in Keys /\ conns[k] \in Entry
BY DEF PoolInv, Entries

LEMMA PoolInitInv == PoolInit => PoolInv
<1>. SUFFICES ASSUME PoolInit PROVE PoolInv
  OBVIOUS
<1>1. Entries = {}
  BY DEF PoolInit, Entries
<1>2. PoolExact
  BY <1>1, ExactMembers DEF Members, PoolInit, At
<1>. QED BY <1>1, <1>2 DEF PoolInit, PoolInv, NoConn, At, Entry

-----------------------------------------------------------------------------
(* How a step changes the holders of a connection m.                       *)

Busy == {"holds", "image"}

(* A caller that begins to hold n.                                         *)
LEMMA JoinCount ==
  ASSUME PoolInv, NEW c \in Callers, NEW k, NEW n, NEW m,
         caller[c].step \notin Busy, Goes(c, "holds", k, n)
  PROVE  Cardinality(Holders(m)') = Cardinality(Holders(m)) + (IF m = n THEN 1 ELSE 0)
<1>1. c \notin Holders(m)
  BY DEF Holders, Busy
<1>2. Holders(m)' = IF m = n THEN Holders(m) \cup {c} ELSE Holders(m)
  BY <1>1 DEF Holders, Goes, PoolInv, Busy
<1>3. Cardinality(Holders(m) \cup {c}) = Cardinality(Holders(m)) + 1
  BY Zenon, <1>1, HoldersFinite, FS_AddElement
<1>. QED BY <1>2, <1>3, HoldersFinite

(* A caller that gives its connection back.                                *)
LEMMA LeaveCount ==
  ASSUME PoolInv, NEW c \in Callers, NEW m,
         caller[c].step \in Busy, Goes(c, "out", NoEntry, NoConn)
  PROVE  /\ Cardinality(Holders(m)') = Cardinality(Holders(m)) - (IF m = caller[c].conn THEN 1 ELSE 0)
         /\ m = caller[c].conn => Cardinality(Holders(m)) # 0
<1>1. c \in Holders(m) <=> m = caller[c].conn
  BY DEF Holders, Busy
<1>2. Holders(m)' = IF m = caller[c].conn THEN Holders(m) \ {c} ELSE Holders(m)
  BY <1>1 DEF Holders, Goes, PoolInv, Busy
<1>3. m = caller[c].conn => Cardinality(Holders(m) \ {c}) = Cardinality(Holders(m)) - 1
  BY Zenon, <1>1, HoldersFinite, FS_RemoveElement
<1>4. m = caller[c].conn => Cardinality(Holders(m)) # 0
  BY <1>1, HoldersFinite, FS_EmptySet
<1>. QED BY <1>2, <1>3, <1>4, HoldersFinite

(* A caller that holds before and after the step, or neither.              *)
LEMMA SameHolders ==
  ASSUME PoolInv, NEW c \in Callers, NEW t, NEW k, NEW n, NEW m,
         caller[c].step \in Busy <=> t \in Busy,
         t \in Busy => n = caller[c].conn,
         Goes(c, t, k, n)
  PROVE  Holders(m)' = Holders(m)
BY DEF Holders, Goes, PoolInv, Busy

-----------------------------------------------------------------------------
(* One lemma per step.                                                     *)

LEMMA GetHitInv ==
  ASSUME PoolInv, NEW c \in Callers, NEW k \in Keys, GetHit(c, k)
  PROVE  PoolInv'
<1>. DEFINE n == conns[k].conn
<1>1. k \in Entries /\ conns[k] \in Entry /\ caller[c].step \notin Busy /\ At(c, "out")
  BY EntryIsRecord DEF GetHit, Entries, At, Busy
<1>2. conns' = Used(k) /\ Goes(c, "holds", k, n) /\ made' = made /\ up' = up
  BY DEF GetHit
<1>3. conns' \in [Keys -> Entry \cup {NoEntry}]
  BY <1>1, <1>2 DEF Used, PoolInv, Entry
<1>4. /\ Entries' = Entries
      /\ \A j \in Entries : /\ conns'[j].conn = conns[j].conn
                            /\ conns'[j].users = conns[j].users + (IF j = k THEN 1 ELSE 0)
  <2>1. conns'[k] = [conn |-> n, users |-> conns[k].users + 1, fresh |-> TRUE]
    BY <1>1, <1>2 DEF Used, PoolInv
  <2>2. conns'[k] # NoEntry /\ conns'[k].conn = n /\ conns'[k].users = conns[k].users + 1
    <3>1. conns'[k] \in Entry
      BY <1>1, <2>1 DEF Entry
    <3>2. conns'[k] # NoEntry
      BY <3>1, PoolAssumption
    <3>. QED BY <2>1, <3>2
  <2>3. \A j \in Keys : j # k => conns'[j] = conns[j]
    BY <1>2 DEF Used, PoolInv
  <2>4. \A j \in Entries : conns[j].users \in Nat
    BY EntryIsRecord DEF Entry
  <2>. QED BY <1>1, <2>2, <2>3, <2>4 DEF Entries
<1>5. caller' = [caller EXCEPT ![c] = [step |-> "holds", key |-> k, conn |-> n]]
  BY <1>2 DEF Goes
<1>6. \A j \in Entries : conns[j].conn = n <=> j = k
  BY <1>1 DEF PoolInv
<1>7. \A m : Cardinality(Holders(m)') = Cardinality(Holders(m)) + (IF m = n THEN 1 ELSE 0)
  BY <1>1, <1>2, JoinCount
<1>8. PoolExact'
  <2>1. \A j \in Entries : conns'[j].users = Cardinality(Holders(conns[j].conn)')
    BY <1>4, <1>6, <1>7, ExactMembers DEF PoolInv, Members
  <2>2. \A d \in Callers : /\ At(d, "insert")' <=> At(d, "insert")
                           /\ d # c => caller'[d] = caller[d]
    BY <1>1, <1>5 DEF PoolInv, At
  <2>3. caller'[c].conn = n
    BY Zenon, <1>5 DEF PoolInv
  <2>4. Members
    BY ExactMembers DEF PoolInv
  <2>5. ASSUME NEW d \in Callers, caller'[d].step \in {"holds", "image"}
        PROVE  \E j \in Entries : conns'[j].conn = caller'[d].conn
    BY <1>1, <1>4, <2>2, <2>3, <2>4, <2>5 DEF Members
  <2>6. \A j \in Entries : conns'[j].conn \in up
    BY <1>4, <2>4 DEF Members
  <2>7. \A d \in Callers : At(d, "insert")' => caller'[d].conn \in up
    BY <1>1, <2>2, <2>4 DEF Members, At
  <2>8. ASSUME NEW i \in up
        PROVE  \/ \E j \in Entries : i = conns'[j].conn
               \/ \E d \in Callers : At(d, "insert")' /\ i = caller'[d].conn
    BY <1>1, <1>4, <2>2, <2>4 DEF Members, At
  <2>9. Members'
    BY <1>2, <1>4, <2>1, <2>5, <2>6, <2>7, <2>8 DEF Members
  <2>. QED BY <2>9, ExactMembers
<1>. QED BY <1>1, <1>2, <1>3, <1>4, <1>5, <1>8 DEF PoolInv, At, Entry

(* A miss, a failed connect, Open and Close only move the caller on.       *)
LEMMA CallerInv ==
  ASSUME PoolInv, NEW c \in Callers, NEW t \in {"out", "connect", "holds", "image"},
         NEW k \in Keys \cup {NoEntry}, NEW n \in Nat,
         caller[c].step # "insert", t = "connect" => k \in Keys,
         caller[c].step \in Busy <=> t \in Busy,
         t \in Busy => n = caller[c].conn,
         Goes(c, t, k, n), UNCHANGED <<conns, made, up>>
  PROVE  PoolInv'
<1>1. caller' = [caller EXCEPT ![c] = [step |-> t, key |-> k, conn |-> n]]
  BY DEF Goes
<1>2. \A m : Holders(m)' = Holders(m)
  BY SameHolders
<1>3. Entries' = Entries
  BY DEF Entries
<1>4. \A d \in Callers : /\ At(d, "insert")' <=> At(d, "insert")
                         /\ d # c => caller'[d] = caller[d]
  BY <1>1 DEF PoolInv, At
<1>5. caller'[c].step = t /\ caller'[c].conn = n /\ caller'[c].key = k
  BY <1>1 DEF PoolInv
<1>6. PoolExact'
  <2>1. Members
    BY ExactMembers DEF PoolInv
  <2>2. ASSUME NEW d \in Callers, caller'[d].step \in {"holds", "image"}
        PROVE  \E j \in Entries : conns[j].conn = caller'[d].conn
    BY <1>4, <1>5, <2>1, <2>2 DEF Members, Busy
  <2>3. Members'
    BY <1>2, <1>3, <1>4, <2>1, <2>2 DEF Members, At
  <2>. QED BY <2>3, ExactMembers
<1>. QED BY <1>1, <1>3, <1>4, <1>5, <1>6 DEF PoolInv, At

(* A new connection is nobody else's.                                      *)
LEMMA ConnectedInv ==
  ASSUME PoolInv, NEW c \in Callers, Connected(c)
  PROVE  PoolInv'
<1>. DEFINE n == made + 1
<1>1. /\ made' = n /\ up' = up \cup {n} /\ conns' = conns
      /\ At(c, "connect") /\ caller[c].key \in Keys /\ made \in Nat /\ n \in Nat
      /\ Goes(c, "insert", caller[c].key, n)
  BY DEF Connected, PoolInv
<1>2. caller' = [caller EXCEPT ![c] = [step |-> "insert", key |-> caller[c].key, conn |-> n]]
  BY <1>1 DEF Goes
<1>3. \A m : Holders(m)' = Holders(m)
  BY <1>1, SameHolders DEF At, Busy
<1>4. Entries' = Entries
  BY <1>1 DEF Entries
<1>5. /\ \A d \in Callers : d # c => caller'[d] = caller[d]
      /\ caller'[c].step = "insert" /\ caller'[c].conn = n /\ caller'[c].key = caller[c].key
  BY <1>2 DEF PoolInv
<1>6. n \notin up /\ Members
  BY <1>1, ExactMembers DEF PoolInv
<1>7. /\ \A k \in Entries : conns[k].conn # n
      /\ \A d \in Callers : At(d, "insert") => caller[d].conn # n
  BY <1>6 DEF Members
<1>8. PoolExact'
  <2>1. ASSUME NEW i \in up'
        PROVE  \/ \E k \in Entries : i = conns[k].conn
               \/ \E d \in Callers : At(d, "insert")' /\ i = caller'[d].conn
    BY <1>1, <1>5, <1>6, <2>1 DEF Members, At
  <2>2. ASSUME NEW d \in Callers, caller'[d].step \in {"holds", "image"}
        PROVE  \E k \in Entries : conns[k].conn = caller'[d].conn
    <3>1. caller'[d] = caller[d]
      BY <1>5, <2>2
    <3>. QED BY <2>2, <3>1, HolderHasEntry
  <2>3. ASSUME NEW d \in Callers, At(d, "insert")' PROVE caller'[d].conn \in up'
    <3>1. CASE d = c
      BY <1>1, <1>5, <3>1
    <3>2. CASE d # c
      BY <1>1, <1>5, <2>3, <3>2, WaitingIsUp DEF At
    <3>. QED BY <3>1, <3>2
  <2>4. \A k \in Entries : conns[k].conn \in up'
                           /\ conns[k].users = Cardinality(Holders(conns[k].conn))
    BY <1>1, <1>6 DEF Members
  <2>5. Members'
    BY <1>1, <1>3, <1>4, <2>1, <2>2, <2>3, <2>4 DEF Members
  <2>. QED BY <2>5, ExactMembers
<1>9. caller' \in [Callers -> [step : {"out", "connect", "insert", "holds", "image"},
                               key : Keys \cup {NoEntry}, conn : Nat]]
  BY <1>1, <1>2 DEF PoolInv
<1>10. \A i \in up' : i \in Nat /\ i <= made'
  BY <1>1 DEF PoolInv
<1>. QED BY <1>1, <1>4, <1>5, <1>7, <1>8, <1>9, <1>10 DEF PoolInv, At

(* Only the age of an entry changes.                                       *)
LEMMA AgesInv ==
  ASSUME PoolInv, NEW k \in Keys, Ages(k)
  PROVE  PoolInv'
<1>1. k \in Entries /\ conns[k] \in Entry
  BY EntryIsRecord DEF Ages, Entries
<1>2. conns' = [conns EXCEPT ![k].fresh = FALSE] /\ made' = made /\ up' = up /\ caller' = caller
  BY DEF Ages
<1>3. /\ conns'[k] \in Entry /\ conns'[k].conn = conns[k].conn /\ conns'[k].users = conns[k].users
      /\ \A j \in Keys : j # k => conns'[j] = conns[j]
  BY Zenon, <1>1, <1>2 DEF PoolInv, Entry
<1>4. conns'[k] # NoEntry
  BY <1>3, PoolAssumption
<1>5. /\ Entries' = Entries
      /\ \A j \in Entries : conns'[j].conn = conns[j].conn /\ conns'[j].users = conns[j].users
  BY <1>1, <1>3, <1>4 DEF Entries
<1>6. \A m : Holders(m)' = Holders(m)
  BY <1>2 DEF Holders
<1>7. Members /\ Members'
  <2>1. Members
    BY ExactMembers DEF PoolInv
  <2>. QED BY <1>2, <1>5, <1>6, <2>1 DEF Members, At
<1>8. conns' \in [Keys -> Entry \cup {NoEntry}]
  BY <1>1, <1>2, <1>3 DEF PoolInv
<1>. QED BY <1>2, <1>5, <1>7, <1>8, ExactMembers DEF PoolInv, At

(* An entry was made meanwhile: the caller's connection is shut down.      *)
LEMMA InsertHitInv ==
  ASSUME PoolInv, NEW c \in Callers, At(c, "insert"), conns[caller[c].key] # NoEntry,
         conns' = Used(caller[c].key), up' = up \ {caller[c].conn}, made' = made,
         Goes(c, "holds", caller[c].key, conns[caller[c].key].conn)
  PROVE  PoolInv'
<1>. DEFINE k == caller[c].key  n == conns[k].conn
<1>1. k \in Entries /\ k \in Keys /\ conns[k] \in Entry /\ caller[c].step \notin Busy
  BY EntryIsRecord DEF PoolInv, Entries, At, Busy
<1>2. conns'[k] = [conn |-> n, users |-> conns[k].users + 1, fresh |-> TRUE]
  BY ZenonT(30), <1>1 DEF Used, PoolInv
<1>3. conns'[k] \in Entry
  BY <1>1, <1>2 DEF Entry
<1>4. conns'[k] # NoEntry
  BY <1>3, PoolAssumption
<1>5. \A j \in Keys : j # k => conns'[j] = conns[j]
  BY DEF Used, PoolInv
<1>6. conns' \in [Keys -> Entry \cup {NoEntry}]
  BY <1>1, <1>3 DEF Used, PoolInv, Entry
<1>7. /\ Entries' = Entries
      /\ \A j \in Entries : /\ conns'[j].conn = conns[j].conn
                            /\ conns'[j].users = conns[j].users + (IF j = k THEN 1 ELSE 0)
  <2>1. \A j \in Entries : conns[j].users \in Nat
    BY EntryIsRecord DEF Entry
  <2>2. Entries' = Entries
    BY <1>1, <1>4, <1>5 DEF Entries
  <2>3. \A j \in Entries : j \in Keys
    BY DEF Entries
  <2>4. \A j \in Entries : j # k => conns'[j] = conns[j]
    BY <1>5, <2>3
  <2>5. conns'[k].conn = conns[k].conn /\ conns'[k].users = conns[k].users + 1
    BY <1>2
  <2>6. \A j \in Entries : conns'[j].conn = conns[j].conn
    BY <2>4, <2>5
  <2>7. \A j \in Entries : j # k => conns'[j].users = conns[j].users + 0
    BY <2>1, <2>4
  <2>. QED BY ZenonT(30), <2>2, <2>5, <2>6, <2>7
<1>8. caller' = [caller EXCEPT ![c] = [step |-> "holds", key |-> k, conn |-> n]]
  BY DEF Goes
<1>9. /\ \A d \in Callers : d # c => caller'[d] = caller[d]
      /\ caller'[c].step = "holds" /\ caller'[c].conn = n
  BY <1>8 DEF PoolInv
<1>10. \A j \in Entries : conns[j].conn = n <=> j = k
  BY <1>1 DEF PoolInv
<1>11. \A m : Cardinality(Holders(m)') = Cardinality(Holders(m)) + (IF m = n THEN 1 ELSE 0)
  BY <1>1, JoinCount
<1>12. Members
  BY ExactMembers DEF PoolInv
<1>13. PoolExact'
  <2>1. ASSUME NEW j \in Entries
        PROVE  conns'[j].users = Cardinality(Holders(conns[j].conn)')
    <3>1. PICK m : m = conns[j].conn
      OBVIOUS
    <3>2. conns[j].users = Cardinality(Holders(m))
      BY <1>12, <3>1 DEF Members
    <3>3. conns'[j].users = Cardinality(Holders(m)) + (IF m = n THEN 1 ELSE 0)
      BY <1>7, <1>10, <3>1, <3>2
    <3>4. conns'[j].users = Cardinality(Holders(m)')
      BY <1>11, <3>3
    <3>5. conns'[j].conn = m
      BY <1>7, <3>1
    <3>. QED BY <3>4, <3>5
  <2>2. ASSUME NEW d \in Callers, caller'[d].step \in {"holds", "image"}
        PROVE  \E j \in Entries : conns'[j].conn = caller'[d].conn
    <3>1. CASE d = c
      BY <1>1, <1>7, <1>9, <3>1
    <3>2. CASE d # c
      <4>1. caller'[d] = caller[d]
        BY <1>9, <3>2
      <4>2. PICK j \in Entries : conns[j].conn = caller[d].conn
        BY <2>2, <4>1, HolderHasEntry
      <4>. QED BY <1>7, <4>1, <4>2
    <3>. QED BY <3>1, <3>2
  <2>3. \A j \in Entries : conns'[j].conn \in up'
    <3>1. \A j \in Entries : conns[j].conn # caller[c].conn
      BY DEF PoolInv
    <3>. QED BY <1>7, <3>1, EntryIsUp
  <2>4. ASSUME NEW d \in Callers, At(d, "insert")' PROVE caller'[d].conn \in up'
    <3>1. d # c /\ caller'[d] = caller[d] /\ At(d, "insert")
      BY <1>9, <2>4 DEF At
    <3>2. caller[d].conn # caller[c].conn
      BY <3>1 DEF PoolInv
    <3>. QED BY <3>1, <3>2, WaitingIsUp
  <2>5. ASSUME NEW i \in up'
        PROVE  \/ \E j \in Entries : i = conns'[j].conn
               \/ \E d \in Callers : At(d, "insert")' /\ i = caller'[d].conn
    <3>1. i \in up /\ i # caller[c].conn
      BY <2>5
    <3>2. CASE \E j \in Entries : i = conns[j].conn
      BY <1>7, <3>2
    <3>3. CASE \E d \in Callers : At(d, "insert") /\ i = caller[d].conn
      <4>1. PICK d \in Callers : At(d, "insert") /\ i = caller[d].conn
        BY <3>3
      <4>2. caller'[d] = caller[d]
        BY <1>9, <3>1, <4>1
      <4>. QED BY <4>1, <4>2 DEF At
    <3>. QED BY <3>1, <3>2, <3>3, UpIsOwned
  <2>6. Members'
    BY <1>7, <2>1, <2>2, <2>3, <2>4, <2>5 DEF Members
  <2>. QED BY <2>6, ExactMembers
<1>14. caller' \in [Callers -> [step : {"out", "connect", "insert", "holds", "image"},
                                key : Keys \cup {NoEntry}, conn : Nat]]
  BY <1>1, <1>8 DEF PoolInv, Entry
<1>15. /\ made' \in Nat /\ \A m \in up' : m \in Nat /\ m <= made'
       /\ \A i, j \in Entries' : conns'[i].conn = conns'[j].conn => i = j
  BY <1>7 DEF PoolInv
<1>16. \A d \in Callers : /\ At(d, "insert")' \/ At(d, "connect")' => caller'[d] = caller[d]
                          /\ At(d, "insert")' => At(d, "insert")
                          /\ At(d, "connect")' => At(d, "connect")
  BY <1>9 DEF At
<1>17. /\ \A d \in Callers : At(d, "connect")' \/ At(d, "insert")' => caller'[d].key \in Keys
       /\ \A d, e \in Callers : At(d, "insert")' /\ At(e, "insert")' /\ d # e =>
            caller'[d].conn # caller'[e].conn
  BY <1>16 DEF PoolInv
<1>18. ASSUME NEW d \in Callers, NEW j \in Entries, At(d, "insert")'
       PROVE  caller'[d].conn # conns'[j].conn
  <2>1. caller[d].conn # conns[j].conn
    BY <1>16, <1>18 DEF PoolInv
  <2>. QED BY ZenonT(30), <1>7, <1>16, <1>18, <2>1
<1>. QED BY <1>6, <1>7, <1>13, <1>14, <1>15, <1>17, <1>18 DEF PoolInv

(* The caller's connection becomes an entry, of which it is the only user. *)
LEMMA InsertNewInv ==
  ASSUME PoolInv, NEW c \in Callers, NEW k, NEW n, k = caller[c].key, n = caller[c].conn,
         At(c, "insert"), conns[k] = NoEntry,
         conns' = [conns EXCEPT ![k] = [conn |-> n, users |-> 1, fresh |-> TRUE]],
         Goes(c, "holds", k, n), UNCHANGED <<made, up>>
  PROVE  PoolInv'
<1>1. k \in Keys /\ k \notin Entries /\ n \in Nat /\ caller[c].step \notin Busy
  BY DEF PoolInv, Entries, At, Busy
<1>2. conns'[k] = [conn |-> n, users |-> 1, fresh |-> TRUE]
  BY <1>1 DEF PoolInv
<1>3. conns'[k] \in Entry
  <2>1. [conn |-> n, users |-> 1, fresh |-> TRUE] \in Entry
    BY <1>1 DEF Entry
  <2>. QED BY <1>2, <2>1
<1>4. conns'[k] # NoEntry
  BY Zenon, <1>3, PoolAssumption
<1>5. conns' \in [Keys -> Entry \cup {NoEntry}]
  BY <1>1, <1>3 DEF PoolInv
<1>6. /\ Entries' = Entries \cup {k}
      /\ \A j \in Entries : conns'[j] = conns[j]
      /\ conns'[k].conn = n /\ conns'[k].users = 1
  BY <1>1, <1>2, <1>4 DEF Entries, PoolInv
<1>7. caller' = [caller EXCEPT ![c] = [step |-> "holds", key |-> k, conn |-> n]]
  BY DEF Goes
<1>8. /\ \A d \in Callers : d # c => caller'[d] = caller[d]
      /\ caller'[c].step = "holds" /\ caller'[c].conn = n
  BY <1>7 DEF PoolInv
<1>9. Members
  BY ExactMembers DEF PoolInv
<1>10. \A j \in Entries : conns[j].conn # n
  BY DEF PoolInv
<1>11. Holders(n) = {}
  BY <1>9, <1>10 DEF Holders, Members
<1>12. /\ \A m : m # n => Cardinality(Holders(m)') = Cardinality(Holders(m))
       /\ Cardinality(Holders(n)') = 1
  <2>1. Cardinality(Holders(n)) = 0
    BY <1>11, FS_EmptySet
  <2>2. \A m : Cardinality(Holders(m)') = Cardinality(Holders(m)) + (IF m = n THEN 1 ELSE 0)
    BY <1>1, JoinCount
  <2>. QED BY <2>1, <2>2, HoldersFinite
<1>13. PoolExact'
  <2>1. ASSUME NEW j \in Entries'
        PROVE  (conns[j].users = Cardinality(Holders(conns[j].conn)))'
    <3>1. CASE j = k
      BY <1>6, <1>12, <3>1
    <3>2. CASE j # k
      <4>1. j \in Entries /\ conns'[j] = conns[j] /\ conns[j].conn # n
        BY <1>6, <1>10, <3>2
      <4>2. PICK m : m = conns[j].conn
        OBVIOUS
      <4>3. Cardinality(Holders(m)') = Cardinality(Holders(m))
        BY <1>12, <4>1, <4>2
      <4>4. conns[j].users = Cardinality(Holders(m))
        BY ZenonT(30), <1>9, <4>1, <4>2 DEF Members
      <4>. QED BY <4>1, <4>2, <4>3, <4>4
    <3>. QED BY <3>1, <3>2
  <2>2. ASSUME NEW d \in Callers, caller'[d].step \in {"holds", "image"}
        PROVE  \E j \in Entries' : conns'[j].conn = caller'[d].conn
    <3>1. CASE d = c
      BY <1>6, <1>8, <3>1
    <3>2. CASE d # c
      <4>1. caller'[d] = caller[d]
        BY ZenonT(30), <1>8, <3>2
      <4>2. PICK j \in Entries : conns[j].conn = caller[d].conn
        BY <2>2, <4>1, HolderHasEntry
      <4>. QED BY <1>6, <4>1, <4>2
    <3>. QED BY ZenonT(30), <3>1, <3>2
  <2>3. \A j \in Entries' : conns'[j].conn \in up'
    BY <1>6, EntryIsUp, WaitingIsUp
  <2>4. ASSUME NEW d \in Callers, At(d, "insert")' PROVE caller'[d].conn \in up'
    <3>1. caller'[d] = caller[d] /\ At(d, "insert")
      BY <1>8, <2>4 DEF At
    <3>. QED BY <3>1, WaitingIsUp
  <2>5. ASSUME NEW i \in up'
        PROVE  \/ \E j \in Entries' : i = conns'[j].conn
               \/ \E d \in Callers : At(d, "insert")' /\ i = caller'[d].conn
    <3>1. CASE \E j \in Entries : i = conns[j].conn
      BY <1>6, <3>1
    <3>2. CASE \E d \in Callers : At(d, "insert") /\ i = caller[d].conn
      <4>1. PICK d \in Callers : At(d, "insert") /\ i = caller[d].conn
        BY <3>2
      <4>2. CASE d = c
        BY <1>6, <4>1, <4>2
      <4>3. CASE d # c
        <5>1. caller'[d] = caller[d]
          BY <1>8, <4>3
        <5>. QED BY <4>1, <5>1 DEF At
      <4>. QED BY <4>2, <4>3
    <3>. QED BY ZenonT(30), <2>5, <3>1, <3>2, UpIsOwned
  <2>6. Members'
    BY ZenonT(30), <2>1, <2>2, <2>3, <2>4, <2>5 DEF Members
  <2>. QED BY <2>6, ExactMembers
<1>14. caller' \in [Callers -> [step : {"out", "connect", "insert", "holds", "image"},
                                key : Keys \cup {NoEntry}, conn : Nat]]
  BY <1>1, <1>7 DEF PoolInv
<1>15. \A i, j \in Entries' : conns'[i].conn = conns'[j].conn => i = j
  BY <1>6, <1>10 DEF PoolInv
<1>16. ASSUME NEW d \in Callers, NEW j \in Entries', At(d, "insert")'
       PROVE  caller'[d].conn # conns'[j].conn
  <2>1. d # c /\ caller'[d] = caller[d] /\ At(d, "insert")
    BY <1>8, <1>16 DEF At
  <2>2. CASE j = k
    <3>1. caller[d].conn # caller[c].conn
      BY <2>1 DEF PoolInv
    <3>. QED BY <1>6, <2>1, <2>2, <3>1
  <2>3. CASE j # k
    <3>1. j \in Entries /\ conns'[j] = conns[j]
      BY <1>6, <2>3
    <3>2. caller[d].conn # conns[j].conn
      BY <2>1, <3>1 DEF PoolInv
    <3>. QED BY <2>1, <3>1, <3>2
  <2>. QED BY Zenon, <2>2, <2>3
<1>17. /\ made' \in Nat /\ \A m \in up' : m \in Nat /\ m <= made'
       /\ \A d \in Callers : At(d, "connect")' \/ At(d, "insert")' => caller'[d].key \in Keys
  BY <1>8 DEF PoolInv, At
<1>18. ASSUME NEW d \in Callers, NEW e \in Callers, At(d, "insert")', At(e, "insert")', d # e
       PROVE  caller'[d].conn # caller'[e].conn
  <2>1. /\ caller'[d] = caller[d] /\ At(d, "insert")
        /\ caller'[e] = caller[e] /\ At(e, "insert")
    BY <1>8, <1>18 DEF At
  <2>2. caller[d].conn # caller[e].conn
    BY <1>18, <2>1 DEF PoolInv
  <2>. QED BY <2>1, <2>2
<1>. QED BY <1>5, <1>13, <1>14, <1>15, <1>16, <1>17, <1>18 DEF PoolInv

(* A holder gives its connection back: its entry has one user less.        *)
LEMMA PutInv ==
  ASSUME PoolInv, NEW c \in Callers, Put(c)
  PROVE  PoolInv'
<1>1. /\ caller[c].step = "holds" /\ caller[c].step \in Busy
      /\ Goes(c, "out", NoEntry, NoConn) /\ made' = made /\ up' = up
  BY DEF Put, At, Busy
<1>2. Members
  BY ExactMembers DEF PoolInv
<1>3. PICK k \in Entries : conns[k].conn = caller[c].conn
  BY Zenon, <1>1, <1>2 DEF Members
<1>4. PICK n : n = caller[c].conn
  OBVIOUS
<1>5. \A j \in Entries : conns[j].conn = n <=> j = k
  BY <1>3, <1>4 DEF PoolInv
<1>6. k \in Keys /\ conns[k] \in Entry
  BY EntryIsRecord
<1>7. EntriesOf(caller[c].conn) = {k}
  BY <1>4, <1>5, <1>6, <1>3 DEF EntriesOf, Entries
<1>8. \A m : /\ Cardinality(Holders(m)') = Cardinality(Holders(m)) - (IF m = n THEN 1 ELSE 0)
             /\ m = n => Cardinality(Holders(m)) # 0
  BY <1>1, <1>4, LeaveCount
<1>9. conns[k].users = Cardinality(Holders(n)) /\ conns[k].users - 1 \in Nat
  <2>1. conns[k].users = Cardinality(Holders(n))
    BY <1>2, <1>3, <1>4 DEF Members
  <2>2. Cardinality(Holders(n)) \in Nat /\ Cardinality(Holders(n)) # 0
    BY <1>8, HoldersFinite
  <2>. QED BY <2>1, <2>2
<1>10. conns' = [j \in Keys |-> IF j = k THEN [conns[j] EXCEPT !.users = @ - 1] ELSE conns[j]]
  BY <1>7 DEF Put
<1>11. /\ conns'[k] = [conns[k] EXCEPT !.users = @ - 1]
       /\ \A j \in Keys : j # k => conns'[j] = conns[j]
  BY <1>6, <1>10
<1>12. /\ conns'[k] \in Entry /\ conns'[k].conn = conns[k].conn
       /\ conns'[k].users = conns[k].users - 1
  BY <1>6, <1>9, <1>11 DEF Entry
<1>13. conns'[k] # NoEntry
  BY <1>12, PoolAssumption
<1>14. /\ Entries' = Entries
       /\ \A j \in Entries : /\ conns'[j].conn = conns[j].conn
                             /\ j # k => conns'[j].users = conns[j].users
  BY Zenon, <1>3, <1>11, <1>12, <1>13 DEF Entries
<1>15. conns' \in [Keys -> Entry \cup {NoEntry}]
  BY <1>10, <1>11, <1>12 DEF PoolInv
<1>16. caller' = [caller EXCEPT ![c] = [step |-> "out", key |-> NoEntry, conn |-> NoConn]]
  BY <1>1 DEF Goes
<1>17. /\ \A d \in Callers : d # c => caller'[d] = caller[d]
       /\ caller'[c].step = "out"
  BY <1>16 DEF PoolInv
<1>18. PoolExact'
  <2>1. ASSUME NEW j \in Entries
        PROVE  (conns[j].users = Cardinality(Holders(conns[j].conn)))'
    <3>1. PICK m : m = conns[j].conn
      OBVIOUS
    <3>2. conns[j].users = Cardinality(Holders(m))
      BY Zenon, <1>2, <3>1 DEF Members
    <3>3. conns'[j].users = Cardinality(Holders(m)')
      <4>1. CASE j = k
        <5>1. m = n /\ conns'[j].users = Cardinality(Holders(m)) - 1
          BY <1>3, <1>4, <1>12, <3>1, <3>2, <4>1
        <5>. QED BY <1>8, <5>1
      <4>2. CASE j # k
        <5>1. m # n /\ conns'[j].users = Cardinality(Holders(m))
          BY <1>5, <1>14, <3>1, <3>2, <4>2
        <5>2. Cardinality(Holders(m)') = Cardinality(Holders(m)) - 0
          BY <1>8, <5>1
        <5>. QED BY <5>1, <5>2, HoldersFinite
      <4>. QED BY <4>1, <4>2
    <3>. QED BY <1>14, <3>1, <3>3
  <2>2. ASSUME NEW d \in Callers, caller'[d].step \in {"holds", "image"}
        PROVE  \E j \in Entries : conns'[j].conn = caller'[d].conn
    <3>1. caller'[d] = caller[d]
      BY <1>17, <2>2
    <3>2. PICK j \in Entries : conns[j].conn = caller[d].conn
      BY <2>2, <3>1, HolderHasEntry
    <3>. QED BY <1>14, <3>1, <3>2
  <2>3. \A j \in Entries : conns'[j].conn \in up
    BY <1>2, <1>14 DEF Members
  <2>4. ASSUME NEW d \in Callers, At(d, "insert")' PROVE caller'[d].conn \in up
    BY <1>2, <1>17, <2>4 DEF Members, At
  <2>5. ASSUME NEW i \in up
        PROVE  \/ \E j \in Entries : i = conns'[j].conn
               \/ \E d \in Callers : At(d, "insert")' /\ i = caller'[d].conn
    <3>1. CASE \E j \in Entries : i = conns[j].conn
      BY <1>14, <3>1
    <3>2. CASE \E d \in Callers : At(d, "insert") /\ i = caller[d].conn
      <4>1. PICK d \in Callers : At(d, "insert") /\ i = caller[d].conn
        BY <3>2
      <4>2. caller'[d] = caller[d]
        BY <1>1, <1>17, <4>1 DEF At, Busy
      <4>. QED BY <4>1, <4>2 DEF At
    <3>. QED BY <2>5, <3>1, <3>2, UpIsOwned
  <2>6. Members'
    BY <1>1, <1>14, <2>1, <2>2, <2>3, <2>4, <2>5 DEF Members
  <2>. QED BY <2>6, ExactMembers
<1>19. caller' \in [Callers -> [step : {"out", "connect", "insert", "holds", "image"},
                                key : Keys \cup {NoEntry}, conn : Nat]]
  BY <1>16 DEF PoolInv, NoConn
<1>. QED BY <1>1, <1>14, <1>15, <1>17, <1>18, <1>19 DEF PoolInv, At

(* gc takes away only entries without a user.                              *)
LEMMA GcInv ==
  ASSUME PoolInv, Gc
  PROVE  PoolInv'
<1>. DEFINE Old == {k \in Keys : Expired(k)}
<1>1. /\ up' = up \ {conns[k].conn : k \in Old}
      /\ conns' = [k \in Keys |-> IF k \in Old THEN NoEntry ELSE conns[k]]
      /\ made' = made /\ caller' = caller
  BY DEF Gc
<1>2. Old \subseteq Entries /\ \A k \in Old : conns[k].users = 0
  BY DEF Expired, Entries
<1>3. Entries' = Entries \ Old /\ \A k \in Entries' : conns'[k] = conns[k]
  BY <1>1 DEF Entries, PoolInv
<1>4. \A m : Holders(m)' = Holders(m)
  BY <1>1 DEF Holders
<1>5. Members
  BY ExactMembers DEF PoolInv
<1>6. ASSUME NEW d \in Callers, NEW k \in Entries, caller[d].step \in {"holds", "image"},
             conns[k].conn = caller[d].conn
      PROVE  k \notin Old
  <2>1. PICK m : m = conns[k].conn
    OBVIOUS
  <2>2. d \in Holders(m)
    BY <1>6, <2>1 DEF Holders
  <2>3. Cardinality(Holders(m)) # 0
    BY <2>2, HoldersFinite, FS_EmptySet
  <2>. QED BY <1>2, <1>5, <2>1, <2>3 DEF Members
<1>7. PoolExact'
  <2>1. ASSUME NEW d \in Callers, caller'[d].step \in {"holds", "image"}
        PROVE  \E j \in Entries' : conns'[j].conn = caller'[d].conn
    <3>1. PICK j \in Entries : conns[j].conn = caller[d].conn
      BY <1>1, <1>5, <2>1 DEF Members
    <3>2. j \notin Old
      BY <1>1, <1>6, <2>1, <3>1
    <3>. QED BY <1>1, <1>3, <3>1, <3>2
  <2>2. \A j \in Entries' : (conns[j].users = Cardinality(Holders(conns[j].conn)))'
    BY <1>3, <1>4, <1>5 DEF Members
  <2>3. ASSUME NEW j \in Entries' PROVE conns'[j].conn \in up'
    <3>1. \A k \in Old : conns[k].conn # conns[j].conn
      BY <1>2, <1>3 DEF PoolInv
    <3>2. conns[j].conn \in up /\ conns'[j] = conns[j]
      BY <1>3, EntryIsUp
    <3>. QED BY <1>1, <3>1, <3>2
  <2>4. ASSUME NEW d \in Callers, At(d, "insert")' PROVE caller'[d].conn \in up'
    <3>1. \A k \in Old : conns[k].conn # caller[d].conn
      BY <1>1, <1>2, <2>4 DEF PoolInv, At
    <3>. QED BY <1>1, <1>5, <2>4, <3>1 DEF Members, At
  <2>5. ASSUME NEW i \in up'
        PROVE  \/ \E j \in Entries' : i = conns'[j].conn
               \/ \E d \in Callers : At(d, "insert")' /\ i = caller'[d].conn
    BY <1>1, <1>3, <1>5 DEF Members, At
  <2>6. Members'
    BY <2>1, <2>2, <2>3, <2>4, <2>5 DEF Members
  <2>. QED BY <2>6, ExactMembers
<1>8. conns' \in [Keys -> Entry \cup {NoEntry}]
  BY <1>1 DEF PoolInv
<1>9. /\ made' \in Nat /\ \A m \in up' : m \in Nat /\ m <= made'
      /\ \A i, j \in Entries' : conns'[i].conn = conns'[j].conn => i = j
  BY <1>1, <1>3 DEF PoolInv
<1>10. ASSUME NEW d \in Callers, NEW j \in Entries', At(d, "insert")'
       PROVE  caller'[d].conn # conns'[j].conn
  <2>1. At(d, "insert") /\ caller'[d] = caller[d]
    BY <1>1, <1>10 DEF At
  <2>2. j \in Entries /\ conns'[j] = conns[j]
    BY <1>3
  <2>3. caller[d].conn # conns[j].conn
    BY <2>1, <2>2 DEF PoolInv
  <2>. QED BY <2>1, <2>2, <2>3
<1>11. /\ caller' \in [Callers -> [step : {"out", "connect", "insert", "holds", "image"},
                                   key : Keys \cup {NoEntry}, conn : Nat]]
       /\ \A d \in Callers : At(d, "connect")' \/ At(d, "insert")' => caller'[d].key \in Keys
       /\ \A d, e \in Callers : At(d, "insert")' /\ At(e, "insert")' /\ d # e =>
            caller'[d].conn # caller'[e].conn
  BY <1>1 DEF PoolInv, At
<1>. QED BY <1>7, <1>8, <1>9, <1>10, <1>11 DEF PoolInv

-----------------------------------------------------------------------------
(* The step of the induction.                                              *)
LEMMA PoolNextInv == PoolInv /\ [PoolNext]_poolVars => PoolInv'
<1>. SUFFICES ASSUME PoolInv, [PoolNext]_poolVars PROVE PoolInv'
  OBVIOUS
<1>1. CASE UNCHANGED poolVars
  <2>1. Entries' = Entries /\ \A m : Holders(m)' = Holders(m)
    BY <1>1 DEF poolVars, Entries, Holders
  <2>2. Members'
    <3>1. Members
      BY ExactMembers DEF PoolInv
    <3>. QED BY <1>1, <2>1, <3>1 DEF Members, poolVars, At
  <2>. QED BY <1>1, <2>1, <2>2, ExactMembers DEF PoolInv, poolVars, At
<1>2. ASSUME NEW c \in Callers, CallerStep(c) PROVE PoolInv'
  <2>1. ASSUME NEW k \in Keys, GetHit(c, k) PROVE PoolInv'
    BY <2>1, GetHitInv
  <2>2. ASSUME NEW k \in Keys, GetMiss(c, k) PROVE PoolInv'
    BY <2>2, CallerInv DEF GetMiss, At, NoConn, Busy
  <2>3. CASE Connected(c)
    BY <2>3, ConnectedInv
  <2>4. CASE ConnectFails(c)
    BY <2>4, CallerInv DEF ConnectFails, At, NoConn, Busy
  <2>5. CASE Insert(c)
    BY <2>5, InsertHitInv, InsertNewInv DEF Insert
  <2>6. CASE Open(c)
    <3>1. caller[c].key \in Keys \cup {NoEntry} /\ caller[c].conn \in Nat
      BY DEF PoolInv
    <3>. QED BY Zenon, <2>6, <3>1, CallerInv DEF Open, At, Busy
  <2>7. CASE Close(c)
    <3>1. caller[c].key \in Keys \cup {NoEntry} /\ caller[c].conn \in Nat
      BY DEF PoolInv
    <3>. QED BY <2>7, <3>1, CallerInv DEF Close, At, Busy
  <2>8. CASE Put(c)
    BY <2>8, PutInv
  <2>. QED BY <1>2, <2>1, <2>2, <2>3, <2>4, <2>5, <2>6, <2>7, <2>8 DEF CallerStep
<1>. QED BY <1>1, <1>2, AgesInv, GcInv DEF PoolNext

(* The pool alone, with any callers: nobody works on a connection that was *)
(* shut down, counts are exact, and no connection is lost.                 *)
THEOREM PoolStaysExact == PoolSpec => []PoolExact
<1>1. PoolInv => PoolExact
  BY DEF PoolInv
<1>. QED BY <1>1, PoolInitInv, PoolNextInv, PTL DEF PoolSpec

(* A mover process changes the pool only by the pool's own steps.          *)
LEMMA MoverUsesPool == Spec => PoolSpec
<1>1. Init => PoolInit
  BY DEF Init
<1>2. [Next]_vars => [PoolNext]_poolVars
  <2>1. Next => PoolNext \/ UNCHANGED poolVars
    BY DEF Next, Setup, SetupReturns, Cancel, NewWorkerFails, WorkerReturns, Cleanup,
           ChildEnds, SourceWorks, Exits, Serves, RsyncStarts, RsyncEnds, vars
  <2>. QED BY <2>1 DEF vars
<1>. QED BY <1>1, <1>2, PTL DEF Spec, PoolSpec

(* In a mover process, for any number of callers, keys and connections:    *)
(* the count of an entry of the pool is the number of its holders, what a  *)
(* holder uses is up, and what is up is in the pool or about to be.        *)
THEOREM MoverPoolExact == Spec => []PoolExact
BY MoverUsesPool, PoolStaysExact, PTL

-----------------------------------------------------------------------------
(* The servers and the tunnels                                             *)

(* A step of a source pod opens a handler only where the invariant allows  *)
(* one: ExchangeCerts on the open main server, which waits for the lock,   *)
(* or a stream of the pinned source on the open direct server.             *)
LEMMA SourceInv ==
  ASSUME ServerInv, NEW p \in Sources,
         SourceStep(p) \/ SourceFault(p) \/ KeepaliveExpires(p)
  PROVE  ServerInv'
<1>. USE DEF ServerInv, ServerTypeOK, Becomes, certVars, mainVars, Live, Exchanging
<1>1. CASE Connect(p)
  BY <1>1 DEF Connect
<1>2. CASE Ask(p)
  BY <1>2 DEF Ask
<1>3. CASE OpenStream(p)
  BY <1>3 DEF OpenStream, Accepts
<1>4. CASE CallDone(p)
  BY <1>4 DEF CallDone, Accepts
<1>5. CASE Refused(p)
  BY <1>5 DEF Refused
<1>6. CASE SourceFault(p)
  BY <1>6 DEF SourceFault, Dies, Vanishes
<1>7. CASE KeepaliveExpires(p)
  BY <1>7 DEF KeepaliveExpires
<1>. QED BY ZenonT(30), <1>1, <1>2, <1>3, <1>4, <1>5, <1>6, <1>7 DEF SourceStep

(* A handler passes from the lock to the unlock alone, and pins the new    *)
(* listener to its source only after the old one was stopped.              *)
LEMMA HandlerInv ==
  ASSUME ServerInv, NEW p \in Sources, HandlerStep(p)
  PROVE  ServerInv'
<1>. USE SourcesAssumption
     DEF ServerInv, ServerTypeOK, Becomes, Answered, certVars, mainVars, Live, Exchanging
<1>1. CASE ExchangeLock(p)
  BY <1>1 DEF ExchangeLock
<1>2. CASE ExchangeStopped(p)
  BY <1>2 DEF ExchangeStopped, DirectIdle
<1>3. CASE ExchangeStarts(p)
  BY <1>3 DEF ExchangeStarts
<1>4. CASE ExchangeFails(p)
  BY <1>4 DEF ExchangeFails
<1>5. CASE StreamEnds(p)
  BY <1>5 DEF StreamEnds
<1>6. CASE Done(p)
  BY <1>6 DEF Done
<1>. QED BY ZenonT(30), <1>1, <1>2, <1>3, <1>4, <1>5, <1>6 DEF HandlerStep, ExchangeStep

(* RunDestinationServer stops the main server, then the direct one.        *)
LEMMA MainInv ==
  ASSUME ServerInv, MainStep \/ MainFault \/ SelectCancelled
  PROVE  ServerInv'
<1>. USE SourcesAssumption DEF ServerInv, ServerTypeOK, certVars, Exchanging
<1>1. CASE Listen
  BY <1>1 DEF Listen
<1>2. CASE SelectDone
  BY <1>2 DEF SelectDone
<1>3. CASE SelectServeErr
  BY <1>3 DEF SelectServeErr
<1>4. CASE MainStopped
  BY <1>4 DEF MainStopped
<1>5. CASE MainLocks
  BY <1>5 DEF MainLocks
<1>6. CASE DirectStopped
  BY <1>6 DEF DirectStopped, DirectIdle
<1>7. CASE MainFault
  BY Zenon, <1>7 DEF MainFault, ListenFails, ServeFails
<1>8. CASE SelectCancelled
  BY <1>8 DEF SelectCancelled
<1>. QED BY ZenonT(30), <1>1, <1>2, <1>3, <1>4, <1>5, <1>6, <1>7, <1>8 DEF MainStep

(* What the servers do leaves the rest of the process alone.               *)
LEMMA ServesInv ==
  ASSUME MoverInv, ServerInv', workerType = "destination", mover \in {"run", "cleanup"},
         mover = "cleanup" => main' = "returned",
         UNCHANGED <<moverVars, tunnelVars>>
  PROVE  MoverInv'
BY DEF MoverInv, TunnelInv, TunnelTypeOK, moverVars, tunnelVars, SetupSteps

(* A step that leaves the servers alone keeps their invariant.             *)
LEMMA ServerUnchanged ==
  ASSUME ServerInv, UNCHANGED serverVars
  PROVE  ServerInv'
BY DEF ServerInv, ServerTypeOK, serverVars

LEMMA TunnelUnchanged ==
  ASSUME TunnelInv, UNCHANGED tunnelVars
  PROVE  TunnelInv'
BY DEF TunnelInv, TunnelTypeOK, tunnelVars

LEMMA MoverInitInv == Init => MoverInv
<1>. SUFFICES ASSUME Init PROVE MoverInv
  OBVIOUS
<1>1. ServerTypeOK
  <2>1. client \in [Sources -> Live] /\ handler \in [Sources -> {"none"}]
    BY DEF Init, ServerInit, Live
  <2>2. serveErr \in BOOLEAN
    BY Zenon DEF Init, ServerInit
  <2>3. shutdownChan \in 0 .. 1
    BY DEF Init, ServerInit
  <2>. QED BY <2>1, <2>2, <2>3 DEF Init, ServerInit, ServerTypeOK
<1>2. ServerInv
  BY <1>1, SourcesAssumption DEF Init, ServerInit, ServerInv, Exchanging
<1>3. TunnelTypeOK
  BY Zenon DEF Init, TunnelInit, TunnelTypeOK, SetupSteps, Processes
<1>4. TunnelInv
  BY <1>3 DEF Init, TunnelInit, TunnelInv
<1>. QED BY <1>2, <1>4 DEF Init, ServerInit, TunnelInit, MoverInv

(* Setup signals stunnel on every failure after its pid is known.          *)
LEMMA SetupInv ==
  ASSUME TunnelInv, SetupStep
  PROVE  TunnelInv'
<1>. USE DEF TunnelInv, TunnelTypeOK, SetupSteps, Processes, SetupFails, SetupGoes,
             StopStunnel, Signalled
<1>1. CASE CheckPSK
  BY <1>1 DEF CheckPSK
<1>2. CASE StartStunnel
  BY <1>2 DEF StartStunnel
<1>3. CASE WaitForPID
  BY Zenon, <1>3 DEF WaitForPID
<1>4. CASE WaitForSockets
  BY Zenon, <1>4 DEF WaitForSockets
<1>5. CASE StartRsync
  BY Zenon, <1>5 DEF StartRsync
<1>6. CASE CheckRsync
  BY Zenon, <1>6 DEF CheckRsync
<1>7. CASE WriteConfig
  BY <1>7 DEF WriteConfig
<1>. QED BY <1>1, <1>2, <1>3, <1>4, <1>5, <1>6, <1>7 DEF SetupStep

LEMMA MoverNextInv == MoverInv /\ [Next]_vars => MoverInv'
<1>. SUFFICES ASSUME MoverInv, [Next]_vars PROVE MoverInv'
  OBVIOUS
<1>. USE DEF MoverInv
<1>1. CASE Setup
  <2>1. ServerInv' /\ TunnelInv' /\ main' = main /\ mover' = mover /\ outcome' = outcome
    BY <1>1, ServerUnchanged, SetupInv DEF Setup, moverVars, serverVars
  <2>2. workerType' = workerType
    BY <1>1 DEF Setup, SetupStep, CheckPSK, WriteConfig, StartStunnel, WaitForPID,
                WaitForSockets, StartRsync, CheckRsync, SetupFails, SetupGoes
  <2>. QED BY <1>1, <2>1, <2>2 DEF Setup
<1>2. CASE SetupReturns
  BY Zenon, <1>2, ServerUnchanged, TunnelUnchanged
     DEF SetupReturns, serverVars, tunnelVars, TunnelInv, ServerInv
<1>3. CASE Cancel \/ SourceWorks \/ Exits \/ UNCHANGED vars
            \/ \E p \in Sources : RsyncStarts(p) \/ RsyncEnds(p)
  <2>1. UNCHANGED <<mover, serverVars, tunnelVars>>
    BY <1>3 DEF Cancel, SourceWorks, Exits, RsyncStarts, RsyncEnds, vars, moverVars
  <2>. QED BY <2>1, ServerUnchanged, TunnelUnchanged DEF serverVars, tunnelVars
<1>4. CASE NewWorkerFails
  <2>1. ServerInv'
    BY <1>4, SourcesAssumption
       DEF NewWorkerFails, ServerInv, ServerTypeOK, certVars
  <2>. QED BY <1>4, <2>1, TunnelUnchanged DEF NewWorkerFails, tunnelVars
<1>5. CASE WorkerReturns
  BY <1>5, ServerUnchanged, TunnelUnchanged
     DEF WorkerReturns, serverVars, tunnelVars, TunnelInv, TunnelTypeOK
<1>6. CASE Cleanup
  <2>1. ServerInv' /\ main' = main /\ outcome' = outcome
    BY <1>6, ServerUnchanged DEF Cleanup, serverVars
  <2>2. TunnelInv' /\ rsyncd' # "up" /\ stunnel' # "up"
    BY <1>6 DEF Cleanup, TunnelInv, TunnelTypeOK, StopRsync, StopStunnel, Signalled,
                Processes, SetupSteps
  <2>. QED BY <1>6, <2>1, <2>2 DEF Cleanup
<1>7. CASE ChildEnds
  <2>1. ServerInv' /\ main' = main /\ outcome' = outcome /\ mover' = mover
    BY <1>7, ServerUnchanged DEF ChildEnds, serverVars, moverVars
  <2>2. TunnelInv'
    <3>1. UNCHANGED <<workerType, rsyncTunnel, setup, pid>>
      BY <1>7 DEF ChildEnds, ProcessEnds
    <3>2. TunnelTypeOK'
      BY <1>7, <3>1 DEF ChildEnds, ProcessEnds, TunnelInv, TunnelTypeOK, Processes
    <3>3. \/ rsyncd' = rsyncd /\ stunnel' # "up"
          \/ rsyncd = "up" /\ rsyncd' = "dead"
      BY <1>7 DEF ChildEnds, ProcessEnds
    <3>. QED BY <3>1, <3>2, <3>3 DEF TunnelInv, SetupSteps
  <2>. QED BY <1>7, <2>1, <2>2 DEF ChildEnds, ProcessEnds
<1>8. CASE Serves(MainStep \/ MainFault) \/ Serves(SelectCancelled)
  <2>1. ServerInv'
    BY <1>8, MainInv DEF Serves
  <2>2. mover = "cleanup" => main' = "returned"
    BY <1>8 DEF Serves, MainStep, MainFault, Listen, ListenFails, ServeFails, SelectDone,
                SelectServeErr, SelectCancelled, MainStopped, MainLocks, DirectStopped,
                ServerInv, ServerTypeOK
  <2>. QED BY <1>8, <2>1, <2>2, ServesInv DEF Serves
<1>9. ASSUME NEW p \in Sources,
             Serves(SourcePod(p) \/ SourceFault(p) \/ KeepaliveExpires(p) \/ HandlerStep(p))
      PROVE  MoverInv'
  <2>1. ServerInv'
    BY <1>9, SourceInv, HandlerInv DEF Serves, SourcePod, SourceStep
  <2>2. main' = main /\ outcome' = outcome
    BY Zenon, <1>9 DEF Serves, SourcePod, SourceFault, HandlerStep, ExchangeStep, Connect, Ask,
                OpenStream, CallDone, Refused, Dies, Vanishes, KeepaliveExpires,
                ExchangeLock, ExchangeStopped, ExchangeStarts, ExchangeFails, StreamEnds,
                Done, mainVars
  <2>. QED BY <1>9, <2>1, <2>2, ServesInv DEF Serves
<1>. QED BY ZenonT(30), <1>1, <1>2, <1>3, <1>4, <1>5, <1>6, <1>7, <1>8, <1>9 DEF Next

LEMMA MoverAlwaysInv == Spec => []MoverInv
BY MoverInitInv, MoverNextInv, PTL DEF Spec

(* However many source pods ask for the destination, in whatever order:    *)
(* two of them never write over its direct server at the same time.        *)
THEOREM SourcesFenced == Spec => []OneSourceWrites
<1>1. MoverInv => OneSourceWrites
  BY DEF MoverInv, ServerInv, OneSourceWrites, Writing
<1>. QED BY <1>1, MoverAlwaysInv, PTL

(* However many source pods are served, a mover that has returned after    *)
(* Done or a cancellation has left no handler and no listener, and a child *)
(* process without a signal only where Setup failed to get its pid.        *)
THEOREM ReturnedIsQuiet == Spec => []NothingLeftRunning
<1>1. ASSUME MoverInv, mover = "returned", outcome \in {"nil", "ctx"}
      PROVE  Quiet
  <2>1. setup = "done" /\ workerType = "destination"
    BY <1>1 DEF MoverInv, ServerInv, TunnelInv, TunnelTypeOK
  <2>2. main = "returned"
    BY <1>1, <2>1 DEF MoverInv
  <2>. QED BY <1>1, <2>2 DEF MoverInv, ServerInv, ServerTypeOK, Exchanging, Quiet
<1>2. MoverInv => NothingLeftRunning
  BY <1>1 DEF MoverInv, NothingLeftRunning
<1>. QED BY <1>2, MoverAlwaysInv, PTL

-----------------------------------------------------------------------------
(* The types                                                               *)

(* Connections are numbered from 1, and nobody has one that was not made.  *)
Numbered ==
  /\ made <= MaxConns /\ \A n \in up : n > 0
  /\ \A c \in Callers : caller[c].conn <= made

LEMMA CallerNumbered ==
  ASSUME PoolInv, Numbered, NEW c \in Callers, NEW t, NEW k, NEW n \in Nat, Goes(c, t, k, n),
         made' \in Nat, made <= made', n <= made'
  PROVE  \A d \in Callers : caller'[d].conn <= made'
<1>1. \A d \in Callers : caller[d].conn \in Nat /\ caller[d].conn <= made'
  BY DEF PoolInv, Numbered
<1>2. \A d \in Callers : caller'[d].conn = IF d = c THEN n ELSE caller[d].conn
  BY DEF PoolInv, Goes
<1>. QED BY <1>1, <1>2

LEMMA NumberedNext ==
  ASSUME PoolInv, Numbered, PoolNext
  PROVE  Numbered'
<1>. USE DEF Numbered
<1>1. made \in Nat /\ made <= MaxConns /\ MaxConns \in Nat /\ NoConn \in Nat /\ NoConn <= made
  BY PoolAssumption DEF PoolInv, NoConn
<1>2. \A k \in Keys : conns[k] # NoEntry => conns[k].conn \in Nat /\ conns[k].conn <= made
  BY EntryIsUp, EntryIsRecord DEF Entries, PoolInv
<1>3. \A d \in Callers : caller[d].conn \in Nat /\ caller[d].conn <= made
  BY DEF PoolInv
<1>4. ASSUME NEW c \in Callers, NEW k \in Keys, GetHit(c, k) \/ GetMiss(c, k) PROVE Numbered'
  <2>1. \E t : \E n \in Nat : Goes(c, t, k, n) /\ n <= made
    BY <1>1, <1>2, <1>4 DEF GetHit, GetMiss
  <2>2. made' = made /\ up' = up
    BY <1>4 DEF GetHit, GetMiss
  <2>3. \A d \in Callers : caller'[d].conn <= made'
    BY <1>1, <2>1, <2>2, CallerNumbered
  <2>. QED BY <2>2, <2>3
<1>5. ASSUME NEW c \in Callers, Connected(c) PROVE Numbered'
  <2>1. made' = made + 1 /\ made' <= MaxConns /\ up' = up \cup {made'}
    BY <1>1, <1>5 DEF Connected
  <2>2. Goes(c, "insert", caller[c].key, made')
    BY <1>5 DEF Connected
  <2>3. \A d \in Callers : caller'[d].conn <= made'
    BY <1>1, <2>1, <2>2, CallerNumbered
  <2>. QED BY <1>1, <2>1, <2>3
<1>6. ASSUME NEW c \in Callers,
             ConnectFails(c) \/ Insert(c) \/ Open(c) \/ Close(c) \/ Put(c)
      PROVE  Numbered'
  <2>1. made' = made /\ up' \subseteq up
    BY <1>6 DEF ConnectFails, Insert, Open, Close, Put
  <2>2. At(c, "insert") => caller[c].key \in Keys
    BY DEF PoolInv
  <2>3. \E t, k : \E n \in Nat : Goes(c, t, k, n) /\ n <= made
    BY <1>1, <1>2, <1>3, <1>6, <2>2 DEF ConnectFails, Insert, Open, Close, Put
  <2>4. \A d \in Callers : caller'[d].conn <= made'
    BY <1>1, <2>1, <2>3, CallerNumbered
  <2>. QED BY <2>1, <2>4
<1>7. ASSUME Gc \/ \E k \in Keys : Ages(k) PROVE Numbered'
  BY <1>7 DEF Gc, Ages
<1>. QED BY Zenon, <1>4, <1>5, <1>6, <1>7 DEF PoolNext, CallerStep

(* The types of the process, of its servers, tunnels and connections, with *)
(* the ranges of the connection numbers.                                   *)
THEOREM MoverTypes == Spec => []TypeOK
<1>1. PoolSpec => [](PoolInv /\ Numbered)
  <2>1. PoolInit => Numbered
    BY PoolAssumption DEF PoolInit, Numbered, NoConn
  <2>2. PoolInv /\ Numbered /\ [PoolNext]_poolVars => Numbered'
    <3>1. Numbered /\ UNCHANGED poolVars => Numbered'
      BY DEF Numbered, poolVars
    <3>. QED BY <3>1, NumberedNext
  <2>. QED BY <2>1, <2>2, PoolInitInv, PoolNextInv, PTL DEF PoolSpec
<1>2. Spec => [](cancelled \in BOOLEAN /\ sessions \subseteq Sources)
  <2>1. Init => cancelled \in BOOLEAN /\ sessions \subseteq Sources
    BY Zenon DEF Init
  <2>2. cancelled \in BOOLEAN /\ sessions \subseteq Sources /\ [Next]_vars
          => (cancelled \in BOOLEAN /\ sessions \subseteq Sources)'
    BY Zenon DEF Next, Setup, SetupReturns, Cancel, NewWorkerFails, WorkerReturns, Cleanup, ChildEnds,
           SourceWorks, Exits, Serves, RsyncStarts, RsyncEnds, vars, moverVars
  <2>. QED BY <2>1, <2>2, PTL DEF Spec
<1>3. PoolInv /\ Numbered => PoolTypeOK
  <2>. SUFFICES ASSUME PoolInv, Numbered PROVE PoolTypeOK
    OBVIOUS
  <2>1. made \in 0 .. MaxConns /\ up \subseteq 1 .. made
    BY PoolAssumption DEF PoolInv, Numbered
  <2>2. \A k \in Entries : conns[k].conn \in 1 .. made /\ conns[k] \in Entry
    BY Zenon, <2>1, EntryIsUp, EntryIsRecord
  <2>3. \A c \in Callers : /\ caller[c].step \in {"out", "connect", "insert", "holds", "image"}
                           /\ caller[c].key \in Keys \cup {NoEntry}
                           /\ caller[c].conn \in 0 .. made
    BY DEF PoolInv, Numbered
  <2>. QED BY <2>1, <2>2, <2>3 DEF PoolTypeOK, Entry
<1>4. MoverInv => ServerTypeOK /\ TunnelTypeOK /\ mover \in {"setup", "run", "cleanup", "returned"}
  BY DEF MoverInv, ServerInv, TunnelInv
<1>. QED BY <1>1, <1>2, <1>3, <1>4, MoverUsesPool, MoverAlwaysInv, PTL DEF TypeOK
=============================================================================
