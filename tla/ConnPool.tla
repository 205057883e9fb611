------------------------------ MODULE ConnPool ------------------------------
(***************************************************************************)
(* The pool of RADOS connections (ceph/connection).  An entry counts its   *)
(* users; a timer's gc shuts down what nobody has used for a while.  Get   *)
(* connects outside the lock and looks again before it inserts.            *)
(***************************************************************************)
EXTENDS Naturals, FiniteSets

CONSTANTS Callers,     \* ClusterConnections
          Keys,        \* monitors, user and key, made into one string
          MaxConns,    \* connections ever made (a bound of the model)
          NoEntry

Entry == [conn : Nat, users : Nat, fresh : BOOLEAN]

ASSUME PoolAssumption ==
  /\ IsFiniteSet(Callers)
  /\ MaxConns \in Nat
  /\ NoEntry \notin Entry

VARIABLES conns,       \* Keys -> connEntry or NoEntry
          made,        \* number of connections made so far
          up,          \* connections that are not shut down
          caller       \* step, key and connection of each caller

poolVars == <<conns, made, up, caller>>

NoConn == 0

PoolInit ==
  /\ conns = [k \in Keys |-> NoEntry]
  /\ made = 0
  /\ up = {}
  /\ caller = [c \in Callers |-> [step |-> "out", key |-> NoEntry, conn |-> NoConn]]

At(c, s) == caller[c].step = s
Goes(c, s, k, n) == caller' = [caller EXCEPT ![c] = [step |-> s, key |-> k, conn |-> n]]

(* get: one more user, used now.                                           *)
Used(k) ==
  [conns EXCEPT ![k] = [conn |-> @.conn, users |-> @.users + 1, fresh |-> TRUE]]

(* getConn finds an entry.                                                 *)
GetHit(c, k) ==
  /\ At(c, "out")
  /\ conns[k] # NoEntry
  /\ conns' = Used(k)
  /\ Goes(c, "holds", k, conns[k].conn)
  /\ UNCHANGED <<made, up>>

GetMiss(c, k) ==
  /\ At(c, "out")
  /\ conns[k] = NoEntry
  /\ Goes(c, "connect", k, NoConn)
  /\ UNCHANGED <<conns, made, up>>

(* NewConnWithUser, ParseCmdLineArgs, ReadConfigFile and Connect.          *)
Connected(c) ==
  /\ At(c, "connect")
  /\ made < MaxConns
  /\ made' = made + 1
  /\ up' = up \cup {made'}
  /\ Goes(c, "insert", caller[c].key, made')
  /\ UNCHANGED conns

ConnectFails(c) ==
  /\ At(c, "connect")
  /\ Goes(c, "out", NoEntry, NoConn)
  /\ UNCHANGED <<conns, made, up>>

(* Under the lock again: an entry made meanwhile is used instead.          *)
Insert(c) ==
  LET k == caller[c].key IN
  /\ At(c, "insert")
  /\ \/ /\ conns[k] # NoEntry
        /\ conns' = Used(k)
        /\ up' = up \ {caller[c].conn}
        /\ Goes(c, "holds", k, conns[k].conn)
     \/ /\ conns[k] = NoEntry
        /\ conns' = [conns EXCEPT ![k] = [conn |-> caller[c].conn, users |-> 1, fresh |-> TRUE]]
        /\ Goes(c, "holds", k, caller[c].conn)
        /\ UNCHANGED up
  /\ UNCHANGED made

(* An image or a mount is opened on the connection, and closed before the  *)
(* connection is given back.                                               *)
Open(c) ==
  /\ At(c, "holds")
  /\ Goes(c, "image", caller[c].key, caller[c].conn)
  /\ UNCHANGED <<conns, made, up>>

Close(c) ==
  /\ At(c, "image")
  /\ Goes(c, "holds", caller[c].key, caller[c].conn)
  /\ UNCHANGED <<conns, made, up>>

(* The entry of a connection, looked for by the connection.                *)
EntriesOf(n) == {k \in Keys : conns[k] # NoEntry /\ conns[k].conn = n}

(* ClusterConnection.Destroy: Put takes one user off the entry.            *)
Put(c) ==
  /\ At(c, "holds")
  /\ conns' = [k \in Keys |-> IF k \in EntriesOf(caller[c].conn)
                                THEN [conns[k] EXCEPT !.users = @ - 1] ELSE conns[k]]
  /\ Goes(c, "out", NoEntry, NoConn)
  /\ UNCHANGED <<made, up>>

(* The entry was last used longer ago than the expiry.                     *)
Ages(k) ==
  /\ conns[k] # NoEntry /\ conns[k].fresh
  /\ conns' = [conns EXCEPT ![k].fresh = FALSE]
  /\ UNCHANGED <<made, up, caller>>

(* Mutant of Expired: looks only at the time. *)
ExpiredUsed(k) == conns[k] # NoEntry /\ ~conns[k].fresh

Expired(k) == conns[k] # NoEntry /\ conns[k].users = 0 /\ ~conns[k].fresh

Gc ==
  /\ \E k \in Keys : Expired(k)
  /\ up' = up \ {conns[k].conn : k \in {j \in Keys : Expired(j)}}
  /\ conns' = [k \in Keys |-> IF Expired(k) THEN NoEntry ELSE conns[k]]
  /\ UNCHANGED <<made, caller>>

CallerStep(c) ==
  \/ \E k \in Keys : GetHit(c, k) \/ GetMiss(c, k)
  \/ Connected(c) \/ ConnectFails(c) \/ Insert(c) \/ Open(c) \/ Close(c) \/ Put(c)

PoolNext == (\E c \in Callers : CallerStep(c)) \/ (\E k \in Keys : Ages(k)) \/ Gc

PoolSpec == PoolInit /\ [][PoolNext]_poolVars

-----------------------------------------------------------------------------
Entries == {k \in Keys : conns[k] # NoEntry}
Holders(n) == {c \in Callers : caller[c].step \in {"holds", "image"} /\ caller[c].conn = n}

PoolTypeOK ==
  /\ made \in 0 .. MaxConns
  /\ up \subseteq 1 .. made
  /\ \A k \in Entries : /\ conns[k].conn \in 1 .. made
                        /\ conns[k].users \in Nat
                        /\ conns[k].fresh \in BOOLEAN
  /\ \A c \in Callers : /\ caller[c].step \in {"out", "connect", "insert", "holds", "image"}
                        /\ caller[c].key \in Keys \cup {NoEntry}
                        /\ caller[c].conn \in 0 .. made

(* Nobody works on a connection that was shut down, an entry's count is    *)
(* the number of its holders, and no connection is lost: each one that is  *)
(* up is in the pool or about to be inserted.  Get connects outside the    *)
(* lock, Put finds the entry by its connection, and gc may run at any time *)
(* of a long transfer.                                                     *)
PoolExact ==
  /\ \A c \in Callers : caller[c].step \in {"holds", "image"} =>
       \E k \in Entries : conns[k].conn = caller[c].conn
  /\ \A k \in Entries : conns[k].conn \in up
                        /\ conns[k].users = Cardinality(Holders(conns[k].conn))
  /\ up = {conns[k].conn : k \in Entries}
            \cup {caller[c].conn : c \in {d \in Callers : At(d, "insert")}}

(* The inductive invariant behind PoolExact: two entries never share a     *)
(* connection, and one that waits to be inserted is nobody else's.         *)
PoolInv ==
  /\ made \in Nat
  /\ conns \in [Keys -> Entry \cup {NoEntry}]
  /\ caller \in [Callers -> [step : {"out", "connect", "insert", "holds", "image"},
                             key : Keys \cup {NoEntry}, conn : Nat]]
  /\ \A n \in up : n \in Nat /\ n <= made
  /\ PoolExact
  /\ \A j, k \in Entries : conns[j].conn = conns[k].conn => j = k
  /\ \A c \in Callers : At(c, "connect") \/ At(c, "insert") => caller[c].key \in Keys
  /\ \A c, d \in Callers : At(c, "insert") /\ At(d, "insert") /\ c # d =>
       caller[c].conn # caller[d].conn
  /\ \A c \in Callers, k \in Entries : At(c, "insert") => caller[c].conn # conns[k].conn

=============================================================================
