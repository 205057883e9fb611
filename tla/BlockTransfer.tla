---------------------------- MODULE BlockTransfer ----------------------------
(***************************************************************************)
(* What Pipeline.Run promises the code that shares the window with it (the *)
(* commit drainer and the RBD source): which blocks it has taken from the  *)
(* iterator, which the destination has written, which ids have been        *)
(* released, and with what Run returns.                                    *)
(***************************************************************************)
CONSTANT Blocks      \* the request ids the iterator may produce

VARIABLES fed,       \* blocks taken from the iterator
          stored,    \* blocks the destination has written
          free,      \* ids released in the window
          faulted,   \* something has gone wrong
          outcome    \* what Run returned, "none" while it runs

transferVars == <<fed, stored, free, faulted, outcome>>

TransferInit ==
  /\ fed = {}
  /\ stored = {}
  /\ free = {}
  /\ faulted = FALSE
  /\ outcome = "none"

Taken(id) ==
  /\ outcome = "none"
  /\ fed' = fed \cup {id}
  /\ UNCHANGED <<stored, free, faulted, outcome>>

(* The destination writes some blocks; also late, after a failed Run has   *)
(* returned.                                                               *)
Written(S) ==
  /\ S \subseteq fed
  /\ stored' = stored \cup S
  /\ UNCHANGED <<fed, free, faulted, outcome>>

(* An acknowledged block is released.                                      *)
Acked(id) ==
  /\ outcome = "none"
  /\ id \in stored \ free
  /\ free' = free \cup {id}
  /\ UNCHANGED <<fed, stored, faulted, outcome>>

(* Once something has failed, ids are also released that were not written. *)
Abandoned(id) ==
  /\ outcome = "none"
  /\ faulted
  /\ id \in fed \ free
  /\ free' = free \cup {id}
  /\ UNCHANGED <<fed, stored, faulted, outcome>>

(* A read, a stream, a factory or the context fails; the batch that was    *)
(* being written may be written in part.                                   *)
Fault(S) ==
  /\ S \subseteq fed
  /\ faulted' = TRUE
  /\ stored' = stored \cup S
  /\ UNCHANGED <<fed, free, outcome>>

(* Run returns nil only when every block it took is written and released,  *)
(* and an error only when something has failed.                            *)
Return(o) ==
  /\ outcome = "none"
  /\ o = "ok" => fed \subseteq stored \cap free
  /\ o = "err" => faulted
  /\ outcome' = o
  /\ UNCHANGED <<fed, stored, free, faulted>>

TransferNext ==
  \/ \E S \in SUBSET Blocks : Written(S) \/ Fault(S)
  \/ \E id \in Blocks : Taken(id) \/ Acked(id) \/ Abandoned(id)
  \/ \E o \in {"ok", "err"} : Return(o)

TransferSpec == TransferInit /\ [][TransferNext]_transferVars
=============================================================================
