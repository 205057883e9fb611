----------------------------- MODULE MCLifecycle -----------------------------
(* Replication for TLC. *)
EXTENDS Replication

(* The place changes from each snapshot to the next, and is in the third   *)
(* again as it was in the first.                                           *)
ChangedBack == [s \in Snapshots |-> s % 2]

==============================================================================
