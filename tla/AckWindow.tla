------------------------------ MODULE AckWindow ------------------------------
(***************************************************************************)
(* What the window semaphore promises, without a ring, a base or a list of *)
(* waiters: the set of ids that were released, and the rule that an id may *)
(* be in flight only when every id at least Span below it was released.    *)
(***************************************************************************)
EXTENDS Integers

CONSTANTS Span,     \* the width of the window
          ReqIDs    \* the request ids that occur

VARIABLES held,     \* ids that own a place in the window
          done      \* ids that were released

vars == <<held, done>>

Init == held = {} /\ done = {}

(* An id enters the window once, when all the ids Span or more below it    *)
(* are done.                                                               *)
MayEnter(id) ==
  /\ id \notin held \cup done
  /\ \A j \in 0 .. id - Span : j \in done

Enter(S) ==
  /\ \A id \in S : MayEnter(id)
  /\ held' = held \cup S
  /\ UNCHANGED done

(* An id is done.  That may make room for ids that were waiting, which     *)
(* enter in the same step.                                                 *)
Finish(id, S) ==
  /\ id \in held
  /\ done' = done \cup {id}
  /\ \A j \in S : j \notin held \cup done /\ \A i \in 0 .. j - Span : i \in done'
  /\ held' = (held \ {id}) \cup S

Next == \E S \in SUBSET ReqIDs : Enter(S) \/ \E id \in ReqIDs : Finish(id, S)

Spec == Init /\ [][Next]_vars
=============================================================================
