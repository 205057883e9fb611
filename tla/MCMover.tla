------------------------------- MODULE MCMover -------------------------------
(* A source pod and its replacement, or two users of the connection pool   *)
(* and two credentials.                                                    *)
EXTENDS MoverProcess

CONSTANTS a, b, x, y, k1, k2

MCSources == {a, b}
MCCallers == {x, y}
MCKeys == {k1, k2}
=============================================================================
