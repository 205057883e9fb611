------------------------------- MODULE MCSync -------------------------------
(* Two directories with entries of every kind.                             *)
EXTENDS CephFSSync, TLC

CONSTANTS f1, f2, s1, g1, g2, d1, w1, w2

MCListing == <<<<f1, g1, d1>>, <<s1, f2, g2>>>>
MCKind == (f1 :> "file") @@ (f2 :> "file") @@ (s1 :> "special") @@ (g1 :> "gone") @@ (g2 :> "gone")
          @@ (d1 :> "dir")
MCWorkers == [q \in Pools |-> IF q = "meta" THEN {w1, w2} ELSE {w1}]
MCExitCodes == {-1, 0, 1, 23}
=============================================================================
