-------------------------------- MODULE MCRBD --------------------------------
(* Every list of up to two extents, in the order of their offsets, also    *)
(* overlapping and nested ones, on a device of four positions that is cut  *)
(* into blocks of two.                                                     *)
EXTENDS RBDTransfer

MCSize == 4
MCBlocks == 0 .. MCSize - 1
MCExtents == {e \in [off : 0 .. MCSize - 1, len : 1 .. MCSize] : e.off + e.len <= MCSize}
MCDiffs == {<<>>} \cup {<<e>> : e \in MCExtents}
             \cup {<<p[1], p[2]>> : p \in {q \in MCExtents \X MCExtents : q[1].off <= q[2].off}}

AllFailures == {"diff", "pipe", "commit", "done", "cancel"}
DiffFailure == {"diff"}
=============================================================================
