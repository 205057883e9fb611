------------------------------ MODULE MCFiles -------------------------------
(* Two files. On the destination two Write streams share the two blocks of *)
(* one file and the other is committed without an open handle; on the      *)
(* source two read workers share three chunks of both.                     *)
EXTENDS WorkerFiles, TLC

CONSTANTS p, q, s1, s2, r1, r2, b1, b2, b3

MCPaths == {p, q}
MCStreams == {s1, s2}
MCReaders == {r1, r2}
MCBlocks == {b1, b2}
MCPathOf == [b \in MCBlocks |-> p]
MCChunks == {b1, b2, b3}
MCFileOf == [c \in MCChunks |-> IF c = b3 THEN q ELSE p]

Interchangeable == Permutations(MCStreams) \cup Permutations(MCReaders) \cup Permutations(MCBlocks)
=============================================================================
