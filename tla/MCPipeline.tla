----------------------------- MODULE MCPipeline -----------------------------
(* Small pipelines, with two readers and one sender or the other way       *)
(* round, and LastReqID + 1 blocks of all three kinds and of two sizes.    *)
EXTENDS Pipeline

CONSTANTS r1, r2, s1, s2, LastReqID

MCReaders == {r1, r2}
MCSenders == {s1, s2}
TwoReaders == {<<{r1, r2}, {s1}>>}
TwoOfEither == TwoReaders \cup {<<{r1}, {s1, s2}>>}
MCReqIDs == 0 .. LastReqID
MCKind == [id \in MCReqIDs |-> CASE id % 3 = 0 -> "data" [] id % 3 = 1 -> "hole" [] OTHER -> "zero"]
MCSize == [id \in MCReqIDs |-> IF id % 3 = 0 THEN 1 ELSE 2]

NoFaults == {}
AllFaults == {"read", "stream", "factory", "cancel"}
=============================================================================
