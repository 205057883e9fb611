------------------------------ MODULE MCCephFS ------------------------------
(* A few small files, one of them without changed blocks; boundaryCh holds *)
(* one boundary, so that the backlog is used.                              *)
EXTENDS CephFSTransfer

MCLayout == <<1, 2, 0, 1>>
MCBlocks == 0 .. 3
SingleBlockLayout == <<1, 1, 1, 1>>

PipeFailure == {"pipe"}
CommitFailure == {"commit"}
AllFailures == {"pipe", "commit", "cancel"}
=============================================================================
