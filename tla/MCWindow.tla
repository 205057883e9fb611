------------------------------- MODULE MCWindow -------------------------------
(* Small instances of WindowClients: a ring of two or four slots and enough *)
(* ids to go round it more than once.                                       *)
EXTENDS WindowClients

CONSTANT LastReqID
MCReqIDs == 0 .. LastReqID
=============================================================================
