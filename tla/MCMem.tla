------------------------------- MODULE MCMem -------------------------------
(* Four readers share a budget of three units; requests of one, two and    *)
(* three units make a large request wait behind and ahead of small ones.   *)
EXTENDS MemClients

CONSTANTS r1, r2, r3, r4

MCSizes == {1, 2, 3}
MCCallers == {r1, r2, r3, r4}
=============================================================================
