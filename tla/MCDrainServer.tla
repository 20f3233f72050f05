--------------------------- MODULE MCDrainServer ---------------------------
(* Small instances of DrainServer for TLC.                                 *)
EXTENDS DrainServer, TLC

CONSTANTS c1, c2, r1, r2

ConnsMC == {c1, c2}
ReqsMC == {r1, r2}
Symmetry == Permutations(ConnsMC) \cup Permutations(ReqsMC)
=============================================================================
