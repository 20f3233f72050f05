-------------------------- MODULE MCH2tsChannel --------------------------
(* Small instances of H2tsChannel for TLC.                                 *)
EXTENDS H2tsChannel, TLC

CONSTANTS a, b

CallsMC == {a, b}
=============================================================================
