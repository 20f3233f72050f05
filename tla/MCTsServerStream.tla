------------------------- MODULE MCTsServerStream -------------------------
(* Small instances of TsServerStream for TLC.                              *)
EXTENDS TsServerStream, TLC

UnavailableMC == {"unavailable"}
=============================================================================
