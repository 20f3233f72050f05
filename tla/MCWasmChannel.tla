--------------------------- MODULE MCWasmChannel ---------------------------
(* Small instances of WasmChannel for TLC.                                 *)
EXTENDS WasmChannel
=============================================================================
