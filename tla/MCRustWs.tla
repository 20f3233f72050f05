------------------------------ MODULE MCRustWs ------------------------------
(* Small instances of RustWs for TLC: the messages the peer may send.      *)
EXTENDS RustWs

In(form, kind, data, big) == [form |-> form, kind |-> kind, data |-> data, big |-> big]
CloseFrame == [form |-> "close"]
BSubscribe == In("binary", "Subscribe", FALSE, FALSE)
BTooBig == In("binary", "Message", TRUE, TRUE)
BReset == In("binary", "Reset", FALSE, FALSE)

(* A binary client that opens streams and ends them, its own way or by     *)
(* sending too much.                                                       *)
ReopenFrames == {BSubscribe, BTooBig, BReset}
(* A client whose codec is taken from its first frame: text and binary,    *)
(* well-formed or not, and which never sends a Reset.                      *)
InferFrames == {In("text", "Message", TRUE, FALSE), In("text", "HalfClose", FALSE, FALSE),
                In("text", "Garbage", FALSE, FALSE), In("text", "Message", TRUE, TRUE),
                In("binary", "HalfClose", FALSE, FALSE), BSubscribe, CloseFrame}
=============================================================================
