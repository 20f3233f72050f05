------------------------------- MODULE MCGoWs -------------------------------
(* Small instances of GoWs for TLC: the messages the peer may send.        *)
EXTENDS GoWs

In(form, kind, data, big) == [form |-> form, kind |-> kind, data |-> data, big |-> big]
CloseFrame == [form |-> "close"]
BSubscribe == In("binary", "Subscribe", FALSE, FALSE)
BReset == In("binary", "Reset", FALSE, FALSE)

(* A binary client that opens streams and ends them, its own way or by     *)
(* sending too much.                                                       *)
ReopenFrames == {BSubscribe, In("binary", "Message", TRUE, TRUE), BReset}

(* A client whose codec is taken from its first frame.                     *)
InferFrames == {In("text", "Message", TRUE, FALSE), In("text", "HalfClose", FALSE, FALSE),
                In("text", "Message", TRUE, TRUE), In("binary", "HalfClose", FALSE, FALSE),
                In("text", "Garbage", FALSE, FALSE), CloseFrame}
=============================================================================
