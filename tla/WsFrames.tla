------------------------------ MODULE WsFrames ------------------------------
(***************************************************************************)
(* What travels on a custom-`Frame` WebSocket, for both servers: the       *)
(* peer's WebSocket messages and their decoding, and the server's frames.  *)
(* Payloads, metadata and status texts are left out; of a payload only     *)
(* whether it is there and whether it is over the size limit is kept.      *)
(***************************************************************************)
EXTENDS Naturals, Sequences

(* A WebSocket message from the peer.  `form` is the message type, `kind`  *)
(* what its payload decodes to, `data` whether it carries a payload, `big` *)
(* whether that payload is over max_message_bytes (for a Subscribe of the  *)
(* Rust server: or its method does not parse as a path).                   *)
Inbound == [form : {"binary", "text"},
            kind : {"Subscribe", "Message", "HalfClose", "Reset", "Garbage"},
            data : BOOLEAN, big : BOOLEAN]
           \cup [form : {"close"}]

(* The codec of a connection: pinned by the handshake, or that of the      *)
(* first data message.                                                     *)
CodecNames == {"json", "proto", "infer"}
Lock(codec, m) ==
    IF codec # "infer" THEN codec ELSE IF m.form = "text" THEN "json" ELSE "proto"

(* A binary frame is what it says, but only a Subscribe may come first.    *)
decode_binary(m, opened) ==
    IF m.kind = "Garbage" \/ (m.kind # "Subscribe" /\ ~opened) THEN "Drop" ELSE m.kind

(* The first text frame opens the stream whatever its kind; a later one    *)
(* that is neither a reset nor a message is a half-close.                  *)
decode_text(m, opened) ==
    IF m.kind = "Garbage" THEN "Drop"
    ELSE IF ~opened THEN "Subscribe"
    ELSE IF m.kind \in {"Message", "Reset"} THEN m.kind ELSE "HalfClose"

(* A message of the other codec than the connection's is dropped.          *)
Decode(codec, opened, m) ==
    IF (m.form = "text") # (Lock(codec, m) = "json") THEN "Drop"
    ELSE IF m.form = "text" THEN decode_text(m, opened) ELSE decode_binary(m, opened)

(* The server's frames; closes count as frames.  `t` is the stream that    *)
(* queued the frame, 0 for the connection itself.                          *)
Terminal == {"Trailer", "TrailerOk", "TrailerErr", "TrailerDeadline", "Reset"}
CloseKinds == {"Close1000", "Close1001", "Close4000"}
Kinds == {"Header", "Message"} \cup CloseKinds \cup Terminal
Fr(k, s) == [k |-> k, t |-> s]
IsClose(f) == f.k \in CloseKinds
=============================================================================
