---------------------------- MODULE UnaryAnswer ----------------------------
(* What a Fetch surface promises one unary caller, whichever server answers *)
(* and however it is scheduled: how the answer ends says truthfully what    *)
(* became of the RPC, and the status of a +proto answer stands behind a     *)
(* block that has all the bytes it announced.                               *)
(*                                                                          *)
(* Two exceptions are part of it as it stands.  A response that ends        *)
(* without a readable grpc-status (rpc "mute") counts as OK, however much   *)
(* of its message there is.  And a server may leave a message of an OK      *)
(* answer out (`unrendered`), which the Rust server does for JSON answers   *)
(* without bytes and the Go server never does.                              *)

VARIABLES
    rpc,      \* the RPC: never dispatched, running, or how the backend ended it
    unrendered, \* an OK answer to this request would have no message
    expired,  \* the caller's deadline has passed
    body,     \* the message as the caller has it so far
    answer    \* how the answer ended; "open" until it has

vars == <<rpc, unrendered, expired, body, answer>>

Answers == {"open", "local", "relayed", "ok", "error", "unavailable", "internal",
            "deadline", "cut"}
Bodies == {"none", "part", "whole", "empty"}

Init ==
    /\ rpc = "none"
    /\ unrendered \in BOOLEAN
    /\ expired = FALSE
    /\ body = "none"
    /\ answer = "open"

(* What may become of an RPC, and of a message on its way.                 *)
Later(r) ==
    {r} \cup
    (CASE r = "none" -> {"running", "ok", "error", "failed"}
       [] r = "running" -> {"ok", "error", "failed", "mute"}
       [] OTHER -> {})

Longer(b) ==
    {b} \cup
    (CASE b = "none" -> {"part", "whole", "empty"}
       [] b = "part" -> {"whole"}
       [] OTHER -> {})

(* The endings that are true of an RPC r, an expired deadline e and a      *)
(* message sent as far as b; u if the message of an OK answer is left out. *)
Endings(r, u, e, b) ==
    {a \in Answers :
        \/ a = "open"
        \/ a = "local" /\ r = "none" /\ b = "none"
        \/ a = "relayed" /\ r # "none" /\ b = "none"
        \/ a = "ok" /\ r = "ok" /\ b = (IF u THEN "empty" ELSE "whole")
        \/ a = "ok" /\ r = "mute" /\ b \in {"empty", "part", "whole"}
        \/ a = "error" /\ r = "error" /\ b \in {"empty", "whole"}
        \/ a = "unavailable" /\ r = "failed" /\ b = "empty"
        \/ a = "internal" /\ r \in {"ok", "mute"} /\ b = "empty"
        \/ a = "deadline" /\ e /\ (b \in {"empty", "whole"} \/ (r = "mute" /\ b = "part"))
        \/ a = "cut" /\ (r = "failed" \/ e) /\ b \in {"none", "part", "whole"}}

Next ==
    /\ rpc' \in Later(rpc) /\ UNCHANGED unrendered
    /\ expired' \in {expired, TRUE}
    /\ IF answer = "open"
       THEN /\ body' \in Longer(body)
            /\ answer' \in Endings(rpc', unrendered, expired', body')
       ELSE UNCHANGED <<body, answer>>

Spec == Init /\ [][Next]_vars
=============================================================================
