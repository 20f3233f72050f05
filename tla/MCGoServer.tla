----------------------------- MODULE MCGoServer ----------------------------
(* A small instance of GoServer for TLC: a prefix of one byte and a        *)
(* message of one or none, so a block can be out in part.                  *)
EXTENDS GoServer

Base == [kind |-> "proto", route |-> "main", hijacked |-> FALSE, transcoder |-> TRUE,
         timed |-> TRUE, valid |-> TRUE, over |-> FALSE, size |-> 1, reply |-> 1]

AllRequests ==
    {Base, [Base EXCEPT !.reply = 0, !.timed = FALSE, !.hijacked = TRUE],
     [Base EXCEPT !.route = "rest"], [Base EXCEPT !.over = TRUE],
     [Base EXCEPT !.kind = "json"], [Base EXCEPT !.kind = "plain"],
     [Base EXCEPT !.kind = "plain", !.route = "rest", !.timed = FALSE],
     [Base EXCEPT !.kind = "json", !.transcoder = FALSE],
     [Base EXCEPT !.kind = "grpc", !.hijacked = TRUE], [Base EXCEPT !.kind = "ws", !.hijacked = TRUE],
     [Base EXCEPT !.kind = "other"]}
=============================================================================
