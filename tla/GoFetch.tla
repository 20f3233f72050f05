------------------------------ MODULE GoFetch ------------------------------
(* One request at the Go server: routing (server.go), the unary surfaces    *)
(* (fetch.go) and the dispatch into the backend (dispatch.go).              *)
(*                                                                          *)
(* A call has four goroutines: the handler, the feeder of the request pipe, *)
(* the backend with its response writer, and the deadline's AfterFunc.  An  *)
(* action is what one of them does up to its next wait or its next use of   *)
(* state the others write.  The pipes are unbuffered, so a transfer is one  *)
(* step of both ends.  Bytes are counted, not kept.                         *)
EXTENDS Integers

CONSTANTS
    Requests,       \* the requests a client may make
    AllowImplicit,  \* cfg.AllowImplicitCodec
    LenPrefix,      \* lenPrefix, 4 in the code
    MaxMessage      \* cfg.MaxMessageBytes

Json == {"json", "plain"}

ASSUME GoFetchAssumption ==
    /\ AllowImplicit \in BOOLEAN /\ LenPrefix \in Nat \ {0} /\ MaxMessage \in Nat
    /\ \A r \in Requests :
        /\ r.kind \in Json \cup {"proto", "grpc", "other", "ws"}
        /\ r.route \in {"rest", "main", "unknown"}
        /\ r.hijacked \in BOOLEAN /\ r.transcoder \in BOOLEAN /\ r.timed \in BOOLEAN
        /\ r.valid \in BOOLEAN /\ r.over \in BOOLEAN /\ r.size \in Nat /\ r.reply \in Nat

VARIABLES
    req,       \* the request
    handler,   \* what the handler is at
    feeder,    \* the goroutine that writes the request pipe
    backend,   \* the goroutine that runs backend.ServeHTTP
    timer,     \* the deadline's AfterFunc
    timedOut,  \* the atomic flag it sets
    gone,      \* the client has left: r.Context() is done, writes fail
    closed,    \* call.close() has run: context cancelled, both pipes torn down
    ready,     \* w.ready: the response head is committed
    trailing,  \* w.trailing: the status harvested, "none" before
    eof,       \* the response pipe has been closed by finish
    rpc,       \* how the backend ended the RPC
    resp,      \* bytes of the response read from the pipe
    skip,      \* bytes still to drop: the compression flag
    sent,      \* bytes of the message block written to the caller
    block,     \* a message the handler wrote itself: the empty block, or JSON
    answer     \* how the answer ended

callVars == <<feeder, backend, timer, timedOut, closed, ready, trailing, eof, rpc>>
replyVars == <<resp, skip, sent, block, answer>>
fetchVars == <<req, handler, gone, callVars, replyVars>>

Total == 1 + LenPrefix + req.reply
MinOf(a, b) == IF a < b THEN a ELSE b

FetchTypeOK ==
    /\ req \in Requests
    /\ handler \in {"new", "route", "body", "head", "pipe", "eof", "trailer", "serve",
                    "leaving", "done"}
    /\ feeder \in {"none", "writing", "done"}
    /\ backend \in {"none", "serving", "returned", "harvested", "done"}
    /\ timer \in {"none", "armed", "fired", "over"}
    /\ timedOut \in BOOLEAN /\ gone \in BOOLEAN /\ closed \in BOOLEAN
    /\ ready \in BOOLEAN /\ eof \in BOOLEAN
    /\ trailing \in {"none", "ok", "error", "mute"}
    /\ rpc \in {"none", "running", "ok", "error", "mute"}
    /\ resp \in 0..Total /\ skip \in 0..1 /\ sent \in 0..(Total - 1)
    /\ block \in {"none", "empty", "json"}
    /\ answer \in {"open", "refused", "relayed", "ok", "error", "unavailable", "internal",
                   "deadline", "cut"}

FetchInit ==
    /\ req \in Requests
    /\ handler = "new" /\ feeder = "none" /\ backend = "none" /\ timer = "none"
    /\ timedOut = FALSE /\ gone = FALSE /\ closed = FALSE
    /\ ready = FALSE /\ trailing = "none" /\ eof = FALSE /\ rpc = "none"
    /\ resp = 0 /\ skip = 1 /\ sent = 0 /\ block = "none" /\ answer = "open"

-----------------------------------------------------------------------------
(* The handler, up to the dispatch.                                        *)

(* What the handler writes reaches the caller only while it is there.      *)
Reply(a, b) ==
    /\ handler' = "leaving"
    /\ IF gone THEN UNCHANGED <<block, answer>> ELSE answer' = a /\ block' = b

Refuse == Reply("refused", block) /\ UNCHANGED callVars

(* dispatch, the feeder, and the deadline's timer.                         *)
Dispatch ==
    /\ handler' = "head"
    /\ feeder' = "writing" /\ backend' = "serving" /\ rpc' = "running"
    /\ timer' = IF req.timed THEN "armed" ELSE "none"
    /\ UNCHANGED <<timedOut, closed, ready, trailing, eof, block, answer>>

(* ServeHTTP's routing.  Native gRPC and hijacked sockets are served on    *)
(* the handler's own goroutine.                                            *)
Route ==
    /\ handler = "route"
    /\ CASE req.kind \in {"grpc", "ws"} ->
              /\ handler' = "serve" /\ rpc' = "running"
              /\ UNCHANGED <<feeder, backend, timer, timedOut, closed, ready, trailing, eof,
                             block, answer>>
         [] \/ req.kind = "other"
            \/ req.kind = "proto" /\ req.transcoder /\ req.route = "rest"
            \/ req.kind \in Json /\ ~req.transcoder -> Refuse
         [] OTHER -> handler' = "body" /\ UNCHANGED <<callVars, block, answer>>
    /\ UNCHANGED <<req, gone, resp, skip, sent>>

(* unaryProto has its prefix; unaryJSON has read the body and transcoded   *)
(* it.  Otherwise the read failed, or the request is refused.              *)
Acceptable ==
    IF req.kind = "proto" THEN req.size >= LenPrefix /\ ~req.over
    ELSE /\ req.size <= MaxMessage /\ req.valid
         /\ req.route # "unknown"
         /\ req.route = "main" => req.kind = "json" \/ AllowImplicit

ReadBody ==
    /\ handler = "body"
    /\ \/ Acceptable /\ Dispatch
       \/ Refuse
    /\ UNCHANGED <<req, gone, resp, skip, sent>>

(* The backend that runs on the handler's goroutine returns.               *)
Served ==
    /\ handler = "serve"
    /\ \E s \in {"ok", "error"} : rpc' = s
    /\ Reply("relayed", block)
    /\ UNCHANGED <<req, gone, feeder, backend, timer, timedOut, closed, ready, trailing, eof,
                   resp, skip, sent>>

-----------------------------------------------------------------------------
(* The other goroutines of the call.                                       *)

(* The feeder is done: the backend has read it all, or a pipe is closed.   *)
FeederEnds ==
    /\ feeder = "writing"
    /\ backend = "serving" \/ closed
    /\ feeder' = "done"
    /\ UNCHANGED <<req, handler, gone, backend, timer, timedOut, closed, ready, trailing, eof,
                   rpc, replyVars>>

(* The client disconnects.  External.                                      *)
ClientLeaves ==
    /\ handler \in {"head", "pipe", "eof", "trailer", "serve"} /\ ~gone
    /\ gone' = TRUE
    /\ UNCHANGED <<req, handler, callVars, replyVars>>

(* commit, by the first Write or Flush.                                    *)
Commit ==
    /\ backend = "serving" /\ ~ready
    /\ ready' = TRUE
    /\ UNCHANGED <<req, handler, gone, feeder, backend, timer, timedOut, closed, trailing, eof,
                   rpc, replyVars>>

(* backend.ServeHTTP returns: OK after its one message, an error before    *)
(* or after it, or at any point when it finds its call cancelled; or       *)
(* without a readable grpc-status, anywhere.                               *)
BackendReturns(s) ==
    /\ backend = "serving"
    /\ \/ resp = Total
       \/ s = "error" /\ (resp = 0 \/ closed \/ gone)
       \/ s = "mute"
    /\ backend' = "returned"
    /\ rpc' = s
    /\ UNCHANGED <<req, handler, gone, feeder, timer, timedOut, closed, ready, trailing, eof,
                   replyVars>>

(* Mutation: the trailers are not harvested.                               *)
HarvestNothing ==
    /\ backend = "returned"
    /\ backend' = "harvested"
    /\ ready' = TRUE /\ eof' = TRUE
    /\ UNCHANGED <<req, handler, gone, feeder, timer, timedOut, closed, trailing, rpc, replyVars>>

(* finish: the head, then the trailers, then the end of the body.          *)
Harvest ==
    /\ backend = "returned"
    /\ backend' = "harvested"
    /\ ready' = TRUE /\ trailing' = rpc
    /\ UNCHANGED <<req, handler, gone, feeder, timer, timedOut, closed, eof, rpc, replyVars>>

CloseBody ==
    /\ backend = "harvested"
    /\ backend' = "done"
    /\ eof' = TRUE
    /\ UNCHANGED <<req, handler, gone, feeder, timer, timedOut, closed, ready, trailing, rpc,
                   replyVars>>

(* The deadline's AfterFunc: first the flag, then close.                   *)
TimerFires ==
    /\ timer = "armed"
    /\ timer' = "fired" /\ timedOut' = TRUE
    /\ UNCHANGED <<req, handler, gone, feeder, backend, closed, ready, trailing, eof, rpc,
                   replyVars>>

TimerCloses ==
    /\ timer = "fired"
    /\ timer' = "over" /\ closed' = TRUE
    /\ UNCHANGED <<req, handler, gone, feeder, backend, timedOut, ready, trailing, eof, rpc, replyVars>>

-----------------------------------------------------------------------------
(* The handler, after the dispatch.                                        *)

(* awaitHeaders: the head is there, or the request's context is done.      *)
AwaitHeaders ==
    /\ handler = "head"
    /\ \/ ready /\ IF req.kind = "proto" /\ timedOut
                   THEN Reply("deadline", "empty")
                   ELSE handler' = "pipe" /\ UNCHANGED <<block, answer>>
       \/ gone /\ IF req.kind = "proto"
                  THEN Reply("deadline", "empty")
                  ELSE handler' = "pipe" /\ UNCHANGED <<block, answer>>
    /\ UNCHANGED <<req, gone, callVars, resp, skip, sent>>

(* A Write of the backend meets a Read of the handler: n bytes.            *)
Transfer(n) ==
    /\ handler = "pipe" /\ backend = "serving" /\ ready /\ ~closed
    /\ resp + n <= Total
    /\ resp' = resp + n
    /\ IF req.kind # "proto" THEN UNCHANGED <<handler, skip, sent>>
       ELSE /\ skip' = skip - MinOf(skip, n)
            /\ IF gone /\ n > skip
               THEN handler' = "leaving" /\ UNCHANGED sent
               ELSE sent' = sent + n - MinOf(skip, n) /\ UNCHANGED handler
    /\ UNCHANGED <<req, gone, callVars, block, answer>>

(* The Read fails: the backend's body has ended, or the call is closed.    *)
ReadEnds ==
    /\ handler = "pipe" /\ (eof \/ closed)
    /\ handler' = "eof"
    /\ UNCHANGED <<req, gone, callVars, replyVars>>

(* unaryProto after the loop: break off, or see to it that a block is out. *)
AfterBody ==
    /\ handler = "eof" /\ req.kind = "proto"
    /\ IF timedOut /\ sent > 0 THEN Reply("cut", block)
       ELSE /\ handler' = IF gone /\ sent = 0 THEN "leaving" ELSE "trailer"
            /\ block' = IF sent = 0 /\ ~gone THEN "empty" ELSE block
            /\ UNCHANGED answer
    /\ UNCHANGED <<req, gone, callVars, resp, skip, sent>>

(* readStatus: no status is code 0.                                        *)
readStatus == IF trailing \in {"none", "mute"} THEN "ok" ELSE trailing

WriteTrailer ==
    /\ handler = "trailer"
    /\ Reply(IF timedOut THEN "deadline" ELSE readStatus, block)
    /\ UNCHANGED <<req, gone, callVars, resp, skip, sent>>

(* jsonUpstream after the body.                                            *)
AnswerJson ==
    /\ handler = "eof" /\ req.kind \in Json
    /\ CASE timedOut \/ ~ready -> Reply("deadline", "empty")
         [] ~timedOut /\ ready /\ closed -> Reply("unavailable", "empty")
         [] ~timedOut /\ ready /\ ~closed /\ readStatus = "ok" ->
              IF resp = Total THEN Reply("ok", "json") \/ Reply("internal", "empty")
              ELSE Reply("ok", "empty")
         [] OTHER -> Reply("error", "empty")
    /\ UNCHANGED <<req, gone, callVars, resp, skip, sent>>

(* Mutation: call.close() is not deferred.                                 *)
LeaveWithoutClose ==
    /\ handler = "leaving"
    /\ handler' = "done"
    /\ timer' = IF timer = "armed" THEN "over" ELSE timer
    /\ UNCHANGED <<req, gone, feeder, backend, timedOut, closed, ready, trailing, eof, rpc,
                   replyVars>>

(* The deferred calls, in the order they run: the timer, then the call.    *)
Leave ==
    /\ handler = "leaving"
    /\ handler' = "done"
    /\ timer' = IF timer = "armed" THEN "over" ELSE timer
    /\ closed' = (closed \/ backend # "none")
    /\ UNCHANGED <<req, gone, feeder, backend, timedOut, ready, trailing, eof, rpc, replyVars>>
=============================================================================
