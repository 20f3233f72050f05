------------------------------ MODULE H2tsCall ------------------------------
(* One gRPC call through the h2ts tunnel, from the Rust client's API        *)
(* (client.rs, tonic_service.rs) to the in-process server behind the        *)
(* tunnel (h2ts.rs).  Both bodies move in chunks of any size; the handler,  *)
(* or the upstream in its place, is external and may do anything gRPC lets  *)
(* a server do, and break off besides.                                      *)
EXTENDS GrpcFraming

CONSTANTS
    Scripts,     \* the calls: how made, what is asked, what is replied
    MaxRequest,  \* the server's max_message_bytes
    MaxReply,    \* CallOptions.max_message_bytes
    MaxU64       \* u64::MAX

Kinds == {"unary", "stream", "tonic"}
NoTimeout == [n |-> 0, unit |-> "none"]

ASSUME CallAssumption ==
    /\ MaxRequest \in Nat /\ MaxReply \in Nat /\ MaxU64 \in Nat
    /\ \A s \in Scripts :
        s.kind \in Kinds /\ s.endless \in BOOLEAN /\ s.timeout.n \in Nat

VARIABLES
    call,     \* the script of this behaviour
    arrived,  \* bytes of the request body the server's limiter has looked at
    passed,   \* bytes of it that it let through to the handler
    limit,    \* GrpcSizeLimit
    upload,   \* the request body: open, or half-closed
    rpc,      \* the handler
    head,     \* the response's headers: 200, trailers-only, not 200
    avail,    \* bytes of the response body the server has written
    link,     \* the HTTP/2 stream: up, reset by the server, or its tunnel lost
    pc,       \* what the client waits for
    got,      \* bytes of the response body it has read
    buffer,   \* Deframer.buffer
    ready,    \* Streaming.ready
    out,      \* the messages its caller has
    answer,   \* how the call ended for its caller
    expired   \* the call's deadline has passed

upVars == <<arrived, passed, limit, upload>>
serverVars == <<rpc, head, avail, link>>
clientVars == <<pc, got, buffer, ready, out, answer>>
vars == <<call, upVars, serverVars, clientVars, expired>>

Request == Wire(call.asks)
Response == Wire(call.replies)
Heard == WholeIn(call.asks, passed)

(* The grpc-timeout header: Client writes whole milliseconds, and never 0; *)
(* tonic writes its own.                                                   *)
options_millis(t) ==
    LET millis == CASE t.unit = "S" -> t.n * 1000 [] t.unit = "m" -> t.n [] t.unit = "u" -> t.n \div 1000
    IN  [n |-> IF millis = 0 THEN 1 ELSE millis, unit |-> "m"]
Header ==
    IF call.timeout = NoTimeout \/ call.kind = "tonic" THEN call.timeout
    ELSE options_millis(call.timeout)

(* Whether a header becomes a timer, at the server and in tonic's send: a  *)
(* unit it knows, and digits and seconds that fit 64 bits.                 *)
parse_grpc_timeout(h) ==
    CASE h.unit = "H" -> h.n * 3600 <= MaxU64
      [] h.unit = "M" -> h.n * 60 <= MaxU64
      [] h.unit \in {"S", "m", "u", "n"} -> h.n <= MaxU64
      [] OTHER -> FALSE

(* The client's own timer runs.                                            *)
Timed == IF call.kind = "tonic" THEN parse_grpc_timeout(Header) ELSE call.timeout # NoTimeout

Init ==
    /\ call \in Scripts
    /\ arrived = 0 /\ passed = 0 /\ limit = Limiter /\ upload = "open"
    /\ rpc = "none" /\ head = "none" /\ avail = 0 /\ link = "up"
    /\ pc = "open" /\ got = 0 /\ buffer = <<>> /\ ready = <<>> /\ out = <<>>
    /\ answer = "none" /\ expired = FALSE

-----------------------------------------------------------------------------
(* The request: client to server.                                          *)

(* The headers reach the service of h2ts::serve, which wraps the body.     *)
Serve ==
    /\ rpc = "none" /\ link = "up" /\ pc = "open"
    /\ rpc' = "running"
    /\ UNCHANGED <<call, upVars, head, avail, link, clientVars, expired>>

Uploading == rpc = "running" /\ link = "up" /\ upload = "open" /\ pc # "done"

(* Mutation: the limiter forgets where it was between two chunks.          *)
ArriveAfresh(n) ==
    /\ Uploading /\ ~limit.bad
    /\ arrived + n <= Len(Request)
    /\ arrived' = arrived + n
    /\ limit' = inspect(Limiter, SubSeq(Request, arrived + 1, arrived + n), MaxRequest)
    /\ passed' = IF limit'.bad THEN passed ELSE arrived'
    /\ UNCHANGED <<call, upload, serverVars, clientVars, expired>>

(* GrpcSizeLimit.poll_frame: a chunk is passed on, or fails the body.      *)
Arrive(n) ==
    /\ Uploading /\ ~limit.bad
    /\ arrived + n <= Len(Request)
    /\ arrived' = arrived + n
    /\ limit' = inspect(limit, SubSeq(Request, arrived + 1, arrived + n), MaxRequest)
    /\ passed' = IF limit'.bad THEN passed ELSE arrived'
    /\ UNCHANGED <<call, upload, serverVars, clientVars, expired>>

(* The body ends; tonic's may fail first, and request_chunks then ends it  *)
(* where it is.                                                            *)
HalfClose ==
    /\ Uploading
    /\ arrived = Len(Request) \/ call.kind = "tonic"
    /\ upload' = "ended"
    /\ UNCHANGED <<call, arrived, passed, limit, serverVars, clientVars, expired>>

-----------------------------------------------------------------------------
(* The handler.  External: only a method that takes one message is known   *)
(* to wait for it.                                                         *)

Asked == Len(call.asks) = 1 => Heard # {}

Opens ==
    /\ rpc = "running" /\ link = "up" /\ head = "none" /\ Asked
    /\ head' = "200"
    /\ UNCHANGED <<call, upVars, rpc, avail, link, clientVars, expired>>

Write ==
    /\ rpc = "running" /\ link = "up" /\ head = "200"
    /\ \E k \in 1..Len(call.replies) :
        EndOf(call.replies, k - 1) = avail /\ avail' = EndOf(call.replies, k)
    /\ UNCHANGED <<call, upVars, rpc, head, link, clientVars, expired>>

(* An endless reply starts over, and the count of what was read with it.   *)
WriteAgain ==
    /\ rpc = "running" /\ link = "up" /\ call.endless
    /\ pc = "body" /\ got = Len(Response) /\ ready = <<>>
    /\ avail' = 0 /\ got' = 0 /\ out' = <<>>
    /\ UNCHANGED <<call, upVars, rpc, head, link, pc, buffer, ready, answer, expired>>

(* A call that ends before it has opened is answered by trailers only.     *)
Finish(s) ==
    /\ rpc = "running" /\ link = "up"
    /\ s = "ok" => Asked /\ avail = Len(Response) /\ ~call.endless
    /\ rpc' = s
    /\ head' = IF head = "none" THEN "only" ELSE head
    /\ UNCHANGED <<call, upVars, avail, link, clientVars, expired>>

(* What an upstream or a network may do besides: break the body off without *)
(* trailers ("short"), with trailers that say OK ("cut"), say nothing       *)
(* ("mute") or nothing one can read ("garbled"), answer other than 200,     *)
(* reset the stream, lose the tunnel.                                       *)
BreaksOff(s) ==
    /\ rpc = "running" /\ link = "up" /\ head = "200"
    /\ rpc' = s /\ avail' \in got..avail
    /\ UNCHANGED <<call, upVars, head, link, clientVars, expired>>

NotOk ==
    /\ rpc = "running" /\ link = "up" /\ head = "none"
    /\ rpc' = "gone" /\ head' = "bad"
    /\ UNCHANGED <<call, upVars, avail, link, clientVars, expired>>

Reset ==
    /\ rpc = "running" /\ link = "up"
    /\ rpc' = "gone" /\ link' = "reset"
    /\ UNCHANGED <<call, upVars, head, avail, clientVars, expired>>

TunnelLost ==
    /\ link = "up" /\ link' = "lost"
    /\ UNCHANGED <<call, upVars, rpc, head, avail, clientVars, expired>>

(* The timeout of h2ts::serve spans the response's head and no more.       *)
ServerDeadline ==
    /\ parse_grpc_timeout(Header) /\ rpc = "running" /\ link = "up" /\ head = "none"
    /\ rpc' = "deadline" /\ head' = "only" /\ expired' = TRUE
    /\ UNCHANGED <<call, upVars, avail, link, clientVars>>

(* Mutation: only the loss of the tunnel stops a handler.                  *)
CancelledByLoss ==
    /\ rpc = "running" /\ link = "lost"
    /\ rpc' = "gone"
    /\ UNCHANGED <<call, upVars, head, avail, link, clientVars, expired>>

(* Letting go of a call resets its stream, and a lost tunnel ends its      *)
(* connection: either way hyper drops the handler.                         *)
Cancelled ==
    /\ rpc = "running" /\ (pc = "done" \/ link = "lost")
    /\ rpc' = "gone"
    /\ UNCHANGED <<call, upVars, head, avail, link, clientVars, expired>>

-----------------------------------------------------------------------------
(* The client.                                                             *)

(* A unary call is let go of as it returns, a stream when its caller does. *)
End(s) ==
    /\ answer' = s
    /\ pc' = IF call.kind = "unary" THEN "done" ELSE "over"

(* The Status of the Deframer's error.                                     *)
Refusal(err) == IF err = "unimplemented" THEN "unimplemented" ELSE "exhausted"

(* Status::from_headers, of trailers or of trailers-only headers.          *)
from_headers(s) == CASE s = "cut" -> "ok" [] s = "garbled" -> "unknown" [] OTHER -> s

(* Streaming::status: trailers without a status are a fault of the server. *)
TrailersStatus == IF rpc \in {"short", "mute"} THEN "internal" ELSE from_headers(rpc)

(* Mutation: trailers-only is read as the success its HTTP status says.    *)
ReadHeadAs200 ==
    /\ call.kind # "tonic" /\ pc = "open" /\ head \in {"200", "only", "bad"}
    /\ CASE head = "bad" -> End("unavailable")
         [] head = "only" -> End("ok")
         [] head = "200" -> pc' = "body" /\ UNCHANGED answer
    /\ UNCHANGED <<call, upVars, serverVars, got, buffer, ready, out, expired>>

(* Client::request, on the head of the response: an OK without a message   *)
(* is a fault.                                                             *)
ReadHead ==
    /\ call.kind # "tonic" /\ pc = "open" /\ head \in {"200", "only", "bad"}
    /\ CASE head = "bad" -> End("unavailable")
         [] head = "only" -> End(IF from_headers(rpc) = "ok" THEN "internal" ELSE from_headers(rpc))
         [] head = "200" -> pc' = "body" /\ UNCHANGED answer
    /\ UNCHANGED <<call, upVars, serverVars, got, buffer, ready, out, expired>>

(* A chunk of a unary call's body is collected.                            *)
Collect(n) ==
    /\ call.kind = "unary" /\ pc = "body" /\ got + n <= avail
    /\ got' = got + n
    /\ buffer' = buffer \o SubSeq(Response, got + 1, got + n)
    /\ UNCHANGED <<call, upVars, serverVars, pc, ready, out, answer, expired>>

(* A chunk of a stream's body is deframed.                                 *)
ReadChunk(n) ==
    /\ call.kind = "stream" /\ pc = "body" /\ ready = <<>> /\ got + n <= avail
    /\ got' = got + n
    /\ LET res == push(buffer, SubSeq(Response, got + 1, got + n), MaxReply)
       IN  /\ buffer' = res.buffer /\ ready' = res.out
           /\ IF res.err = "none" THEN UNCHANGED <<pc, answer>> ELSE End(Refusal(res.err))
    /\ UNCHANGED <<call, upVars, serverVars, out, expired>>

Deliver ==
    /\ pc = "body" /\ ready # <<>>
    /\ out' = Append(out, Head(ready)) /\ ready' = Tail(ready)
    /\ UNCHANGED <<call, upVars, serverVars, pc, got, buffer, answer, expired>>

BodyOver == rpc \in {"ok", "error", "short", "cut", "mute", "garbled"} /\ got = avail

(* single_response_inner, its body collected: deframe it all, ask whether  *)
(* it was cut, then for the status, and only then for a message.           *)
Return ==
    /\ call.kind = "unary" /\ pc = "body" /\ BodyOver
    /\ LET res == push(<<>>, buffer, MaxReply)
           status == IF res.err # "none" THEN Refusal(res.err)
                     ELSE IF res.buffer # <<>> THEN "internal"
                     ELSE IF TrailersStatus = "ok" /\ res.out = <<>> THEN "internal"
                     ELSE TrailersStatus
       IN  End(status) /\ out' = IF status = "ok" THEN <<Head(res.out)>> ELSE out
    /\ UNCHANGED <<call, upVars, serverVars, got, buffer, ready, expired>>

(* Mutation: the bytes of an unfinished message are not asked about.       *)
ReadEndUnchecked ==
    /\ call.kind = "stream" /\ pc = "body" /\ ready = <<>> /\ BodyOver
    /\ End(TrailersStatus)
    /\ UNCHANGED <<call, upVars, serverVars, got, buffer, ready, out, expired>>

(* A stream's body is over: truncated, or as its trailers say.             *)
ReadEnd ==
    /\ call.kind = "stream" /\ pc = "body" /\ ready = <<>> /\ BodyOver
    /\ End(IF buffer # <<>> THEN "internal" ELSE TrailersStatus)
    /\ UNCHANGED <<call, upVars, serverVars, got, buffer, ready, out, expired>>

(* The stream or its tunnel fails under the request or the body.           *)
StreamFails ==
    /\ pc \in {"open", "body"} /\ ready = <<>> /\ link # "up"
    /\ End("unavailable")
    /\ UNCHANGED <<call, upVars, serverVars, got, buffer, ready, out, expired>>

(* select polls the call first and the timer only if the call is pending.  *)
Pending ==
    /\ link = "up" /\ ready = <<>>
    /\ \/ pc = "open" /\ head = "none"
       \/ pc = "body" /\ got = avail /\ ~BodyOver

(* Mutation: the timer bounds the opening of the stream only.              *)
DeadlineOnOpen ==
    /\ call.kind # "tonic" /\ Timed /\ pc = "open" /\ Pending
    /\ End("deadline") /\ expired' = TRUE
    /\ UNCHANGED <<call, upVars, serverVars, got, buffer, ready, out>>

(* One timer for a unary call, and one for a stream's opening and messages. *)
Deadline ==
    /\ call.kind # "tonic" /\ Timed /\ Pending
    /\ End("deadline") /\ expired' = TRUE
    /\ UNCHANGED <<call, upVars, serverVars, got, buffer, ready, out>>

(* The tonic adapter refuses metadata that is not ASCII before it sends.   *)
TonicRefuses ==
    /\ call.kind = "tonic" /\ pc = "open" /\ rpc = "none"
    /\ End("internal")
    /\ UNCHANGED <<call, upVars, serverVars, got, buffer, ready, out, expired>>

(* Its send hands the head on as it is, whatever its HTTP status; tonic    *)
(* reads a grpc-status there, or turns to the body.                        *)
TonicHead ==
    /\ call.kind = "tonic" /\ pc = "open" /\ head \in {"200", "only", "bad"}
    /\ IF head = "only" THEN End(rpc) ELSE pc' = "body" /\ UNCHANGED answer
    /\ UNCHANGED <<call, upVars, serverVars, got, buffer, ready, out, expired>>

(* ResponseBody::poll_frame: a chunk as it comes, then the trailers.       *)
TonicFrame(n) ==
    /\ call.kind = "tonic" /\ pc = "body" /\ got + n <= avail
    /\ got' = got + n
    /\ UNCHANGED <<call, upVars, serverVars, pc, buffer, ready, out, answer, expired>>

(* Between two messages of the reply.                                      *)
AtMessageEnd(n) == n \in {EndOf(call.replies, k) : k \in 0..Len(call.replies)}

(* What tonic, which is external, makes of an end: of trailers the status  *)
(* in them; of 200 without one a clean end, unless the body stopped inside *)
(* a message; and of another HTTP status the code it maps that to, or a    *)
(* fault of decoding its body.                                             *)
TonicStatus ==
    CASE head = "bad" -> {"by_http_status", "internal"}
      [] head # "bad" /\ rpc = "short" -> {IF AtMessageEnd(got) THEN "ok" ELSE "internal"}
      [] head # "bad" /\ rpc = "mute" -> {"ok"}
      [] OTHER -> {from_headers(rpc)}

(* ResponseBody::poll_frame at the end of the body: the trailers if there  *)
(* are any, and the bare end if not.                                       *)
TonicEnd ==
    /\ call.kind = "tonic" /\ pc = "body" /\ (BodyOver \/ head = "bad")
    /\ \E s \in TonicStatus : End(s)
    /\ UNCHANGED <<call, upVars, serverVars, got, buffer, ready, out, expired>>

(* Over the body the adapter asks the timer first.                         *)
TonicDeadline ==
    /\ call.kind = "tonic" /\ Timed /\ (pc = "body" \/ Pending)
    /\ End("deadline") /\ expired' = TRUE
    /\ UNCHANGED <<call, upVars, serverVars, got, buffer, ready, out>>

(* The caller drops the call, over or not.                                 *)
LetGo ==
    /\ pc # "done" /\ pc' = "done"
    /\ answer' = IF answer = "none" THEN "dropped" ELSE answer
    /\ UNCHANGED <<call, upVars, serverVars, got, buffer, ready, out, expired>>

Read ==
    \/ ReadHead \/ Deliver \/ Return \/ ReadEnd
    \/ TonicRefuses \/ TonicHead \/ TonicEnd
    \/ \E n \in 1..Len(Response) : Collect(n) \/ ReadChunk(n) \/ TonicFrame(n)

TimerEnds == Deadline \/ TonicDeadline

Next ==
    \/ Serve \/ (\E n \in 1..Len(Request) : Arrive(n)) \/ HalfClose
    \/ Opens \/ Write \/ WriteAgain \/ ServerDeadline \/ Cancelled
    \/ \E s \in {"ok", "error"} : Finish(s)
    \/ \E s \in {"short", "cut", "mute", "garbled"} : BreaksOff(s)
    \/ NotOk \/ Reset \/ TunnelLost
    \/ Read \/ StreamFails \/ TimerEnds \/ LetGo

Spec == Init /\ [][Next]_vars

(* The client's executor polls the call, its timer runs out, a caller lets *)
(* go of a call that is over, and hyper polls a reset stream's connection. *)
(* Nothing is asked of the server or the network.                          *)
FairSpec ==
    /\ Spec
    /\ WF_vars(Read) /\ WF_vars(StreamFails) /\ WF_vars(TimerEnds)
    /\ WF_vars(pc = "over" /\ LetGo) /\ WF_vars(Cancelled)

-----------------------------------------------------------------------------
(* Properties.                                                             *)

(* A response of 200 that ended without saying how.                        *)
EndedSilently == rpc = "mute" \/ (rpc = "short" /\ AtMessageEnd(got))

(* The client tells its caller only what happened: OK means the server     *)
(* ended the call OK, or sent such trailers, and every byte it wrote was   *)
(* read; an error or a deadline is one the server or the timer raised; and *)
(* Unavailable means the stream, its tunnel or its HTTP status failed.     *)
(* One exception, for a tonic stub only: the adapter passes a body without *)
(* a grpc-status on as it is, and such a call is OK to its caller too.     *)
StatusIsTrue ==
    /\ answer = "ok" =>
         /\ got = avail
         /\ rpc \in {"ok", "cut"} \/ (call.kind = "tonic" /\ EndedSilently)
    /\ answer = "error" => rpc = "error"
    /\ answer = "deadline" => expired
    /\ answer = "unavailable" => link # "up" \/ (head = "bad" /\ call.kind # "tonic")
    /\ answer = "by_http_status" => head = "bad" /\ call.kind = "tonic"

Bodies(ks) == [k \in ks |-> Payload(call.replies[k])]
RefusedIn(n) ==
    {k \in HeaderIn(call.replies, n) : call.replies[k].flag # 0 \/ call.replies[k].size > MaxReply}

(* However the body is cut into chunks, Streaming hands on exactly the     *)
(* messages that are whole in the bytes read, in order, and holds back     *)
(* exactly the rest; a compressed or oversize message ends the call as     *)
(* soon as its header has been read, and nothing else is refused; and a    *)
(* call that ends OK has delivered whole messages only: all that were      *)
(* sent, or the first for a unary call.                                    *)
DeliveryIsExact ==
    LET whole == WholeIn(call.replies, got)
        refused == answer \in {"unimplemented", "exhausted"}
    IN  /\ refused => RefusedIn(got) # {}
        /\ call.kind = "stream" /\ RefusedIn(got) # {} => answer \notin {"none", "ok"}
        /\ call.kind = "stream" /\ ~refused =>
             /\ out \o ready = Bodies(whole)
             /\ got = EndOf(call.replies, Len(out \o ready)) + Len(buffer)
        /\ call.kind = "unary" /\ answer = "ok" => out = Bodies({1}) /\ RefusedIn(got) = {}
        /\ call.kind # "tonic" /\ answer = "ok" => AtMessageEnd(got)

(* However the request is cut into chunks, GrpcSizeLimit fails the body in *)
(* the chunk that completes the first oversize header, and the handler     *)
(* never hears a message past the limit.                                   *)
LimitIsExact ==
    LET oversize(n) == {k \in HeaderIn(call.asks, n) : call.asks[k].size > MaxRequest}
    IN  /\ limit.bad <=> oversize(arrived) # {}
        /\ oversize(passed) = {}
        /\ ~limit.bad => passed = arrived

(* A call with a timeout ends, however the server stalls: through tonic    *)
(* always, through Client unless there is always something to read, since  *)
(* select prefers the body to the timer.                                   *)
TimedCallEnds ==
    \/ Timed ~> answer # "none"
    \/ call.kind # "tonic" /\ []<><<Read>>_vars

(* The handler of a call that is over for its client does not run on.      *)
HandlerStops == answer # "none" ~> rpc # "running"
=============================================================================
