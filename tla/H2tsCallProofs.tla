--------------------------- MODULE H2tsCallProofs ---------------------------
(* The status a call through the tunnel ends with is true, for every set of *)
(* calls and every pair of limits.  What the two parsers compute is left to *)
(* TLC: only the names of the Deframer's errors matter here.                *)
EXTENDS H2tsCall, TLAPS

(* What StatusIsTrue needs to be inductive: a call with an answer reads no  *)
(* more; before the head nothing is written or read; a trailers-only head   *)
(* comes with the end of the call; and the server's deadline is the call's. *)
IInv ==
    /\ StatusIsTrue
    /\ answer = "none" \/ pc \in {"over", "done"}
    /\ pc = "open" => got = 0
    /\ head = "none" => avail = 0
    /\ head = "only" => avail = 0 /\ rpc \in {"ok", "error", "deadline"}
    /\ rpc = "deadline" => expired

(* Once the body is over its trailers say ok, error or nothing of use.      *)
LEMMA TrailersCases ==
    ASSUME BodyOver
    PROVE  /\ TrailersStatus \in {"ok", "error", "internal", "unknown"}
           /\ TrailersStatus = "ok" => rpc \in {"ok", "cut"}
           /\ TrailersStatus = "error" => rpc = "error"
BY DEF BodyOver, TrailersStatus, from_headers

(* The client leaves the server's side alone, and ends a call by naming it. *)
LEMMA EndKeeps ==
    ASSUME IInv, NEW s, End(s), call' = call, pc \in {"open", "body"}, serverVars' = serverVars,
           got' = got, expired' = expired \/ expired' = TRUE,
           s = "ok" => /\ got = avail
                       /\ rpc \in {"ok", "cut"} \/ (call.kind = "tonic" /\ EndedSilently),
           s = "error" => rpc = "error",
           s = "deadline" => expired',
           s = "unavailable" => link # "up" \/ (head = "bad" /\ call.kind # "tonic"),
           s = "by_http_status" => head = "bad" /\ call.kind = "tonic"
    PROVE  IInv'
<1>1. answer' = s /\ pc' \in {"over", "done"}
    BY DEF End
<1>2. rpc' = rpc /\ head' = head /\ avail' = avail /\ link' = link
    BY DEF serverVars
<1>3. expired => expired'
    OBVIOUS
<1>4. EndedSilently' = EndedSilently
    BY <1>2 DEF EndedSilently, AtMessageEnd
<1> QED BY <1>1, <1>2, <1>3, <1>4 DEF IInv, StatusIsTrue

(* A step of the server: the client's view of an ended call still holds.    *)
LEMMA ServerKeeps ==
    ASSUME IInv, clientVars' = clientVars, call' = call, expired => expired',
           head' = head \/ head = "none", link' = link \/ link = "up",
           rpc \in {"none", "running"} \/ (rpc' = rpc /\ avail' = avail),
           head' = "none" => avail' = 0,
           head' = "only" => avail' = 0 /\ rpc' \in {"ok", "error", "deadline"},
           rpc' = "deadline" => expired'
    PROVE  IInv'
<1>1. pc' = pc /\ got' = got /\ answer' = answer
    BY DEF clientVars
<1>2. EndedSilently => EndedSilently'
    BY <1>1 DEF EndedSilently, AtMessageEnd
<1>3. answer = "ok" => rpc' = rpc /\ avail' = avail
    BY DEF IInv, StatusIsTrue, EndedSilently
<1>4. answer = "error" => rpc' = rpc
    BY DEF IInv, StatusIsTrue
<1>5. StatusIsTrue'
    BY <1>1, <1>2, <1>3, <1>4 DEF IInv, StatusIsTrue
<1> QED BY <1>1, <1>5 DEF IInv

LEMMA InitEstablishes == Init => IInv
BY DEF Init, IInv, StatusIsTrue

LEMMA ServerStep ==
    ASSUME IInv,
           \/ Serve \/ (\E n \in 1..Len(Request) : Arrive(n)) \/ HalfClose
           \/ Opens \/ Write \/ ServerDeadline \/ Cancelled
           \/ \E s \in {"ok", "error"} : Finish(s)
           \/ \E s \in {"short", "cut", "mute", "garbled"} : BreaksOff(s)
           \/ NotOk \/ Reset \/ TunnelLost
    PROVE  IInv'
<1>1. CASE Serve
    BY <1>1, ServerKeeps DEF Serve, IInv
<1>2. CASE \E n \in 1..Len(Request) : Arrive(n)
    BY <1>2, ServerKeeps DEF Arrive, IInv, serverVars
<1>3. CASE HalfClose
    BY <1>3, ServerKeeps DEF HalfClose, IInv, serverVars
<1>4. CASE Opens
    BY <1>4, ServerKeeps DEF Opens, IInv
<1>5. CASE Write
    BY <1>5, ServerKeeps DEF Write, IInv
<1>6. CASE ServerDeadline
    BY <1>6, ServerKeeps DEF ServerDeadline, IInv
<1>7. CASE Cancelled
    BY <1>7, ServerKeeps DEF Cancelled, IInv
<1>8. CASE \E s \in {"ok", "error"} : Finish(s)
    BY <1>8, ServerKeeps DEF Finish, IInv
<1>9. CASE \E s \in {"short", "cut", "mute", "garbled"} : BreaksOff(s)
    BY <1>9, ServerKeeps DEF BreaksOff, IInv
<1>10. CASE NotOk
    BY <1>10, ServerKeeps DEF NotOk, IInv
<1>11. CASE Reset
    BY <1>11, ServerKeeps DEF Reset, IInv
<1>12. CASE TunnelLost
    BY <1>12, ServerKeeps DEF TunnelLost, IInv
<1> QED BY <1>1, <1>2, <1>3, <1>4, <1>5, <1>6, <1>7, <1>8, <1>9, <1>10, <1>11, <1>12

(* What Return tells the caller, as one expression.                         *)
LEMMA ReturnStatus ==
    ASSUME Return
    PROVE  \E s \in {TrailersStatus, "internal", "unimplemented", "exhausted"} : End(s)
<1> DEFINE res == push(<<>>, buffer, MaxReply)
           status == IF res.err # "none" THEN Refusal(res.err)
                     ELSE IF res.buffer # <<>> THEN "internal"
                     ELSE IF TrailersStatus = "ok" /\ res.out = <<>> THEN "internal"
                     ELSE TrailersStatus
<1>1. End(status)
    BY DEF Return
<1>2. Refusal(res.err) \in {"unimplemented", "exhausted"}
    BY DEF Refusal
<1>3. status \in {TrailersStatus, "internal", "unimplemented", "exhausted"}
    BY <1>2
<1> QED BY <1>1, <1>3

(* The head of a response: an end the server gave, or the body next.        *)
LEMMA HeadStep ==
    ASSUME IInv, pc = "open", head \in {"200", "only", "bad"},
           call' = call, serverVars' = serverVars, got' = got, expired' = expired,
           \/ head = "bad" /\ call.kind # "tonic" /\ End("unavailable")
           \/ head = "only" /\ \E s \in {"internal", rpc} : End(s)
           \/ pc' = "body" /\ answer' = answer
    PROVE  IInv'
<1>1. CASE head = "bad" /\ call.kind # "tonic" /\ End("unavailable")
    BY <1>1, EndKeeps
<1>2. CASE head = "only" /\ \E s \in {"internal", rpc} : End(s)
    <2>1. PICK s \in {"internal", rpc} : End(s)
        BY <1>2
    <2>2. got = 0 /\ avail = 0 /\ rpc \in {"ok", "error", "deadline"}
        BY <1>2 DEF IInv
    <2>3. rpc = "deadline" => expired
        BY DEF IInv
    <2> QED BY <2>1, <2>2, <2>3, EndKeeps
<1>3. CASE pc' = "body" /\ answer' = answer
    BY <1>3 DEF IInv, StatusIsTrue, serverVars, EndedSilently, AtMessageEnd
<1> QED BY <1>1, <1>2, <1>3

(* The body is over, and a step ends the call with its status or a fault.   *)
LEMMA OverStep ==
    ASSUME IInv, pc = "body", BodyOver, call' = call, serverVars' = serverVars,
           got' = got, expired' = expired,
           NEW s \in {TrailersStatus, "internal", "unimplemented", "exhausted"}, End(s)
    PROVE  IInv'
<1>1. got = avail
    BY DEF BodyOver
<1> QED BY <1>1, TrailersCases, EndKeeps

(* The client's own steps.                                                  *)
LEMMA ClientStep ==
    ASSUME IInv, WriteAgain \/ Read \/ StreamFails \/ TimerEnds \/ LetGo
    PROVE  IInv'
<1>1. CASE WriteAgain
    BY <1>1 DEF WriteAgain, IInv, StatusIsTrue
<1>2. CASE ReadHead
    <2>1. head = "only" => \E s \in {"internal", rpc} : End(s)
        <3>1. head = "only" => rpc \in {"ok", "error", "deadline"}
            BY DEF IInv
        <3> QED BY <1>2, <3>1 DEF ReadHead, from_headers
    <2>2. /\ head = "bad" => End("unavailable")
          /\ head = "200" => pc' = "body" /\ answer' = answer
          /\ call.kind # "tonic"
        BY <1>2 DEF ReadHead
    <2> QED BY <1>2, <2>1, <2>2, HeadStep DEF ReadHead
<1>3. CASE TonicHead
    <2>1. \/ head = "only" /\ End(rpc)
          \/ pc' = "body" /\ answer' = answer
        BY <1>3 DEF TonicHead
    <2> QED BY <1>3, <2>1, HeadStep DEF TonicHead
<1>4. CASE \E n \in 1..Len(Response) : Collect(n) \/ ReadChunk(n) \/ TonicFrame(n)
    <2>1. PICK n : Collect(n) \/ ReadChunk(n) \/ TonicFrame(n)
        BY <1>4
    <2>2. pc = "body" /\ answer = "none"
        BY <2>1 DEF Collect, ReadChunk, TonicFrame, IInv
    <2>3. /\ call' = call /\ rpc' = rpc /\ head' = head /\ avail' = avail /\ expired' = expired
        BY <2>1 DEF Collect, ReadChunk, TonicFrame, serverVars
    <2>4. \/ answer' = answer /\ pc' = pc
          \/ answer' \in {"unimplemented", "exhausted"} /\ pc' \in {"over", "done"}
        BY <2>1 DEF Collect, ReadChunk, TonicFrame, End, Refusal
    <2> QED BY <2>2, <2>3, <2>4 DEF IInv, StatusIsTrue
<1>5. CASE Deliver
    BY <1>5 DEF Deliver, IInv, StatusIsTrue, serverVars
<1>6. CASE Return
    BY <1>6, ReturnStatus, OverStep DEF Return
<1>7. CASE ReadEnd
    BY <1>7, OverStep DEF ReadEnd
<1>8. CASE TonicEnd
    <2>1. PICK s \in TonicStatus : End(s)
        BY <1>8 DEF TonicEnd
    <2>2. call.kind = "tonic" /\ pc = "body" /\ call' = call /\ serverVars' = serverVars
          /\ got' = got /\ expired' = expired
        BY <1>8 DEF TonicEnd
    <2>3. CASE head = "bad"
        BY <2>1, <2>2, <2>3, EndKeeps DEF TonicStatus
    <2>4. CASE head # "bad"
        <3>1. got = avail /\ rpc \in {"ok", "error", "short", "cut", "mute", "garbled"}
            BY <1>8, <2>4 DEF TonicEnd, BodyOver
        <3>2. /\ s = "ok" => rpc \in {"ok", "cut"} \/ EndedSilently
              /\ s = "error" => rpc = "error"
              /\ s \in {"ok", "error", "internal", "unknown"}
            BY <2>1, <2>4, <3>1 DEF TonicStatus, from_headers, EndedSilently
        <3> QED BY <2>1, <2>2, <3>1, <3>2, EndKeeps
    <2> QED BY <2>3, <2>4
<1>9. CASE TonicRefuses
    BY <1>9, EndKeeps DEF TonicRefuses
<1>10. CASE StreamFails
    BY <1>10, EndKeeps DEF StreamFails
<1>11. CASE TimerEnds
    <2>1. pc \in {"open", "body"} /\ End("deadline") /\ expired' = TRUE
        BY <1>11 DEF TimerEnds, Deadline, TonicDeadline, Pending
    <2>2. call' = call /\ serverVars' = serverVars /\ got' = got
        BY <1>11 DEF TimerEnds, Deadline, TonicDeadline
    <2> QED BY <2>1, <2>2, EndKeeps
<1>12. CASE LetGo
    <2>1. /\ call' = call /\ rpc' = rpc /\ head' = head /\ avail' = avail /\ link' = link
          /\ got' = got /\ expired' = expired
          /\ pc' = "done" /\ answer' \in {answer, "dropped"} /\ answer' # "none"
        BY <1>12 DEF LetGo, serverVars
    <2>2. EndedSilently' = EndedSilently
        BY <2>1 DEF EndedSilently, AtMessageEnd
    <2> QED BY <2>1, <2>2 DEF IInv, StatusIsTrue
<1> QED BY <1>1, <1>2, <1>3, <1>4, <1>5, <1>6, <1>7, <1>8, <1>9, <1>10, <1>11, <1>12 DEF Read

LEMMA StepPreserves == IInv /\ [Next]_vars => IInv'
<1> SUFFICES ASSUME IInv, [Next]_vars PROVE IInv'
    OBVIOUS
<1>1. CASE Next
    BY <1>1, ServerStep, ClientStep DEF Next
<1>2. CASE UNCHANGED vars
    BY <1>2, ServerKeeps DEF vars, serverVars, IInv
<1> QED BY <1>1, <1>2

(* A caller of unary, server_streaming, bidi_streaming or a tonic stub is    *)
(* told OK, an error, a deadline or Unavailable only when that is what       *)
(* happened, whatever is sent, however it is chunked, and however the        *)
(* stream, the tunnel and the two timers race the answer.  The exception is  *)
(* the property's: through tonic, a 200 that ends without a grpc-status      *)
(* between two messages, or in trailers that have none, is OK as well.       *)
THEOREM StatusTold == Spec => []StatusIsTrue
<1>1. IInv => StatusIsTrue
    BY DEF IInv
<1> QED BY InitEstablishes, StepPreserves, <1>1, PTL DEF Spec
=============================================================================
