-------------------------------- MODULE GoWs --------------------------------
(***************************************************************************)
(* One custom-`Frame` WebSocket of the Go server (go/webnext/ws.go).       *)
(*                                                                         *)
(* Goroutines: the read loop of serveWS, runWriter, watchDrain, and per    *)
(* accepted Subscribe runStream and the goroutine that feeds its request   *)
(* pipe.  Unlike in the Rust server the drain is watched by a goroutine of *)
(* its own, which sees the stream through the atomic `streamOpen` only,    *)
(* and the wait for the peer's close is the socket's read deadline, which  *)
(* keepalive sets too.                                                     *)
(*                                                                         *)
(* outq[1..flushed] is what the socket has carried, the rest is in c.out.  *)
(***************************************************************************)
EXTENDS WsFrames

CONSTANTS
    OutCap,        \* capacity of c.out (64 in the code)
    ReqCap,        \* capacity of s.requests (16 in the code)
    Keepalive,     \* is WSKeepalive > 0?
    NoBody,        \* is this an annotation route without a body?
    ClientFrames,  \* the WebSocket messages the peer may send
    Codecs,        \* what the handshake may have pinned
    Faults,        \* what may become of the TCP connection
    MaxFrames,     \* bound: messages the peer sends on one socket
    MaxStreams,    \* names for streams; enough for MaxFrames, so never a limit
    MaxOut         \* bound: response messages stop once this much was queued

ASSUME GoWsAssumption ==
    /\ OutCap \in Nat \ {0} /\ ReqCap \in Nat /\ ReqCap >= 2
    /\ {Keepalive, NoBody} \subseteq BOOLEAN /\ Faults \subseteq {"gone"}
    /\ {MaxFrames, MaxStreams, MaxOut} \subseteq Nat /\ 2 * MaxStreams >= MaxFrames + 1
    /\ ClientFrames \subseteq Inbound /\ Codecs \subseteq CodecNames
    /\ NoBody => Codecs = {"json"}

Streams == 1..MaxStreams

VARIABLES
    inbox, nsent, peer,             \* the peer and what it has in flight
    outq, flushed, writer,          \* c.out with the wire, and runWriter
    readDeadline,                   \* the read deadline in force
    pc, todo,                       \* serveWS, and what handleFrame is sending
    codec, opened, cur,             \* its locals (cur = 0: stream is nil)
    drain, watcher, streamOpen,     \* srv.draining, watchDrain, c.streamOpen
    nstreams, tpc, aborted, timed, timedOut, half, req, feeder

peerVars == <<inbox, nsent, peer>>
sockVars == <<outq, flushed, writer, readDeadline>>
readVars == <<pc, todo, codec, opened, cur>>
drainVars == <<drain, watcher, streamOpen>>
taskVars == <<nstreams, tpc, aborted, timed, timedOut, half, req, feeder>>
vars == <<peerVars, sockVars, readVars, drainVars, taskVars>>

Calling == {"head", "header", "body", "reset", "trailer", "expired", "close"}

TypeOK ==
    /\ inbox \in Seq(Inbound) /\ nsent \in 0..MaxFrames /\ peer \in {"up", "closed", "gone"}
    /\ outq \in Seq([k : Kinds, t : 0..MaxStreams]) /\ flushed \in 0..Len(outq)
    /\ Len(outq) - flushed <= OutCap
    /\ writer \in {"run", "done"} /\ readDeadline \in {"none", "silence", "grace"}
    /\ pc \in {"gate", "read", "feed", "emit", "done"}
    /\ todo \in Seq([k : Kinds \cup {"abort"}, t : {0}])
    /\ codec \in CodecNames /\ opened \in BOOLEAN /\ cur \in 0..MaxStreams
    /\ drain \in BOOLEAN /\ watcher \in {"wait", "send", "done"}
    /\ streamOpen = (cur # 0) /\ nstreams \in 0..MaxStreams
    /\ tpc \in [Streams -> {"idle", "start", "done"} \cup Calling]
    /\ aborted \in [Streams -> BOOLEAN]       \* s.aborted, and s.ctx cancelled
    /\ timed \in [Streams -> BOOLEAN]         \* the Subscribe carried a timeout
    /\ timedOut \in [Streams -> BOOLEAN]      \* its AfterFunc has run
    /\ half \in [Streams -> BOOLEAN]          \* s.halfClosed: requests is closed
    /\ req \in [Streams -> 0..ReqCap]         \* payloads buffered in s.requests
    /\ feeder \in [Streams -> {"none", "take", "write", "done"}]

Init ==
    /\ inbox = <<>> /\ nsent = 0 /\ peer = "up"
    /\ outq = <<>> /\ flushed = 0 /\ writer = "run"
    /\ readDeadline = IF Keepalive THEN "silence" ELSE "none"
    /\ pc = "gate" /\ todo = <<>> /\ codec \in Codecs /\ opened = FALSE /\ cur = 0
    /\ drain = FALSE /\ watcher = "wait" /\ streamOpen = FALSE /\ nstreams = 0
    /\ tpc = [s \in Streams |-> "idle"] /\ feeder = [s \in Streams |-> "none"]
    /\ req = [s \in Streams |-> 0]
    /\ aborted = [s \in Streams |-> FALSE] /\ timed = aborted /\ timedOut = aborted
    /\ half = aborted

-----------------------------------------------------------------------------
(* The environment: the peer (one message in flight), the network, and     *)
(* Server.Shutdown.                                                        *)

PeerSends ==
    /\ peer = "up" /\ nsent < MaxFrames /\ inbox = <<>>
    /\ \E m \in ClientFrames :
         inbox' = <<m>> /\ peer' = IF m.form = "close" THEN "closed" ELSE peer
    /\ nsent' = nsent + 1
    /\ UNCHANGED <<sockVars, readVars, drainVars, taskVars>>

ConnectionLost ==
    /\ peer # "gone" /\ peer' \in Faults
    /\ UNCHANGED <<inbox, nsent, sockVars, readVars, drainVars, taskVars>>

DrainStarts ==
    /\ ~drain /\ drain' = TRUE
    /\ UNCHANGED <<peerVars, sockVars, readVars, watcher, streamOpen, taskVars>>

-----------------------------------------------------------------------------
(* runWriter and wsConn.send.                                              *)

Queued == Len(outq) - flushed
Running == pc \notin {"gate", "done"}

(* A write fails once the connection is gone, or the read loop has read    *)
(* the peer's close (and answered it).                                     *)
Broken == peer = "gone" \/ (peer = "closed" /\ pc = "done")

(* A send that succeeds waits for room.  When the writer has stopped, what *)
(* still fits the buffer is lost, and the send may report either outcome.  *)
Send(f) ==
    IF writer = "done" THEN UNCHANGED outq
    ELSE Queued < OutCap /\ outq' = Append(outq, f)

(* A close frame also bounds the wait for its echo, and ends the writer.   *)
WriterSends ==
    /\ writer = "run" /\ pc # "gate" /\ Queued > 0 /\ ~Broken /\ flushed' = flushed + 1
    /\ IF IsClose(outq[flushed + 1]) THEN writer' = "done" /\ readDeadline' = "grace"
       ELSE UNCHANGED <<writer, readDeadline>>
    /\ UNCHANGED <<peerVars, outq, readVars, drainVars, taskVars>>

(* A write fails (that of a close frame all the same sets the deadline),   *)
(* or the read loop has ended (connDone).                                  *)
WriterStops ==
    /\ writer = "run" /\ writer' = "done"
    /\ \/ pc = "done" /\ UNCHANGED readDeadline
       \/ pc # "gate" /\ Broken /\ Keepalive /\ UNCHANGED readDeadline
       \/ /\ pc # "gate" /\ Broken /\ Queued > 0
          /\ readDeadline' = IF IsClose(outq[flushed + 1]) THEN "grace" ELSE readDeadline
    /\ UNCHANGED <<peerVars, outq, flushed, readVars, drainVars, taskVars>>

-----------------------------------------------------------------------------
(* watchDrain.                                                             *)

WatcherSeesDrain ==
    /\ watcher = "wait" /\ drain /\ Running
    /\ watcher' = IF streamOpen THEN "done" ELSE "send"
    /\ UNCHANGED <<peerVars, sockVars, readVars, drain, streamOpen, taskVars>>

WatcherSends ==
    /\ watcher = "send" /\ Send(Fr("Close1001", 0)) /\ watcher' = "done"
    /\ UNCHANGED <<peerVars, flushed, writer, readDeadline, readVars, drain, streamOpen,
                   taskVars>>

WatcherEnds ==
    /\ watcher = "wait" /\ pc = "done" /\ watcher' = "done"
    /\ UNCHANGED <<peerVars, sockVars, readVars, drain, streamOpen, taskVars>>

-----------------------------------------------------------------------------
(* The read loop.                                                          *)

readFrame == <<peerVars, todo, codec, opened>>

(* closeWithStatus: the refused handshake gets its status in a private     *)
(* close code and is read out for at most wsCloseGrace.                    *)
Reject ==
    /\ pc = "gate" /\ pc' = "done" /\ writer' = "done" /\ watcher' = "done"
    /\ IF peer = "gone" THEN UNCHANGED <<outq, flushed>>
       ELSE outq' = <<Fr("Close4000", 0)>> /\ flushed' = 1
    /\ readDeadline' = "grace"
    /\ UNCHANGED <<readFrame, cur, drain, streamOpen, taskVars>>

Accept ==
    /\ pc = "gate" /\ pc' = "read"
    /\ UNCHANGED <<readFrame, sockVars, cur, drainVars, taskVars>>

AbortCurrent == aborted' = [s \in Streams |-> aborted[s] \/ s = cur]

(* ReadMessage returns an error: the peer's close, a lost connection, or   *)
(* the read deadline.  The deferred calls abort the stream.                *)
ReadFails ==
    /\ pc = "read" /\ pc' = "done" /\ AbortCurrent
    /\ \/ peer = "gone"
       \/ inbox # <<>> /\ Head(inbox).form = "close"
       \/ readDeadline # "none"
    /\ UNCHANGED <<readFrame, sockVars, cur, drainVars, nstreams, tpc, timed, timedOut, half,
                   req, feeder>>

(* Every inbound message restarts the silence timer, if there is one.      *)
refresh == readDeadline' = IF Keepalive THEN "silence" ELSE readDeadline

Receive(m, kind) ==
    /\ pc = "read" /\ inbox # <<>> /\ m = Head(inbox)
    /\ m.form # "close" /\ Decode(codec, opened, m) = kind
    /\ inbox' = Tail(inbox) /\ codec' = Lock(codec, m)
    /\ opened' = (opened \/ kind = "Subscribe")
    /\ refresh
    /\ UNCHANGED <<nsent, peer, outq, flushed, writer, drain, watcher>>

DropFrame ==
    /\ \E m \in ClientFrames : Receive(m, "Drop")
    /\ UNCHANGED <<pc, todo, cur, streamOpen, taskVars>>

DuplicateSubscribe ==
    /\ cur # 0 /\ \E m \in ClientFrames : Receive(m, "Subscribe")
    /\ pc' = "emit" /\ todo' = <<Fr("Reset", 0)>>
    /\ UNCHANGED <<cur, streamOpen, taskVars>>

RejectSubscribe ==
    /\ cur = 0 /\ \E m \in ClientFrames : m.form # "close" /\ m.big /\ Receive(m, "Subscribe")
    /\ pc' = "emit" /\ todo' = <<Fr("Reset", 0), Fr("Close1000", 0)>>
    /\ UNCHANGED <<cur, streamOpen, taskVars>>

Subscribe ==
    /\ cur = 0 /\ nstreams < MaxStreams
    /\ \E m \in ClientFrames, timeout \in BOOLEAN :
         LET s == nstreams + 1 IN
         /\ m.form # "close" /\ ~m.big /\ Receive(m, "Subscribe")
         /\ nstreams' = s /\ cur' = s /\ streamOpen' = TRUE
         /\ req' = [req EXCEPT ![s] = (IF m.data THEN 1 ELSE 0) + (IF NoBody THEN 1 ELSE 0)]
         /\ half' = [half EXCEPT ![s] = NoBody]
         /\ timed' = [timed EXCEPT ![s] = timeout]
         /\ tpc' = [tpc EXCEPT ![s] = "start"]
    /\ UNCHANGED <<pc, todo, aborted, timedOut, feeder>>

(* An oversized message: the Reset goes out first, then the stream, if     *)
(* there is one, is aborted, then the close goes out.                      *)
RejectMessage ==
    /\ \E m \in ClientFrames : m.form # "close" /\ m.big /\ Receive(m, "Message")
    /\ pc' = "emit" /\ todo' = <<Fr("Reset", 0), Fr("abort", 0), Fr("Close1000", 0)>>
    /\ UNCHANGED <<cur, streamOpen, taskVars>>

Emit ==
    /\ pc = "emit" /\ Head(todo).k # "abort" /\ Send(Head(todo)) /\ todo' = Tail(todo)
    /\ pc' = IF Tail(todo) = <<>> THEN "read" ELSE "emit"
    /\ UNCHANGED <<peerVars, flushed, writer, readDeadline, codec, opened, cur, drainVars,
                   taskVars>>

DropStream ==
    /\ AbortCurrent /\ cur' = 0 /\ streamOpen' = FALSE
    /\ UNCHANGED <<pc, nstreams, tpc, timed, timedOut, half, req, feeder>>

EmitAbort ==
    /\ pc = "emit" /\ Head(todo).k = "abort" /\ todo' = Tail(todo) /\ DropStream
    /\ UNCHANGED <<peerVars, sockVars, codec, opened, drain, watcher>>

(* Mutation: a Reset forgets the stream without cancelling it.             *)
ResetNoAbort ==
    /\ \E m \in ClientFrames : Receive(m, "Reset")
    /\ cur' = 0 /\ streamOpen' = FALSE
    /\ UNCHANGED <<pc, todo, taskVars>>

Reset == (\E m \in ClientFrames : Receive(m, "Reset")) /\ DropStream /\ UNCHANGED todo

Message ==
    /\ \E m \in ClientFrames : m.form # "close" /\ ~m.big /\ Receive(m, "Message")
    /\ pc' = IF cur # 0 /\ ~half[cur] THEN "feed" ELSE pc
    /\ UNCHANGED <<todo, cur, streamOpen, taskVars>>

(* The select that sends to s.requests.  Its two other cases cannot be     *)
(* taken here: only this goroutine cancels s.ctx or closes connDone.       *)
Feed ==
    /\ pc = "feed" /\ pc' = "read"
    /\ req[cur] < ReqCap /\ req' = [req EXCEPT ![cur] = @ + 1]
    /\ UNCHANGED <<readFrame, sockVars, cur, drainVars, nstreams, tpc, aborted, timed,
                   timedOut, half, feeder>>

HalfClose ==
    /\ \E m \in ClientFrames : Receive(m, "HalfClose")
    /\ half' = [s \in Streams |-> half[s] \/ s = cur]
    /\ UNCHANGED <<pc, todo, cur, streamOpen, nstreams, tpc, aborted, timed, timedOut, req,
                   feeder>>

-----------------------------------------------------------------------------
(* runStream, the goroutine feeding its request pipe, and the backend.     *)

taskFrame == <<peerVars, flushed, writer, readDeadline, readVars, drainVars, nstreams, aborted,
               timed, half, req>>

(* A step of runStream that sends nothing.                                 *)
Step(s, from, to) ==
    /\ tpc[s] = from /\ tpc' = [tpc EXCEPT ![s] = to]
    /\ UNCHANGED <<taskFrame, outq, timedOut>>

(* One that sends; `onFail` is where a send reporting false leads.         *)
SendStep(s, from, k, to, onFail) ==
    /\ tpc[s] = from /\ Send(Fr(k, s))
    /\ \E next \in IF writer = "done" THEN {to, onFail} ELSE {to} :
         tpc' = [tpc EXCEPT ![s] = next]
    /\ UNCHANGED <<taskFrame, timedOut, feeder>>

(* rejectStream and finishStream stay silent for an aborted stream.        *)
Unless(s, to) == IF aborted[s] THEN "done" ELSE to

(* A JSON stream without transcoder or method is rejected before dispatch. *)
Refuse(s) ==
    codec = "json" /\ Step(s, "start", Unless(s, "reset")) /\ UNCHANGED feeder

Dispatch(s) == Step(s, "start", "head") /\ feeder' = [feeder EXCEPT ![s] = "take"]

(* awaitHeaders: the head is there, or s.ctx was cancelled.                *)
AwaitHeaders(s) ==
    /\ Step(s, "head", "header") \/ (aborted[s] /\ Step(s, "head", "done"))
    /\ UNCHANGED feeder

SendHeader(s) == SendStep(s, "header", "Header", "body", "done")

(* Messages already read go out even after the deadline closed the call.   *)
SendMessage(s) ==
    /\ Len(outq) < MaxOut
    /\ SendStep(s, "body", "Message", "body", "done")

EncodeError(s) ==
    codec = "json" /\ Step(s, "body", Unless(s, "reset")) /\ UNCHANGED feeder

(* The response body ends: the handler returned, or the call was closed.   *)
BodyEnds(s) ==
    /\ Step(s, "body", Unless(s, IF timedOut[s] THEN "expired" ELSE "trailer"))
    /\ UNCHANGED feeder

(* Mutation: a stream is rejected without a Reset.                         *)
SendNoReset(s) == Step(s, "reset", "close") /\ UNCHANGED feeder

SendReset(s) == SendStep(s, "reset", "Reset", "close", "close")

(* Mutation: a deadline that expires while the trailer is sent is reported *)
(* as well.                                                                *)
SendTrailerTwice(s) ==
    \/ SendStep(s, "trailer", "Trailer", IF timedOut[s] THEN "expired" ELSE "close", "done")
    \/ SendStep(s, "expired", "TrailerDeadline", "close", "done")

SendTrailer(s) ==
    \/ SendStep(s, "trailer", "Trailer", "close", "done")
    \/ SendStep(s, "expired", "TrailerDeadline", "close", "done")

SendClose(s) == SendStep(s, "close", "Close1000", "done", "done")

(* The AfterFunc: it closes the call, whatever runStream is doing.         *)
DeadlineExpires(s) ==
    /\ timed[s] /\ ~timedOut[s] /\ tpc[s] \in Calling
    /\ timedOut' = [timedOut EXCEPT ![s] = TRUE]
    /\ UNCHANGED <<taskFrame, outq, tpc, feeder>>

feederFrame == <<peerVars, sockVars, readVars, drainVars, nstreams, tpc, aborted, timed,
                 timedOut, half>>

FeederTakes(s) ==
    /\ feeder[s] = "take" /\ req[s] > 0
    /\ req' = [req EXCEPT ![s] = @ - 1] /\ feeder' = [feeder EXCEPT ![s] = "write"]
    /\ UNCHANGED feederFrame

(* The pipe write returns when the backend has read it.                    *)
BackendReads(s) ==
    /\ feeder[s] = "write" /\ tpc[s] \in Calling /\ ~timedOut[s]
    /\ feeder' = [feeder EXCEPT ![s] = "take"] /\ UNCHANGED <<feederFrame, req>>

(* Mutation: the feeder does not watch s.ctx.                              *)
FeederIgnoresCtx(s) ==
    /\ \/ feeder[s] = "take" /\ half[s] /\ req[s] = 0
       \/ feeder[s] = "write" /\ (timedOut[s] \/ tpc[s] = "done")
    /\ feeder' = [feeder EXCEPT ![s] = "done"] /\ UNCHANGED <<feederFrame, req>>

(* s.ctx is cancelled, requests is closed and empty, or the call is closed. *)
FeederEnds(s) ==
    /\ \/ feeder[s] = "take" /\ (aborted[s] \/ (half[s] /\ req[s] = 0))
       \/ feeder[s] = "write" /\ (timedOut[s] \/ tpc[s] = "done")
    /\ feeder' = [feeder EXCEPT ![s] = "done"] /\ UNCHANGED <<feederFrame, req>>

-----------------------------------------------------------------------------
FrameStep == \/ DropFrame \/ DuplicateSubscribe \/ RejectSubscribe \/ Subscribe
             \/ RejectMessage \/ Message \/ HalfClose \/ Reset
TaskStep(s) == \/ Refuse(s) \/ Dispatch(s) \/ AwaitHeaders(s) \/ SendHeader(s) \/ EncodeError(s)
               \/ BodyEnds(s) \/ SendReset(s) \/ SendTrailer(s) \/ SendClose(s)

Next ==
    \/ PeerSends \/ ConnectionLost \/ DrainStarts
    \/ WriterSends \/ WriterStops \/ WatcherSeesDrain \/ WatcherSends \/ WatcherEnds
    \/ Reject \/ Accept \/ ReadFails \/ Emit \/ EmitAbort \/ Feed \/ FrameStep
    \/ \E s \in Streams : \/ TaskStep(s) \/ SendMessage(s) \/ DeadlineExpires(s)
                          \/ FeederTakes(s) \/ BackendReads(s) \/ FeederEnds(s)

Spec == Init /\ [][Next]_vars

(* Fairness: every goroutine that can run does; a backend sends its head   *)
(* and ends its body (at the latest when it is cancelled).  The close      *)
(* grace runs out; the silence timer of a peer that is alive need not, and *)
(* nothing is assumed of the peer or of Shutdown.                          *)
Fairness ==
    /\ WF_vars(WriterSends \/ WriterStops)
    /\ WF_vars(WatcherSeesDrain) /\ WF_vars(WatcherSends) /\ WF_vars(WatcherEnds)
    /\ WF_vars(Reject \/ Accept) /\ WF_vars(Emit \/ EmitAbort) /\ WF_vars(Feed)
    /\ WF_vars(FrameStep)
    /\ WF_vars(ReadFails /\ (peer # "up" \/ readDeadline = "grace"))
    /\ \A s \in Streams : WF_vars(TaskStep(s)) /\ WF_vars(FeederTakes(s) \/ FeederEnds(s))

FairSpec == Spec /\ Fairness

-----------------------------------------------------------------------------
(* Properties.                                                             *)

(* Nothing reaches the socket after a close frame, whichever goroutine     *)
(* queued it (wsOutbound.close: "Nothing follows a close"), and after its  *)
(* status a stream queues its close and nothing else, when the deadline,   *)
(* the end of the handler and an abort race.                               *)
WireWellFormed ==
    /\ \A i \in 1..flushed : IsClose(outq[i]) => i = flushed
    /\ \A i, j \in 1..Len(outq) :
          (i < j /\ outq[i].t = outq[j].t /\ outq[i].t # 0 /\ outq[i].k \in Terminal)
              => outq[j].k = "Close1000"

(* Who closes the socket with 1000 has queued a status before, unless the  *)
(* writer had stopped taking frames.                                       *)
StatusBeforeClose ==
    \A i \in 1..Len(outq) : outq[i].k = "Close1000" =>
        \E j \in 1..(i - 1) : outq[j].t = outq[i].t /\ outq[j].k \in Terminal

(* A stream that still runs and was not aborted is the loop's, and the     *)
(* loop still runs: none outlives a Reset or the connection uncancelled.   *)
LiveTaskIsCurrent ==
    \A s \in Streams : (tpc[s] \notin {"idle", "done"} /\ ~aborted[s]) =>
        cur = s /\ pc \in {"read", "feed", "emit"}

(* When the connection ends every goroutine it started ends: the writer,   *)
(* the drain watcher, the streams and the feeders of their request pipes.  *)
Quiet ==
    /\ writer = "done" /\ watcher = "done"
    /\ \A s \in Streams : tpc[s] \in {"idle", "done"} /\ feeder[s] \in {"none", "done"}
NoGoroutineLeak == (pc = "done") ~> Quiet
=============================================================================
