------------------------------- MODULE RustWs -------------------------------
(***************************************************************************)
(* One custom-`Frame` WebSocket of the Rust server                         *)
(* (rust/crates/grpc-webnext/src/ws.rs).                                   *)
(*                                                                         *)
(* Four kinds of actors share the connection: the read loop of `serve`,    *)
(* the writer task that owns the socket's sink, one `run_stream` task per  *)
(* accepted Subscribe, and the peer.  They meet in three bounded channels: *)
(* `outbound` (frames to the writer), one request channel per stream, and  *)
(* `closed` (the writer's "a close frame went out").                       *)
(*                                                                         *)
(* The outbound channel and the wire are kept as one growing sequence:     *)
(* outq[1..flushed] is what the socket has carried, the rest is queued.    *)
(* A frame is its kind and the stream that queued it (0: the read loop).   *)
(***************************************************************************)
EXTENDS WsFrames

CONSTANTS
    OutCap,        \* capacity of the outbound channel (64 in the code)
    ReqCap,        \* capacity of a request channel (16 in the code)
    Keepalive,     \* is ws_keepalive configured?
    Faults,        \* what may become of the TCP connection
    NoBody,        \* is the URL bound to a route whose request has no body?
    ClientFrames,  \* the WebSocket messages the peer may send
    Codecs,        \* what the handshake may have pinned
    InFlight,      \* bound: messages of the peer in flight at once
    MaxFrames,     \* bound: messages the peer sends on one socket
    MaxStreams,    \* names for streams; enough for MaxFrames, so never a limit
    MaxOut         \* bound: response messages stop once this much was queued

ASSUME RustWsAssumption ==
    /\ OutCap \in Nat \ {0}
    /\ ReqCap \in Nat /\ ReqCap >= 2
    /\ {Keepalive, NoBody} \subseteq BOOLEAN /\ Faults \subseteq {"gone", "stalled"}
    /\ {InFlight, MaxFrames, MaxStreams, MaxOut} \subseteq Nat
    /\ 2 * MaxStreams >= MaxFrames + 1

Streams == 1..MaxStreams

ASSUME ClientFramesAssumption == ClientFrames \subseteq Inbound
(* Routes bound by an annotation are JSON only.                            *)
ASSUME CodecsAssumption == Codecs \subseteq CodecNames /\ (NoBody => Codecs = {"json"})

Outbound == [k : Kinds, t : 0..MaxStreams]

VARIABLES
    inbox, nsent, peer,              \* the peer and what it has in flight
    outq, flushed, writer,           \* outbound channel, wire, writer task
    closed,                          \* the closed_tx signal and close_deadline
    pc, todo,                        \* the read loop, and frames it is queueing
    codec, opened, cur, sending,     \* its locals: codec, opened, stream, req_tx
    draining, drain,                 \* its drain flag; the server's drain signal
    nstreams,                        \* streams accepted so far
    tpc, aborted, timed, req, rx, fate  \* per stream, see TypeOK

peerVars == <<inbox, nsent, peer>>
sockVars == <<outq, flushed, writer, closed>>
loopVars == <<pc, todo, codec, opened, cur, sending, draining>>
taskVars == <<nstreams, tpc, aborted, timed, req, rx, fate>>
vars == <<peerVars, sockVars, loopVars, drain, taskVars>>

(* run_stream up to the spawn of the RPC; then its `pump` future, which    *)
(* the deadline may drop; then the frames sent after the pump.             *)
PumpPcs == {"call", "fail", "header", "body", "trailer"}
TaskPcs == {"idle", "resolve", "refuse", "deadline", "close", "done"} \cup PumpPcs

TypeOK ==
    /\ inbox \in Seq(Inbound) /\ nsent \in 0..MaxFrames
    /\ peer \in {"up", "closed", "gone", "stalled"}
    /\ outq \in Seq(Outbound) /\ flushed \in 0..Len(outq)
    /\ writer \in {"run", "done"} /\ closed \in {"no", "sent", "armed"}
    /\ pc \in {"gate", "readout", "select", "feed", "emit", "join", "done"}
    /\ todo \in Seq(Outbound)
    /\ codec \in CodecNames /\ opened \in BOOLEAN
    /\ cur \in 0..MaxStreams /\ sending \in BOOLEAN
    /\ draining \in BOOLEAN /\ drain \in BOOLEAN
    /\ nstreams \in 0..MaxStreams
    /\ tpc \in [Streams -> TaskPcs]
    /\ aborted \in [Streams -> BOOLEAN]      \* JoinHandle::abort was called
    /\ timed \in [Streams -> BOOLEAN]        \* the Subscribe carried a timeout
    /\ req \in [Streams -> 0..ReqCap]        \* messages in the request channel
    /\ rx \in [Streams -> BOOLEAN]           \* its receiver is alive
    /\ fate \in [Streams -> {"none", "ok", "err", "cut"}]  \* how the RPC ended

Init ==
    /\ inbox = <<>> /\ nsent = 0 /\ peer = "up"
    /\ outq = <<>> /\ flushed = 0 /\ writer = "run" /\ closed = "no"
    /\ pc = "gate" /\ todo = <<>>
    /\ codec \in Codecs /\ opened = FALSE /\ cur = 0 /\ sending = FALSE
    /\ draining = FALSE /\ drain = FALSE
    /\ nstreams = 0
    /\ tpc = [s \in Streams |-> "idle"]
    /\ aborted = [s \in Streams |-> FALSE]
    /\ timed = [s \in Streams |-> FALSE]
    /\ req = [s \in Streams |-> 0]
    /\ rx = [s \in Streams |-> FALSE]
    /\ fate = [s \in Streams |-> "none"]

-----------------------------------------------------------------------------
(* The environment: the peer, the network, and the shutdown signal.        *)

PeerSends ==
    /\ peer = "up" /\ nsent < MaxFrames /\ Len(inbox) < InFlight
    /\ \E m \in ClientFrames :
         /\ inbox' = Append(inbox, m)
         /\ peer' = IF m.form = "close" THEN "closed" ELSE peer
    /\ nsent' = nsent + 1
    /\ UNCHANGED <<sockVars, loopVars, drain, taskVars>>

(* The TCP connection ends ("gone": reads drain what is in flight, writes  *)
(* fail), or is half-open ("stalled": nothing arrives, and what was written *)
(* fills the socket buffer, so further writes hang).                       *)
ConnectionLost ==
    /\ peer # "gone" /\ peer' \in Faults \ {peer}
    /\ peer' = "stalled" => flushed > 0
    /\ UNCHANGED <<inbox, nsent, sockVars, loopVars, drain, taskVars>>

DrainStarts ==
    /\ ~drain /\ drain' = TRUE
    /\ UNCHANGED <<peerVars, sockVars, loopVars, taskVars>>

-----------------------------------------------------------------------------
(* The writer task: it alone writes to the socket once the loop runs.      *)

Queued == Len(outq) - flushed

(* What a write to the sink would do: it fails once the connection is gone *)
(* or the peer's close frame (its last message) was read, and hangs on a   *)
(* connection that stalled.                                                *)
Broken == peer = "gone" \/ (peer = "closed" /\ inbox = <<>>)
Writable == ~Broken /\ peer # "stalled"

(* A send on the outbound channel: it fails at once when the writer has    *)
(* dropped the receiver, waits for room otherwise.                         *)
Send(f) ==
    IF writer = "done" THEN UNCHANGED outq
    ELSE Queued < OutCap /\ outq' = Append(outq, f)

(* Mutation: the writer does not signal a close.                           *)
WriterNoSignal ==
    /\ writer = "run" /\ pc # "gate" /\ Queued > 0 /\ Writable
    /\ flushed' = flushed + 1
    /\ writer' = IF IsClose(outq[flushed + 1]) THEN "done" ELSE writer
    /\ UNCHANGED <<peerVars, outq, closed, loopVars, drain, taskVars>>

WriterSends ==
    /\ writer = "run" /\ pc # "gate" /\ Queued > 0 /\ Writable
    /\ flushed' = flushed + 1
    /\ IF IsClose(outq[flushed + 1])
         THEN writer' = "done" /\ closed' = "sent"
         ELSE UNCHANGED <<writer, closed>>
    /\ UNCHANGED <<peerVars, outq, loopVars, drain, taskVars>>

(* A frame or a keepalive ping cannot be written.                          *)
WriterFails ==
    /\ writer = "run" /\ pc # "gate" /\ Broken
    /\ Queued > 0 \/ Keepalive
    /\ writer' = "done"
    /\ UNCHANGED <<peerVars, outq, flushed, closed, loopVars, drain, taskVars>>

(* Every sender of the outbound channel is gone: the loop's and the tasks'. *)
WriterDrained ==
    /\ writer = "run" /\ Queued = 0
    /\ pc = "join" /\ \A s \in Streams : tpc[s] \in {"idle", "done"}
    /\ writer' = "done"
    /\ UNCHANGED <<peerVars, outq, flushed, closed, loopVars, drain, taskVars>>

-----------------------------------------------------------------------------
(* The read loop.                                                          *)

(* The handshake gate refused the connection: the status goes out in a     *)
(* private close code, and the peer is read out for at most CLOSE_GRACE.   *)
Reject ==
    /\ pc = "gate" /\ peer # "stalled"
    /\ pc' = "readout" /\ writer' = "done"
    /\ IF Broken THEN UNCHANGED <<outq, flushed>>
       ELSE outq' = <<Fr("Close4000", 0)>> /\ flushed' = 1
    /\ UNCHANGED <<peerVars, closed, todo, codec, opened, cur, sending, draining, drain,
                   taskVars>>

ReadOut ==
    /\ pc = "readout"
    /\ IF inbox = <<>> THEN pc' = "done" /\ UNCHANGED inbox   \* grace over, or EOF
       ELSE /\ inbox' = Tail(inbox)
            /\ pc' = IF Head(inbox).form = "close" THEN "done" ELSE pc
    /\ UNCHANGED <<nsent, peer, sockVars, todo, codec, opened, cur, sending, draining, drain,
                   taskVars>>

Accept ==
    /\ pc = "gate" /\ pc' = "select"
    /\ UNCHANGED <<peerVars, sockVars, todo, codec, opened, cur, sending, draining, drain,
                   taskVars>>

(* Aborting a task only asks for it: TaskCancelled is the cancellation.    *)
AbortCurrent == aborted' = [s \in Streams |-> aborted[s] \/ s = cur]

(* `break` out of the select loop, and the teardown after it.              *)
Break ==
    /\ pc' = "join" /\ AbortCurrent
    /\ UNCHANGED <<nsent, peer, sockVars, todo, codec, opened, cur, sending, draining, drain,
                   nstreams, tpc, timed, req, rx, fate>>

PeerClosed ==
    /\ pc = "select" /\ inbox # <<>> /\ Head(inbox).form = "close"
    /\ inbox' = Tail(inbox) /\ Break

PeerLost == pc = "select" /\ peer = "gone" /\ Break /\ UNCHANGED inbox

(* Nothing arrived for max_silence.  How long that is in steps is open.    *)
KeepaliveExpires == pc = "select" /\ Keepalive /\ Break /\ UNCHANGED inbox

CloseGraceExpires == pc = "select" /\ closed = "armed" /\ Break /\ UNCHANGED inbox

ArmCloseDeadline ==
    /\ pc = "select" /\ closed = "sent" /\ closed' = "armed"
    /\ UNCHANGED <<peerVars, outq, flushed, writer, loopVars, drain, taskVars>>

(* Mutations: the drain arm closes whatever the socket carries; it only    *)
(* notes the drain.                                                        *)
DrainArmAlways ==
    /\ pc = "select" /\ drain /\ ~draining
    /\ draining' = TRUE /\ pc' = "emit" /\ todo' = <<Fr("Close1001", 0)>>
    /\ UNCHANGED <<peerVars, sockVars, codec, opened, cur, sending, drain, taskVars>>

DrainArmNoClose ==
    /\ pc = "select" /\ drain /\ ~draining /\ draining' = TRUE
    /\ UNCHANGED <<peerVars, sockVars, pc, todo, codec, opened, cur, sending, drain, taskVars>>

DrainArm ==
    /\ pc = "select" /\ drain /\ ~draining
    /\ draining' = TRUE
    /\ IF cur = 0 THEN pc' = "emit" /\ todo' = <<Fr("Close1001", 0)>>
       ELSE UNCHANGED <<pc, todo>>
    /\ UNCHANGED <<peerVars, sockVars, codec, opened, cur, sending, drain, taskVars>>

(* The frames handle_frame and the drain arm send, one at a time; the loop *)
(* goes back to select!, or breaks after a going-away close.               *)
Emit ==
    /\ pc = "emit" /\ Send(Head(todo)) /\ todo' = Tail(todo)
    /\ pc' = IF Tail(todo) # <<>> THEN "emit"
             ELSE IF Head(todo).k = "Close1001" THEN "join" ELSE "select"
    /\ UNCHANGED <<peerVars, flushed, writer, closed, codec, opened, cur, sending, draining,
                   drain, taskVars>>

-----------------------------------------------------------------------------
(* One inbound message: decode it, then handle_frame.                      *)

Receive(m, kind) ==
    /\ pc = "select" /\ inbox # <<>> /\ m = Head(inbox)
    /\ m.form # "close" /\ Decode(codec, opened, m) = kind
    /\ inbox' = Tail(inbox) /\ codec' = Lock(codec, m)
    /\ opened' = (opened \/ kind = "Subscribe")
    /\ UNCHANGED <<nsent, peer, sockVars, draining, drain>>

reject_stream == <<Fr("Reset", 0), Fr("Close1000", 0)>>

DropFrame ==
    /\ \E m \in ClientFrames : Receive(m, "Drop")
    /\ UNCHANGED <<pc, todo, cur, sending, taskVars>>

(* A Subscribe while the stream is open: a Reset, and nothing else.        *)
DuplicateSubscribe ==
    /\ cur # 0 /\ \E m \in ClientFrames : Receive(m, "Subscribe")
    /\ pc' = "emit" /\ todo' = <<Fr("Reset", 0)>>
    /\ UNCHANGED <<cur, sending, taskVars>>

(* An opening message over the size limit; a method that does not parse is *)
(* answered the same way.                                                  *)
RejectSubscribe ==
    /\ cur = 0 /\ \E m \in ClientFrames : m.form # "close" /\ m.big /\ Receive(m, "Subscribe")
    /\ pc' = "emit" /\ todo' = reject_stream
    /\ UNCHANGED <<cur, sending, taskVars>>

Subscribe ==
    /\ cur = 0 /\ nstreams < MaxStreams
    /\ \E m \in ClientFrames, timeout \in BOOLEAN :
         LET s == nstreams + 1 IN
         /\ m.form # "close" /\ ~m.big /\ Receive(m, "Subscribe")
         /\ nstreams' = s /\ cur' = s /\ sending' = ~NoBody
         /\ req' = [req EXCEPT ![s] = (IF m.data THEN 1 ELSE 0) + (IF NoBody THEN 1 ELSE 0)]
         /\ timed' = [timed EXCEPT ![s] = timeout]
         /\ tpc' = [tpc EXCEPT ![s] = IF Lock(codec, m) = "json" THEN "resolve" ELSE "call"]
         /\ rx' = [rx EXCEPT ![s] = TRUE]
    /\ UNCHANGED <<pc, todo, aborted, fate>>

(* An oversized message ends the stream, if there is one, and the socket.  *)
RejectMessage ==
    /\ \E m \in ClientFrames : m.form # "close" /\ m.big /\ Receive(m, "Message")
    /\ AbortCurrent /\ cur' = 0 /\ sending' = FALSE
    /\ pc' = "emit" /\ todo' = reject_stream
    /\ UNCHANGED <<nstreams, tpc, timed, req, rx, fate>>

Message ==
    /\ \E m \in ClientFrames : m.form # "close" /\ ~m.big /\ Receive(m, "Message")
    /\ pc' = IF sending THEN "feed" ELSE pc
    /\ UNCHANGED <<todo, cur, sending, taskVars>>

(* tx.send(payload).await inside handle_frame: the whole loop waits here   *)
(* while the request channel is full and its receiver alive.               *)
Feed ==
    /\ pc = "feed"
    /\ IF rx[cur] THEN req[cur] < ReqCap /\ req' = [req EXCEPT ![cur] = @ + 1]
       ELSE UNCHANGED req
    /\ pc' = "select"
    /\ UNCHANGED <<peerVars, sockVars, todo, codec, opened, cur, sending, draining, drain,
                   nstreams, tpc, aborted, timed, rx, fate>>

HalfClose ==
    /\ \E m \in ClientFrames : Receive(m, "HalfClose")
    /\ sending' = FALSE
    /\ UNCHANGED <<pc, todo, cur, taskVars>>

(* Mutation: a Reset forgets the stream without aborting its task.         *)
ResetNoAbort ==
    /\ \E m \in ClientFrames : Receive(m, "Reset")
    /\ cur' = 0 /\ sending' = FALSE
    /\ UNCHANGED <<pc, todo, taskVars>>

Reset ==
    /\ \E m \in ClientFrames : Receive(m, "Reset")
    /\ AbortCurrent /\ cur' = 0 /\ sending' = FALSE
    /\ UNCHANGED <<pc, todo, nstreams, tpc, timed, req, rx, fate>>

(* `writer.await` after the teardown, then everything is dropped.          *)
Joined ==
    /\ pc = "join" /\ writer = "done" /\ pc' = "done"
    /\ UNCHANGED <<peerVars, sockVars, todo, codec, opened, cur, sending, draining, drain,
                   taskVars>>

-----------------------------------------------------------------------------
(* run_stream.                                                             *)

taskFrame == <<peerVars, flushed, writer, closed, loopVars, drain, nstreams, aborted, timed>>

(* An internal step of the task, and one that queues a frame.  Leaving the *)
(* pump drops the request body; a refused stream keeps it until it returns. *)
Step(s, from, to) ==
    /\ tpc[s] = from /\ tpc' = [tpc EXCEPT ![s] = to]
    /\ UNCHANGED <<taskFrame, outq, req, rx>>

SendStep(s, from, k, to) ==
    /\ tpc[s] = from /\ Send(Fr(k, s)) /\ tpc' = [tpc EXCEPT ![s] = to]
    /\ rx' = [rx EXCEPT ![s] = @ /\ (to = "body" \/ from = "refuse")]
    /\ UNCHANGED <<taskFrame, req, fate>>

(* The JSON transcoder is resolved before the deadline starts to run.      *)
Resolve(s) ==
    /\ Step(s, "resolve", "call") \/ Step(s, "resolve", "refuse")
    /\ UNCHANGED fate

Refuse(s) == SendStep(s, "refuse", "Reset", "close")

(* backend.call returns a response, or an error.                           *)
Call(s) ==
    /\ Step(s, "call", "header") \/ Step(s, "call", "fail")
    /\ UNCHANGED fate

SendHeader(s) == SendStep(s, "header", "Header", "body")

(* A response message; a failed send leaves the pump without a terminal.   *)
SendMessage(s) ==
    /\ Len(outq) < MaxOut
    /\ SendStep(s, "body", "Message", IF writer = "done" THEN "close" ELSE "body")

EncodeError(s) ==
    codec = "json" /\ Step(s, "body", "fail") /\ UNCHANGED fate

(* Mutation: the pump returns on an error without a Reset.                 *)
FailSilently(s) == Step(s, "fail", "close") /\ UNCHANGED fate

Fail(s) == SendStep(s, "fail", "Reset", "close")

(* The response body ends with the backend's status, or breaks off.        *)
BodyEnds(s) ==
    /\ Step(s, "body", "trailer")
    /\ \E f \in {"ok", "err", "cut"} : fate' = [fate EXCEPT ![s] = f]

(* read_status of trailers that never came is 0.                           *)
read_status(f) == IF f = "err" THEN "TrailerErr" ELSE "TrailerOk"

SendTrailer(s) ==
    SendStep(s, "trailer", read_status(fate[s]), "close")

(* The deadline drops the pump wherever it is, a blocked send included.    *)
DeadlineExpires(s) ==
    /\ timed[s] /\ tpc[s] \in PumpPcs
    /\ tpc' = [tpc EXCEPT ![s] = "deadline"] /\ rx' = [rx EXCEPT ![s] = FALSE]
    /\ UNCHANGED <<taskFrame, outq, req, fate>>

SendDeadline(s) ==
    SendStep(s, "deadline", "TrailerDeadline", "close")

SendClose(s) == SendStep(s, "close", "Close1000", "done")

TaskCancelled(s) ==
    /\ aborted[s] /\ tpc[s] \notin {"idle", "done"}
    /\ tpc' = [tpc EXCEPT ![s] = "done"] /\ rx' = [rx EXCEPT ![s] = FALSE]
    /\ UNCHANGED <<taskFrame, outq, req, fate>>

(* The backend reads a request message, or stops reading for good.         *)
BackendReads(s) ==
    /\ tpc[s] \in PumpPcs /\ rx[s] /\ req[s] > 0
    /\ req' = [req EXCEPT ![s] = @ - 1]
    /\ UNCHANGED <<taskFrame, outq, tpc, rx, fate>>

BackendDropsBody(s) ==
    /\ tpc[s] \in PumpPcs /\ rx[s] /\ rx' = [rx EXCEPT ![s] = FALSE]
    /\ UNCHANGED <<taskFrame, outq, tpc, req, fate>>

-----------------------------------------------------------------------------
PeerStep == PeerSends \/ ConnectionLost
WriterStep == WriterSends \/ WriterFails \/ WriterDrained
FrameStep == \/ DropFrame \/ DuplicateSubscribe \/ RejectSubscribe \/ Subscribe
             \/ RejectMessage \/ Message \/ HalfClose \/ Reset
LoopStep == \/ Reject \/ ReadOut \/ Accept \/ PeerClosed \/ PeerLost \/ KeepaliveExpires
            \/ CloseGraceExpires \/ ArmCloseDeadline \/ DrainArm \/ Emit \/ Feed \/ Joined
            \/ FrameStep
TaskStep(s) == \/ Resolve(s) \/ Refuse(s) \/ Call(s) \/ SendHeader(s) \/ SendMessage(s)
               \/ EncodeError(s) \/ Fail(s) \/ BodyEnds(s) \/ SendTrailer(s)
               \/ DeadlineExpires(s) \/ SendDeadline(s) \/ SendClose(s) \/ TaskCancelled(s)
               \/ BackendReads(s) \/ BackendDropsBody(s)

(* The connection has ended and its tasks with it.                         *)
Ended == pc = "done" /\ \A s \in Streams : tpc[s] \in {"idle", "done"}

Next == \/ PeerStep \/ DrainStarts \/ WriterStep \/ LoopStep
        \/ \E s \in Streams : TaskStep(s)

Spec == Init /\ [][Next]_vars

(* Fairness.  tokio polls every ready task and picks among the ready arms  *)
(* of a select! at random, and armed timers fire; a backend answers, goes  *)
(* on and ends its body.  Nothing is assumed of the peer, of the shutdown  *)
(* signal or of keepalive against a peer that is alive.                    *)
Progress(s) == \/ Resolve(s) \/ Refuse(s) \/ Call(s) \/ SendHeader(s) \/ Fail(s)
               \/ BodyEnds(s) \/ SendTrailer(s) \/ SendDeadline(s) \/ SendClose(s)
               \/ TaskCancelled(s)
Fairness ==
    /\ WF_vars(WriterStep)
    /\ WF_vars(Reject \/ Accept) /\ WF_vars(ReadOut)
    /\ WF_vars(PeerClosed \/ FrameStep) /\ WF_vars(PeerLost)
    /\ WF_vars(peer = "stalled" /\ KeepaliveExpires)
    /\ WF_vars(CloseGraceExpires) /\ WF_vars(ArmCloseDeadline) /\ WF_vars(DrainArm)
    /\ WF_vars(Emit) /\ WF_vars(Feed) /\ WF_vars(Joined)
    /\ \A s \in Streams : WF_vars(Progress(s))

FairSpec == Spec /\ Fairness

-----------------------------------------------------------------------------
(* Properties.                                                             *)

(* Nothing reaches the socket after a close frame: "Nothing follows a      *)
(* close frame" of the writer, whatever the tasks and the loop queue.      *)
NothingAfterClose ==
    \A i \in 1..flushed : IsClose(outq[i]) => i = flushed

(* A stream that closes the socket with 1000 has queued its status (a      *)
(* Trailer or a Reset) before: whichever way run_stream ends, the deadline *)
(* and an upstream error included, the client is told why.                 *)
StatusBeforeClose ==
    \A i \in 1..Len(outq) : outq[i].k = "Close1000" =>
        \E j \in 1..(i - 1) : outq[j].t = outq[i].t /\ outq[j].k \in Terminal

(* After its terminal frame a stream queues its close and nothing else: no *)
(* message after the status, and no second status, when the deadline, the  *)
(* end of the body and an abort race.                                      *)
OneTerminalPerStream ==
    \A i, j \in 1..Len(outq) :
        (i < j /\ outq[i].t = outq[j].t /\ outq[i].t # 0 /\ outq[i].k \in Terminal)
            => outq[j].k = "Close1000"

(* The wire as a client reads it, whatever the order in which loop, tasks, *)
(* deadline, drain and writer move: nothing after a close, a status before *)
(* a stream's close, and nothing but that close after the status.          *)
WireWellFormed == NothingAfterClose /\ StatusBeforeClose /\ OneTerminalPerStream

(* A task that still runs and was not told to stop is the loop's current   *)
(* stream, and the loop still runs: no RPC outlives a Reset, an oversized  *)
(* message or the connection unnoticed.                                    *)
LiveTaskIsCurrent ==
    \A s \in Streams : (tpc[s] \notin {"idle", "done"} /\ ~aborted[s]) =>
        cur = s /\ pc \in {"select", "feed", "emit"}

(* A socket closed with 1001 by the drain carries no RPC: every stream it  *)
(* ever opened had been cancelled, and none is opened afterwards.          *)
GoingAwayOnlyIdle ==
    (\E i \in 1..Len(outq) : outq[i].k = "Close1001") =>
        \A s \in 1..nstreams : aborted[s]

(* Once a close frame is on the wire the connection ends, answered or not. *)
CloseEndsConnection == (flushed > 0 /\ IsClose(outq[flushed])) ~> (pc = "done")

(* A drain ends every connection, at once when idle and after the terminal *)
(* frame otherwise, whether or not the peer answers the close.             *)
DrainEndsConnection == drain ~> Ended
=============================================================================
