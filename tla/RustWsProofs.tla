---------------------------- MODULE RustWsProofs ----------------------------
(***************************************************************************)
(* The safety properties of one Rust WebSocket, for every channel          *)
(* capacity, every set of client messages and every bound.                 *)
(*                                                                         *)
(* The inductive invariant has three parts on top of TypeOK: what the read *)
(* loop may be in the middle of (ControlInv), who owns the streams         *)
(* (OwnInv), and what the frames queued so far say about the streams that  *)
(* queued them (WireInv).                                                  *)
(***************************************************************************)
EXTENDS RustWs, TLAPS

(* The read loop is sending exactly when it has something to send, which   *)
(* is one of four answers; it feeds a request only to a stream it has.     *)
ControlInv ==
    /\ pc = "emit" <=> todo # <<>>
    /\ todo \in {<<>>, <<Fr("Reset", 0)>>, reject_stream, <<Fr("Close1000", 0)>>,
                 <<Fr("Close1001", 0)>>}
    /\ pc = "feed" => cur # 0
    /\ sending => cur # 0
    /\ cur <= nstreams

(* Streams are numbered as they open; each was aborted unless it is the    *)
(* loop's own and the loop runs; only a loop without stream goes away.     *)
OwnInv ==
    /\ \A s \in Streams : tpc[s] = "idle" <=> s > nstreams
    /\ \A s \in 1..nstreams : aborted[s] \/ (s = cur /\ pc \in {"select", "feed", "emit"})
    /\ todo = <<Fr("Close1001", 0)>> => cur = 0
    /\ \A i \in 1..Len(outq) : outq[i].k = "Close1001" => pc \in {"join", "done"}

HasStatus(s) == \E j \in 1..Len(outq) : outq[j].t = s /\ outq[j].k \in Terminal

(* The writer has stopped at a close; a stream with its status queued is   *)
(* closing or done, and one that is closing has its status queued, unless  *)
(* the writer had stopped; likewise the loop between a Reset and a close.  *)
WireInv ==
    /\ \A i \in 1..flushed : IsClose(outq[i]) => i = flushed /\ writer = "done"
    /\ \A s \in Streams : HasStatus(s) => tpc[s] \in {"close", "done"}
    /\ \A s \in Streams : tpc[s] = "close" => writer = "done" \/ HasStatus(s)
    /\ todo = <<Fr("Close1000", 0)>> => writer = "done" \/ HasStatus(0)

IInv == TypeOK /\ ControlInv /\ OwnInv /\ WireInv /\ StatusBeforeClose /\ OneTerminalPerStream

-----------------------------------------------------------------------------
(* Type correctness.                                                       *)

(* The sequences the loop queues at once.                                  *)
LEMMA AnswerType ==
    ASSUME NEW S, NEW x \in S, NEW y \in S
    PROVE  <<x>> \in Seq(S) /\ Len(<<x>>) = 1 /\ <<x, y>> \in Seq(S)
OBVIOUS

(* A send on the outbound channel appends the frame, or finds the writer   *)
(* gone and changes nothing.                                               *)
LEMMA SendCases ==
    ASSUME NEW f, Send(f)
    PROVE  \/ writer # "done" /\ outq' = Append(outq, f)
           \/ writer = "done" /\ outq' = outq
BY DEF Send

LEMMA SendType ==
    ASSUME TypeOK, NEW f \in Outbound, Send(f), flushed' = flushed
    PROVE  outq' \in Seq(Outbound) /\ flushed' \in 0..Len(outq')
<1>1. outq \in Seq(Outbound) /\ flushed \in 0..Len(outq)
  BY DEF TypeOK
<1>2. QED
  BY <1>1, SendCases

(* What every inbound message does to the loop's variables.                *)
LEMMA ReceiveType ==
    ASSUME TypeOK, NEW m \in ClientFrames, NEW kind, Receive(m, kind)
    PROVE  /\ pc = "select" /\ inbox' \in Seq(Inbound) /\ codec' \in CodecNames
           /\ opened' \in BOOLEAN
           /\ UNCHANGED <<nsent, peer, outq, flushed, writer, closed, draining, drain>>
<1>1. inbox \in Seq(Inbound) /\ inbox # <<>>
  BY DEF TypeOK, Receive
<1>2. inbox' \in Seq(Inbound)
  BY <1>1 DEF Receive
<1>3. codec' \in CodecNames
  BY DEF TypeOK, Receive, Lock, CodecNames
<1>4. opened' \in BOOLEAN
  BY DEF Receive
<1>5. QED
  BY <1>2, <1>3, <1>4 DEF Receive, sockVars

(* The constants the arithmetic of the proofs needs.                       *)
LEMMA Sizes == ReqCap \in Nat /\ ReqCap >= 2 /\ MaxStreams \in Nat /\ MaxFrames \in Nat
BY RustWsAssumption

(* The writer's and the environment's steps keep the types.                *)
LEMMA TypeEnvironment ==
    ASSUME TypeOK, PeerStep \/ DrainStarts \/ WriterStep
    PROVE  TypeOK'
<1> USE DEF peerVars, sockVars, loopVars, taskVars
<1>1. CASE PeerSends
  <2>1. PICK m \in ClientFrames :
               inbox' = Append(inbox, m) /\ peer' = IF m.form = "close" THEN "closed" ELSE peer
    BY <1>1 DEF PeerSends
  <2>2. inbox' \in Seq(Inbound) /\ peer' \in {"up", "closed", "gone", "stalled"}
    BY <2>1, ClientFramesAssumption DEF TypeOK
  <2>3. nsent' \in 0..MaxFrames
    BY <1>1, Sizes DEF PeerSends, TypeOK
  <2>4. QED
    BY <1>1, <2>2, <2>3 DEF PeerSends, TypeOK
<1>2. CASE ConnectionLost
  <2>1. peer' \in {"gone", "stalled"}
    BY <1>2, RustWsAssumption DEF ConnectionLost
  <2>2. QED
    BY <1>2, <2>1 DEF ConnectionLost, TypeOK
<1>3. CASE DrainStarts
  BY <1>3 DEF DrainStarts, TypeOK
<1>4. CASE WriterSends
  <2>1. flushed' \in 0..Len(outq')
    BY <1>4 DEF WriterSends, Queued, TypeOK
  <2>2. writer' \in {"run", "done"} /\ closed' \in {"no", "sent", "armed"}
    BY <1>4 DEF WriterSends, TypeOK
  <2>3. QED
    BY <1>4, <2>1, <2>2 DEF WriterSends, TypeOK
<1>5. CASE WriterFails \/ WriterDrained
  <2>1. writer' = "done" /\ UNCHANGED <<peerVars, outq, flushed, closed, loopVars, drain, taskVars>>
    BY <1>5 DEF WriterFails, WriterDrained
  <2>2. QED
    BY <2>1 DEF TypeOK
<1>6. QED
  BY <1>1, <1>2, <1>3, <1>4, <1>5 DEF PeerStep, WriterStep

(* So do the steps of the read loop that consume no frame.                 *)
LEMMA TypeLoop ==
    ASSUME TypeOK, ControlInv, LoopStep, ~FrameStep
    PROVE  TypeOK'
<1> USE DEF peerVars, sockVars, loopVars, taskVars
<1>0. Fr("Close4000", 0) \in Outbound /\ Fr("Close1001", 0) \in Outbound
  BY Sizes DEF Outbound, Fr, Kinds, CloseKinds
<1>1. CASE Reject
  <2>1. outq \in Seq(Outbound) /\ flushed \in 0..Len(outq)
    BY DEF TypeOK
  <2>2. outq' \in Seq(Outbound) /\ flushed' \in 0..Len(outq')
    <3>1. CASE Broken
      BY <1>1, <2>1, <3>1 DEF Reject
    <3>2. CASE ~Broken
      <4>1. outq' = <<Fr("Close4000", 0)>> /\ flushed' = 1
        BY <1>1, <3>2 DEF Reject
      <4>2. outq' \in Seq(Outbound) /\ Len(outq') = 1
        BY <1>0, <4>1, AnswerType
      <4>3. QED
        BY <4>1, <4>2
    <3>3. QED
      BY <3>1, <3>2
  <2>3. QED
    BY <1>1, <2>2 DEF Reject, TypeOK
<1>2. CASE ReadOut
  <2>1. inbox \in Seq(Inbound)
    BY DEF TypeOK
  <2>2. inbox' \in Seq(Inbound) /\ pc' \in {"readout", "done"}
    BY <1>2, <2>1 DEF ReadOut
  <2>3. QED
    BY <1>2, <2>2 DEF ReadOut, TypeOK
<1>3. CASE Accept \/ ArmCloseDeadline \/ Joined
  BY <1>3 DEF Accept, ArmCloseDeadline, Joined, TypeOK
<1>4. CASE PeerClosed \/ PeerLost \/ KeepaliveExpires \/ CloseGraceExpires
  <2>0. inbox \in Seq(Inbound)
    BY DEF TypeOK
  <2>1. Break /\ inbox' \in Seq(Inbound)
    BY <1>4, <2>0 DEF PeerClosed, PeerLost, KeepaliveExpires, CloseGraceExpires
  <2>2. aborted' \in [Streams -> BOOLEAN]
    BY <2>1 DEF Break, AbortCurrent, TypeOK
  <2>3. QED
    BY <2>1, <2>2 DEF Break, TypeOK
<1>5. CASE DrainArm
  <2>1. todo \in Seq(Outbound)
    BY DEF TypeOK
  <2>2. todo' \in Seq(Outbound) /\ pc' \in {"select", "emit"} /\ draining' = TRUE
    BY <1>0, <1>5, <2>1, AnswerType DEF DrainArm
  <2>3. QED
    BY <1>5, <2>2 DEF DrainArm, TypeOK
<1>6. CASE Emit
  <2>1. todo # <<>> /\ todo \in Seq(Outbound) /\ Head(todo) \in Outbound
    BY <1>6 DEF Emit, ControlInv, TypeOK
  <2>2. outq' \in Seq(Outbound) /\ flushed' \in 0..Len(outq')
    BY <1>6, <2>1, SendType DEF Emit
  <2>3. todo' \in Seq(Outbound) /\ pc' \in {"emit", "join", "select"}
    BY <1>6, <2>1 DEF Emit
  <2>4. QED
    BY <1>6, <2>2, <2>3 DEF Emit, TypeOK
<1>7. CASE Feed
  <2>1. cur \in Streams
    BY <1>7 DEF Feed, ControlInv, TypeOK, Streams
  <2>0. req \in [Streams -> 0..ReqCap]
    BY DEF TypeOK
  <2>2. req' \in [Streams -> 0..ReqCap]
    <3>1. \/ req' = req
          \/ req[cur] < ReqCap /\ req' = [req EXCEPT ![cur] = @ + 1]
      BY <1>7 DEF Feed
    <3>2. QED
      BY <2>0, <2>1, <3>1, Sizes
  <2>3. QED
    BY <1>7, <2>2 DEF Feed, TypeOK
<1>8. QED
  BY <1>1, <1>2, <1>3, <1>4, <1>5, <1>6, <1>7 DEF LoopStep

(* And handle_frame.                                                       *)
LEMMA TypeFrame ==
    ASSUME TypeOK, FrameStep
    PROVE  TypeOK'
<1> USE DEF taskVars
<1>a. Fr("Reset", 0) \in Outbound /\ Fr("Close1000", 0) \in Outbound
  BY Sizes DEF Outbound, Fr, Kinds, CloseKinds, Terminal
<1>b. <<Fr("Reset", 0)>> \in Seq(Outbound) /\ reject_stream \in Seq(Outbound)
  BY <1>a, AnswerType DEF reject_stream
<1>0. PICK m \in ClientFrames, kind \in {"Drop", "Subscribe", "Message", "HalfClose", "Reset"} :
             Receive(m, kind)
  BY DEF FrameStep, DropFrame, DuplicateSubscribe, RejectSubscribe, Subscribe, RejectMessage,
         Message, HalfClose, Reset
<1>r. /\ pc = "select" /\ inbox' \in Seq(Inbound) /\ codec' \in CodecNames
      /\ opened' \in BOOLEAN
      /\ UNCHANGED <<nsent, peer, outq, flushed, writer, closed, draining, drain>>
  BY <1>0, ReceiveType
<1>1. CASE DropFrame \/ DuplicateSubscribe \/ RejectSubscribe \/ Message \/ HalfClose
  <2>1. UNCHANGED taskVars /\ cur' = cur
    BY <1>1 DEF DropFrame, DuplicateSubscribe, RejectSubscribe, Message, HalfClose
  <2>2. pc' \in {"select", "feed", "emit"}
    BY <1>1, <1>r DEF DropFrame, DuplicateSubscribe, RejectSubscribe, Message, HalfClose
  <2>3. todo' \in {todo, <<Fr("Reset", 0)>>, reject_stream} /\ sending' \in {sending, FALSE}
    BY <1>1 DEF DropFrame, DuplicateSubscribe, RejectSubscribe, Message, HalfClose
  <2>4. todo' \in Seq(Outbound) /\ sending' \in BOOLEAN
    BY <1>b, <2>3 DEF TypeOK
  <2>5. QED
    BY <1>r, <2>1, <2>2, <2>4 DEF TypeOK
<1>2. CASE Subscribe
  <2>1. nstreams + 1 \in Streams
    <3>1. nstreams < MaxStreams
      BY <1>2 DEF Subscribe
    <3>2. nstreams \in 0..MaxStreams
      BY DEF TypeOK
    <3>3. QED
      BY <3>1, <3>2, Sizes DEF Streams
  <2>2. PICK c \in ClientFrames, b \in BOOLEAN :
          /\ nstreams' = nstreams + 1 /\ cur' = nstreams + 1 /\ sending' = ~NoBody
          /\ req' = [req EXCEPT ![nstreams + 1] =
                       (IF c.data THEN 1 ELSE 0) + (IF NoBody THEN 1 ELSE 0)]
          /\ timed' = [timed EXCEPT ![nstreams + 1] = b]
          /\ tpc' = [tpc EXCEPT ![nstreams + 1] =
                       IF Lock(codec, c) = "json" THEN "resolve" ELSE "call"]
          /\ rx' = [rx EXCEPT ![nstreams + 1] = TRUE]
          /\ UNCHANGED <<pc, todo, aborted, fate>>
    BY <1>2 DEF Subscribe
  <2>a. /\ req \in [Streams -> 0..ReqCap] /\ rx \in [Streams -> BOOLEAN]
        /\ tpc \in [Streams -> TaskPcs] /\ timed \in [Streams -> BOOLEAN]
    BY DEF TypeOK
  <2>b. req' \in [Streams -> 0..ReqCap]
    BY <2>1, <2>2, <2>a, Sizes
  <2>c. tpc' \in [Streams -> TaskPcs]
    BY <2>1, <2>2, <2>a DEF TaskPcs, PumpPcs
  <2>d. rx' \in [Streams -> BOOLEAN] /\ timed' \in [Streams -> BOOLEAN]
    BY <2>1, <2>2, <2>a
  <2>3. nstreams' \in 0..MaxStreams /\ cur' \in 0..MaxStreams /\ sending' \in BOOLEAN
    BY <2>1, <2>2 DEF Streams
  <2>4. QED
    BY <1>r, <2>2, <2>3, <2>b, <2>c, <2>d DEF TypeOK
<1>3. CASE RejectMessage \/ Reset
  <2>1. aborted' \in [Streams -> BOOLEAN]
    BY <1>3 DEF RejectMessage, Reset, AbortCurrent, TypeOK
  <2>0. cur' = 0 /\ sending' = FALSE /\ UNCHANGED <<nstreams, tpc, timed, req, rx, fate>>
    BY <1>3 DEF RejectMessage, Reset
  <2>2. pc' \in {"select", "emit"} /\ todo' \in Seq(Outbound)
    BY <1>3, <1>b, <1>r DEF RejectMessage, Reset, TypeOK
  <2>3. cur' \in 0..MaxStreams
    BY <2>0, Sizes
  <2>4. QED
    BY <1>3, <1>r, <2>0, <2>1, <2>2, <2>3 DEF TypeOK
<1>4. QED
  BY <1>1, <1>2, <1>3 DEF FrameStep

(* What a step of run_stream can be, seen from outside: it moves its own   *)
(* program counter, and it queues at most one frame of its own.            *)
LEMMA TaskType ==
    ASSUME TypeOK, NEW s \in Streams, TaskStep(s)
    PROVE  TypeOK'
<1> USE DEF taskFrame, peerVars, sockVars, loopVars
<1>1. ASSUME NEW from \in TaskPcs, NEW to \in TaskPcs, NEW k \in Kinds,
             SendStep(s, from, k, to)
      PROVE  TypeOK'
  <2>1. Fr(k, s) \in Outbound
    BY DEF Outbound, Fr, Streams
  <2>2. outq' \in Seq(Outbound) /\ flushed' \in 0..Len(outq')
    BY <1>1, <2>1, SendType DEF SendStep
  <2>3. tpc' \in [Streams -> TaskPcs] /\ rx' \in [Streams -> BOOLEAN]
    BY <1>1 DEF SendStep, TypeOK
  <2>4. QED
    BY <1>1, <2>2, <2>3 DEF SendStep, TypeOK
<1>2. ASSUME NEW from \in TaskPcs, NEW to \in TaskPcs, Step(s, from, to),
             fate' \in [Streams -> {"none", "ok", "err", "cut"}]
      PROVE  TypeOK'
  BY <1>2 DEF Step, TypeOK
<1>3. CASE Resolve(s) \/ Call(s) \/ EncodeError(s) \/ BodyEnds(s)
  <2>1. fate' \in [Streams -> {"none", "ok", "err", "cut"}]
    BY <1>3 DEF Resolve, Call, EncodeError, BodyEnds, TypeOK
  <2>2. QED
    BY <1>2, <1>3, <2>1 DEF Resolve, Call, EncodeError, BodyEnds, TaskPcs, PumpPcs
<1>4. CASE Refuse(s) \/ SendHeader(s) \/ SendMessage(s) \/ Fail(s) \/ SendTrailer(s)
             \/ SendDeadline(s) \/ SendClose(s)
  BY <1>1, <1>4 DEF Refuse, SendHeader, SendMessage, Fail, SendTrailer, SendDeadline,
                    SendClose, read_status, TaskPcs, PumpPcs, Kinds, Terminal, CloseKinds
<1>5. CASE DeadlineExpires(s) \/ TaskCancelled(s)
  <2>1. tpc \in [Streams -> TaskPcs] /\ rx \in [Streams -> BOOLEAN]
    BY DEF TypeOK
  <2>2. tpc' \in [Streams -> TaskPcs] /\ rx' \in [Streams -> BOOLEAN]
    BY <1>5, <2>1 DEF DeadlineExpires, TaskCancelled, TaskPcs
  <2>3. QED
    BY <1>5, <2>2 DEF DeadlineExpires, TaskCancelled, TypeOK
<1>6. CASE BackendReads(s)
  <2>0. req \in [Streams -> 0..ReqCap]
    BY DEF TypeOK
  <2>1. req' \in [Streams -> 0..ReqCap]
    <3>1. req[s] > 0 /\ req' = [req EXCEPT ![s] = @ - 1]
      BY <1>6 DEF BackendReads
    <3>2. QED
      BY <2>0, <3>1, Sizes
  <2>2. QED
    BY <1>6, <2>1 DEF BackendReads, TypeOK
<1>7. CASE BackendDropsBody(s)
  BY <1>7 DEF BackendDropsBody, TypeOK
<1>8. QED
  BY <1>3, <1>4, <1>5, <1>6, <1>7 DEF TaskStep

-----------------------------------------------------------------------------
(* What the steps do to the parts of the state the invariant relates.      *)

LEMMA PairFacts ==
    ASSUME NEW x, NEW y
    PROVE  /\ Head(<<x>>) = x /\ Tail(<<x>>) = <<>> /\ <<x>> # <<>>
           /\ Head(<<x, y>>) = x /\ Tail(<<x, y>>) = <<y>> /\ <<x, y>> # <<>>
OBVIOUS

(* The answers the loop sends are told apart by their first frame.         *)
LEMMA AnswerFacts ==
    /\ \A k, l \in {"Reset", "Close1000", "Close1001"} :
         k # l => <<Fr(k, 0)>> # <<Fr(l, 0)>>
    /\ \A k \in {"Reset", "Close1000", "Close1001"} : <<Fr(k, 0)>> # reject_stream
    /\ \A k : Fr(k, 0).k = k /\ Fr(k, 0).t = 0
<1>1. \A k : Fr(k, 0).k = k /\ Fr(k, 0).t = 0
  BY DEF Fr
<1>2. ASSUME NEW k \in {"Reset", "Close1000", "Close1001"},
             NEW l \in {"Reset", "Close1000", "Close1001"}, k # l
      PROVE  <<Fr(k, 0)>> # <<Fr(l, 0)>>
  <2>1. Head(<<Fr(k, 0)>>) = Fr(k, 0) /\ Head(<<Fr(l, 0)>>) = Fr(l, 0)
    BY PairFacts
  <2>2. Fr(k, 0) # Fr(l, 0)
    BY <1>1, <1>2
  <2>3. QED
    BY <2>1, <2>2
<1>3. ASSUME NEW k \in {"Reset", "Close1000", "Close1001"}
      PROVE  <<Fr(k, 0)>> # reject_stream
  <2>1. Tail(<<Fr(k, 0)>>) = <<>> /\ Tail(reject_stream) # <<>>
    BY PairFacts DEF reject_stream
  <2>2. QED
    BY <2>1
<1>4. QED
  BY <1>1, <1>2, <1>3

(* The four ways the loop sends a frame of an answer.                      *)
LEMMA EmitCases ==
    ASSUME ControlInv, Emit
    PROVE  \/ /\ todo = reject_stream /\ Head(todo) = Fr("Reset", 0)
              /\ todo' = <<Fr("Close1000", 0)>> /\ pc' = "emit"
           \/ /\ todo = <<Fr("Reset", 0)>> /\ Head(todo) = Fr("Reset", 0)
              /\ todo' = <<>> /\ pc' = "select"
           \/ /\ todo = <<Fr("Close1000", 0)>> /\ Head(todo) = Fr("Close1000", 0)
              /\ todo' = <<>> /\ pc' = "select"
           \/ /\ todo = <<Fr("Close1001", 0)>> /\ Head(todo) = Fr("Close1001", 0)
              /\ todo' = <<>> /\ pc' = "join"
<1>1. todo # <<>> /\ todo' = Tail(todo)
  BY DEF ControlInv, Emit
<1>2. pc' = IF Tail(todo) # <<>> THEN "emit"
            ELSE IF Head(todo).k = "Close1001" THEN "join" ELSE "select"
  BY DEF Emit
<1>3. CASE todo = reject_stream
  BY <1>1, <1>2, <1>3, PairFacts DEF reject_stream
<1>4. CASE todo = <<Fr("Reset", 0)>>
  BY <1>1, <1>2, <1>4, PairFacts, AnswerFacts
<1>5. CASE todo = <<Fr("Close1000", 0)>>
  BY <1>1, <1>2, <1>5, PairFacts, AnswerFacts
<1>6. CASE todo = <<Fr("Close1001", 0)>>
  BY <1>1, <1>2, <1>6, PairFacts, AnswerFacts
<1>7. QED
  BY <1>1, <1>3, <1>4, <1>5, <1>6 DEF ControlInv

(* A step of run_stream, seen from outside.  It moves its own program      *)
(* counter; it queues a response frame before it closes, its status when   *)
(* it goes to close, and the close itself last; it goes to close without   *)
(* a status only when the writer has stopped.                              *)
Effect(s) ==
    \E to \in TaskPcs \ {"idle"} :
      /\ tpc[s] # "idle" /\ tpc' = [tpc EXCEPT ![s] = to]
      /\ UNCHANGED <<flushed, writer, pc, todo, cur, sending, nstreams, aborted>>
      /\ tpc[s] \in {"close", "done"} => to \in {"close", "done"}
      /\ \/ outq' = outq /\ (to = "close" => tpc[s] = "close" \/ writer = "done")
         \/ \E k \in Kinds \ {"Close1001", "Close4000"} :
              /\ outq' = Append(outq, Fr(k, s))
              /\ k \in Terminal <=> to = "close"
              /\ k = "Close1000" <=> tpc[s] = "close"
              /\ tpc[s] # "done" /\ writer # "done"

LEMMA TaskEffect ==
    ASSUME NEW s \in Streams, TypeOK, TaskStep(s)
    PROVE  Effect(s)
<1> USE DEF taskFrame, loopVars, Effect
<1>0. tpc[s] \in TaskPcs /\ tpc \in [Streams -> TaskPcs]
  BY DEF TypeOK
<1>1. ASSUME NEW from, NEW to \in TaskPcs \ {"idle"}, from # "idle",
             NEW k \in Kinds \ {"Close1001", "Close4000"}, SendStep(s, from, k, to),
             writer # "done" => /\ k \in Terminal <=> to = "close"
                                /\ k = "Close1000" <=> from = "close",
             from # "done", from = "close" => to = "done"
      PROVE  Effect(s)
  <2>1. /\ tpc[s] = from /\ tpc' = [tpc EXCEPT ![s] = to]
        /\ UNCHANGED <<flushed, writer, pc, todo, cur, sending, nstreams, aborted>>
    BY <1>1 DEF SendStep
  <2>2. \/ writer # "done" /\ outq' = Append(outq, Fr(k, s))
        \/ writer = "done" /\ outq' = outq
    BY <1>1, SendCases DEF SendStep
  <2>3. QED
    BY <1>1, <2>1, <2>2
<1>2. ASSUME NEW from, NEW to \in TaskPcs \ {"idle", "close"}, Step(s, from, to),
             from \notin {"idle", "close", "done"}
      PROVE  Effect(s)
  BY <1>2 DEF Step
<1>3. CASE Resolve(s) \/ Call(s) \/ EncodeError(s) \/ BodyEnds(s)
  BY <1>2, <1>3 DEF Resolve, Call, EncodeError, BodyEnds, TaskPcs, PumpPcs
<1>4. CASE Refuse(s) \/ Fail(s) \/ SendDeadline(s) \/ SendTrailer(s)
  BY <1>1, <1>4 DEF Refuse, Fail, SendDeadline, SendTrailer, read_status, TaskPcs, PumpPcs, Kinds,
                    Terminal, CloseKinds
<1>5. CASE SendHeader(s) \/ SendMessage(s)
  BY <1>1, <1>5 DEF SendHeader, SendMessage, TaskPcs, PumpPcs, Kinds, Terminal, CloseKinds
<1>6. CASE SendClose(s)
  BY <1>1, <1>6 DEF SendClose, TaskPcs, PumpPcs, Kinds, Terminal, CloseKinds
<1>7. CASE DeadlineExpires(s) \/ TaskCancelled(s)
  BY <1>7 DEF DeadlineExpires, TaskCancelled, TaskPcs, PumpPcs
<1>8. CASE BackendReads(s) \/ BackendDropsBody(s)
  <2>1. tpc[s] \in PumpPcs /\ tpc' = tpc /\ outq' = outq
    BY <1>8 DEF BackendReads, BackendDropsBody
  <2>2. tpc' = [tpc EXCEPT ![s] = tpc[s]]
    BY <1>0, <2>1
  <2>3. UNCHANGED <<flushed, writer, pc, todo, cur, sending, nstreams, aborted>>
    BY <1>8 DEF BackendReads, BackendDropsBody
  <2>4. QED
    BY <1>0, <2>1, <2>2, <2>3 DEF PumpPcs
<1>9. QED
  BY <1>3, <1>4, <1>5, <1>6, <1>7, <1>8 DEF TaskStep

(* The steps that are neither the loop's nor a task's leave all this alone. *)
LEMMA QuietEffect ==
    ASSUME PeerStep \/ DrainStarts \/ WriterStep
    PROVE  UNCHANGED <<outq, pc, todo, cur, sending, nstreams, tpc, aborted>>
BY DEF PeerStep, PeerSends, ConnectionLost, DrainStarts, WriterStep, WriterSends, WriterFails,
       WriterDrained, sockVars, loopVars, taskVars

(* The steps of the loop outside handle_frame and its answers.             *)
LEMMA LoopEffect ==
    ASSUME TypeOK, LoopStep, ~FrameStep, ~Emit, ~DrainArm
    PROVE  /\ UNCHANGED <<todo, cur, sending, nstreams, tpc>>
           /\ pc \notin {"emit"} /\ pc' \notin {"emit", "feed"}
           /\ aborted' = aborted \/ (AbortCurrent /\ pc = "select" /\ pc' = "join")
           /\ pc' \in {"select"} \/ pc \notin {"feed", "select"} \/ AbortCurrent
           /\ pc \in {"join", "done"} => pc' \in {"join", "done"}
           /\ UNCHANGED <<outq, flushed, writer>> \/ Reject
<1>1. CASE Reject \/ ReadOut \/ Accept \/ Joined
  BY <1>1 DEF Reject, ReadOut, Accept, Joined, sockVars, taskVars
<1>2. CASE ArmCloseDeadline \/ Feed
  BY <1>2 DEF ArmCloseDeadline, Feed, sockVars, taskVars, loopVars
<1>3. CASE PeerClosed \/ PeerLost \/ KeepaliveExpires \/ CloseGraceExpires
  BY <1>3 DEF PeerClosed, PeerLost, KeepaliveExpires, CloseGraceExpires, Break, sockVars
<1>4. QED
  BY <1>1, <1>2, <1>3 DEF LoopStep

(* handle_frame runs in select! and leaves the wire alone.                 *)
LEMMA FrameEffect ==
    ASSUME FrameStep
    PROVE  pc = "select" /\ UNCHANGED <<outq, flushed, writer>>
BY DEF FrameStep, DropFrame, DuplicateSubscribe, RejectSubscribe, Subscribe, RejectMessage,
       Message, HalfClose, Reset, Receive, sockVars

-----------------------------------------------------------------------------
(* The loop's control state.                                               *)

LEMMA ControlStep ==
    ASSUME TypeOK, ControlInv, [Next]_vars
    PROVE  ControlInv'
<1> USE DEF ControlInv
<1>0. cur \in Nat /\ nstreams \in Nat
  BY Sizes DEF TypeOK
<1>1. CASE UNCHANGED <<pc, todo, cur, sending, nstreams>>
  BY <1>1
<1>2. ASSUME NEW s \in Streams, TaskStep(s)
      PROVE  ControlInv'
  BY <1>1, <1>2, TaskEffect DEF Effect
<1>3. CASE LoopStep /\ ~FrameStep /\ ~Emit /\ ~DrainArm
  BY <1>3, LoopEffect
<1>4. CASE Emit
  <2>1. UNCHANGED <<cur, sending, nstreams>>
    BY <1>4 DEF Emit, taskVars
  <2>2. QED
    BY <1>4, <2>1, EmitCases, PairFacts
<1>5. CASE DrainArm
  BY <1>5, PairFacts DEF DrainArm, taskVars
<1>6. CASE FrameStep
  <2>0. pc = "select" /\ todo = <<>>
    BY <1>6, FrameEffect
  <2>1. CASE DropFrame \/ Message \/ HalfClose
    BY <2>0, <2>1 DEF DropFrame, Message, HalfClose, taskVars
  <2>2. CASE DuplicateSubscribe \/ RejectSubscribe
    BY <2>0, <2>2, PairFacts DEF DuplicateSubscribe, RejectSubscribe, taskVars, reject_stream
  <2>3. CASE Subscribe
    <3>1. cur' = nstreams + 1 /\ nstreams' = nstreams + 1 /\ UNCHANGED <<pc, todo>>
      BY <2>3 DEF Subscribe
    <3>2. QED
      BY <1>0, <2>0, <3>1
  <2>4. CASE RejectMessage \/ Reset
    <3>1. cur' = 0 /\ sending' = FALSE /\ nstreams' = nstreams
      BY <2>4 DEF RejectMessage, Reset
    <3>2. \/ UNCHANGED <<pc, todo>>
          \/ pc' = "emit" /\ todo' = reject_stream
      BY <2>4 DEF RejectMessage, Reset
    <3>3. QED
      BY <1>0, <2>0, <3>1, <3>2, PairFacts DEF reject_stream
  <2>5. QED
    BY <1>6, <2>1, <2>2, <2>3, <2>4 DEF FrameStep
<1>7. CASE UNCHANGED vars
  BY <1>1, <1>7 DEF vars, loopVars, taskVars
<1>8. QED
  BY <1>1, <1>2, <1>3, <1>4, <1>5, <1>6, <1>7, QuietEffect DEF Next

-----------------------------------------------------------------------------
(* Ownership of the streams.                                               *)

(* What a queued frame changes of the sequence of frames.                  *)
LEMMA AppendFacts ==
    ASSUME NEW f, outq \in Seq(Outbound), outq' = Append(outq, f)
    PROVE  /\ Len(outq) \in Nat /\ Len(outq') = Len(outq) + 1
           /\ outq'[Len(outq) + 1] = f
           /\ \A i \in 1..Len(outq) : outq'[i] = outq[i]
OBVIOUS

LEMMA RejectFacts ==
    ASSUME TypeOK, Reject
    PROVE  /\ pc = "gate" /\ pc' = "readout" /\ writer' = "done"
           /\ \/ UNCHANGED <<outq, flushed>>
              \/ flushed' = 1 /\ Len(outq') = 1 /\ outq'[1] = Fr("Close4000", 0)
<1>1. Len(<<Fr("Close4000", 0)>>) = 1 /\ <<Fr("Close4000", 0)>>[1] = Fr("Close4000", 0)
  OBVIOUS
<1>2. QED
  BY <1>1 DEF Reject

(* AbortCurrent leaves no stream un-aborted but those that were not ours.  *)
LEMMA AbortFacts ==
    ASSUME AbortCurrent
    PROVE  \A s \in Streams : aborted'[s] <=> aborted[s] \/ s = cur
BY DEF AbortCurrent

LEMMA OwnStep ==
    ASSUME TypeOK, ControlInv, OwnInv, [Next]_vars
    PROVE  OwnInv'
<1> DEFINE Own(s) == aborted[s] \/ (s = cur /\ pc \in {"select", "feed", "emit"})
           Gone(i) == outq[i].k = "Close1001" => pc \in {"join", "done"}
<1>0. /\ MaxStreams \in Nat /\ cur \in 0..MaxStreams /\ nstreams \in 0..MaxStreams
      /\ tpc \in [Streams -> TaskPcs] /\ outq \in Seq(Outbound)
      /\ aborted \in [Streams -> BOOLEAN]
  BY Sizes DEF TypeOK
<1>n. \A s \in 1..nstreams : s \in Streams
  BY <1>0 DEF Streams
<1>i. /\ \A s \in Streams : tpc[s] = "idle" <=> s > nstreams
      /\ \A s \in 1..nstreams : Own(s)
      /\ todo = <<Fr("Close1001", 0)>> => cur = 0
      /\ \A i \in 1..Len(outq) : Gone(i)
  BY DEF OwnInv
<1>1. CASE UNCHANGED <<outq, pc, todo, cur, nstreams, tpc, aborted>>
  BY <1>1 DEF OwnInv
<1>2. ASSUME NEW s \in Streams, TaskStep(s)
      PROVE  OwnInv'
  <2>0. Effect(s)
    BY <1>2, TaskEffect
  <2>1. tpc[s] # "idle" /\ UNCHANGED <<pc, todo, cur, nstreams, aborted>>
    BY <2>0 DEF Effect
  <2>2. \A t \in Streams : tpc'[t] = "idle" <=> tpc[t] = "idle"
    BY <1>0, <2>0 DEF Effect
  <2>3. \A i \in 1..Len(outq') : Gone(i)'
    <3>1. CASE outq' = outq
      BY <1>i, <2>1, <3>1
    <3>2. CASE outq' # outq
      <4>1. PICK k \in Kinds \ {"Close1001", "Close4000"} : outq' = Append(outq, Fr(k, s))
        BY <2>0, <3>2 DEF Effect
      <4>2. Fr(k, s).k # "Close1001"
        BY <4>1 DEF Fr
      <4>3. QED
        BY <1>0, <1>i, <2>1, <4>1, <4>2, AppendFacts
    <3>3. QED
      BY <3>1, <3>2
  <2>4. QED
    BY <1>i, <2>1, <2>2, <2>3 DEF OwnInv
<1>3. CASE LoopStep /\ ~FrameStep /\ ~Emit /\ ~DrainArm
  <2>1. UNCHANGED <<todo, cur, sending, nstreams, tpc>>
    BY <1>3, LoopEffect
  <2>2. \A s \in 1..nstreams : Own(s)'
    <3>1. CASE AbortCurrent
      BY <1>i, <1>n, <3>1, AbortFacts
    <3>2. CASE ~AbortCurrent
      <4>1. aborted' = aborted /\ (pc' = "select" \/ pc \notin {"feed", "select"}) /\ pc # "emit"
        BY <1>3, <3>2, LoopEffect
      <4>2. QED
        BY <1>i, <2>1, <4>1
    <3>3. QED
      BY <3>1, <3>2
  <2>3. \A i \in 1..Len(outq') : Gone(i)'
    <3>1. CASE Reject
      <4>1. pc = "gate" /\ Fr("Close4000", 0).k # "Close1001"
        BY <3>1, RejectFacts DEF Fr
      <4>2. QED
        BY <1>i, <3>1, <4>1, RejectFacts
    <3>2. CASE ~Reject
      BY <1>3, <1>i, <3>2, LoopEffect
    <3>3. QED
      BY <3>1, <3>2
  <2>4. QED
    BY <1>i, <2>1, <2>2, <2>3 DEF OwnInv
<1>4. CASE Emit
  <2>1. UNCHANGED <<cur, nstreams, tpc, aborted>> /\ pc = "emit"
    BY <1>4 DEF Emit, taskVars
  <2>2. \A s \in 1..nstreams : Own(s)'
    BY <1>0, <1>4, <1>i, <2>1, EmitCases
  <2>3. todo' # <<Fr("Close1001", 0)>>
    BY <1>4, EmitCases, AnswerFacts, PairFacts
  <2>4. outq' = outq \/ outq' = Append(outq, Head(todo))
    BY <1>4, SendCases DEF Emit
  <2>5. pc' \in {"join", "done"} \/ Head(todo).k # "Close1001"
    BY <1>4, EmitCases, AnswerFacts
  <2>6. \A i \in 1..Len(outq') : Gone(i)'
    <3>1. \A i \in 1..Len(outq) : outq[i].k # "Close1001"
      BY <1>i, <2>1
    <3>2. QED
      BY <1>0, <2>4, <2>5, <3>1, AppendFacts
  <2>7. QED
    BY <1>i, <2>1, <2>2, <2>3, <2>6 DEF OwnInv
<1>5. CASE DrainArm
  <2>1. UNCHANGED <<cur, nstreams, tpc, aborted, outq>> /\ pc = "select"
    BY <1>5 DEF DrainArm, taskVars, sockVars
  <2>2. UNCHANGED <<pc, todo>> \/ (pc' = "emit" /\ cur = 0)
    BY <1>5 DEF DrainArm
  <2>3. QED
    BY <1>i, <2>1, <2>2 DEF OwnInv
<1>6. CASE FrameStep
  <2>0. pc = "select" /\ todo = <<>> /\ outq' = outq
    BY <1>6, FrameEffect DEF ControlInv
  <2>a. \A i \in 1..Len(outq) : outq[i].k # "Close1001"
    BY <1>i, <2>0
  <2>1. CASE DropFrame \/ Message \/ HalfClose \/ DuplicateSubscribe \/ RejectSubscribe
    <3>1. UNCHANGED <<cur, nstreams, tpc, aborted>> /\ pc' \in {"select", "feed", "emit"}
      BY <2>0, <2>1 DEF DropFrame, Message, HalfClose, DuplicateSubscribe, RejectSubscribe,
                        taskVars
    <3>2. todo' \in {<<>>, <<Fr("Reset", 0)>>, reject_stream}
      BY <2>0, <2>1 DEF DropFrame, Message, HalfClose, DuplicateSubscribe, RejectSubscribe
    <3>3. todo' # <<Fr("Close1001", 0)>>
      BY <3>2, AnswerFacts, PairFacts
    <3>4. QED
      BY <1>i, <2>0, <2>a, <3>1, <3>3 DEF OwnInv
  <2>2. CASE Subscribe
    <3>1. /\ cur = 0 /\ cur' = nstreams + 1 /\ nstreams' = nstreams + 1 /\ nstreams < MaxStreams
          /\ UNCHANGED <<pc, todo, aborted>>
      BY <2>2 DEF Subscribe
    <3>2. PICK k \in {"resolve", "call"} : tpc' = [tpc EXCEPT ![nstreams + 1] = k]
      BY <2>2 DEF Subscribe
    <3>3. \A s \in Streams : tpc'[s] = "idle" <=> s > nstreams'
      <4>1. nstreams + 1 \in Streams /\ \A s \in Streams : s \in Nat
        BY <1>0, <3>1 DEF Streams
      <4>2. \A s \in Streams : tpc'[s] = IF s = nstreams + 1 THEN k ELSE tpc[s]
        BY <1>0, <3>2, <4>1
      <4>3. QED
        BY <1>0, <1>i, <3>1, <4>1, <4>2
    <3>4. \A s \in 1..nstreams' : Own(s)'
      BY <1>0, <1>i, <2>0, <3>1
    <3>5. todo' # <<Fr("Close1001", 0)>>
      BY <2>0, <3>1, PairFacts
    <3>6. QED
      BY <2>0, <2>a, <3>3, <3>4, <3>5 DEF OwnInv
  <2>3. CASE RejectMessage \/ Reset
    <3>1. cur' = 0 /\ AbortCurrent /\ UNCHANGED <<nstreams, tpc>>
      BY <2>3 DEF RejectMessage, Reset
    <3>2. \A s \in 1..nstreams : aborted'[s]
      BY <1>i, <1>n, <3>1, AbortFacts
    <3>3. todo' \in {<<>>, reject_stream}
      BY <2>0, <2>3 DEF RejectMessage, Reset
    <3>4. todo' # <<Fr("Close1001", 0)>>
      BY <3>3, AnswerFacts, PairFacts
    <3>5. QED
      BY <1>i, <2>0, <2>a, <3>1, <3>2, <3>4 DEF OwnInv
  <2>4. QED
    BY <1>6, <2>1, <2>2, <2>3 DEF FrameStep
<1>7. CASE UNCHANGED vars
  BY <1>1, <1>7 DEF vars, loopVars, taskVars, sockVars
<1>8. QED
  BY <1>1, <1>2, <1>3, <1>4, <1>5, <1>6, <1>7, QuietEffect DEF Next

-----------------------------------------------------------------------------
(* The frames on the wire.                                                 *)

WireFacts == WireInv /\ StatusBeforeClose /\ OneTerminalPerStream

(* A stream has its status queued when it had it, or when it queues it now. *)
LEMMA StatusAppend ==
    ASSUME NEW f, outq \in Seq(Outbound), outq' = Append(outq, f)
    PROVE  \A s : HasStatus(s)' <=> HasStatus(s) \/ (f.t = s /\ f.k \in Terminal)
BY AppendFacts DEF HasStatus

(* Queueing a frame keeps the two properties of the sequence of frames when *)
(* a close follows its status and nothing but a close follows a status.    *)
LEMMA QueueFrame ==
    ASSUME NEW f, outq \in Seq(Outbound), outq' = Append(outq, f),
           StatusBeforeClose, OneTerminalPerStream,
           f.k = "Close1000" => HasStatus(f.t),
           f.t # 0 /\ HasStatus(f.t) => f.k = "Close1000"
    PROVE  StatusBeforeClose' /\ OneTerminalPerStream'
<1>0. /\ Len(outq) \in Nat /\ Len(outq') = Len(outq) + 1 /\ outq'[Len(outq) + 1] = f
      /\ \A i \in 1..Len(outq) : outq'[i] = outq[i]
  BY AppendFacts
<1>1. StatusBeforeClose'
  <2>1. SUFFICES ASSUME NEW i \in 1..Len(outq'), outq'[i].k = "Close1000"
                 PROVE  \E j \in 1..(i - 1) : outq'[j].t = outq'[i].t /\ outq'[j].k \in Terminal
    BY DEF StatusBeforeClose
  <2>2. CASE i \in 1..Len(outq)
    <3>1. PICK j \in 1..(i - 1) : outq[j].t = outq[i].t /\ outq[j].k \in Terminal
      BY <1>0, <2>1, <2>2 DEF StatusBeforeClose
    <3>2. j \in 1..Len(outq)
      BY <1>0, <2>2, <3>1
    <3>3. QED
      BY <1>0, <2>2, <3>1, <3>2
  <2>3. CASE i = Len(outq) + 1
    <3>1. PICK j \in 1..Len(outq) : outq[j].t = f.t /\ outq[j].k \in Terminal
      BY <1>0, <2>1, <2>3 DEF HasStatus
    <3>2. QED
      BY <1>0, <2>3, <3>1
  <2>4. QED
    BY <1>0, <2>2, <2>3
<1>2. OneTerminalPerStream'
  <2>1. SUFFICES ASSUME NEW i \in 1..Len(outq'), NEW j \in 1..Len(outq'), i < j,
                        outq'[i].t = outq'[j].t, outq'[i].t # 0, outq'[i].k \in Terminal
                 PROVE  outq'[j].k = "Close1000"
    BY DEF OneTerminalPerStream
  <2>2. i \in 1..Len(outq)
    BY <1>0, <2>1
  <2>3. CASE j \in 1..Len(outq)
    BY <1>0, <2>1, <2>2, <2>3 DEF OneTerminalPerStream
  <2>4. CASE j = Len(outq) + 1
    BY <1>0, <2>1, <2>2, <2>4 DEF HasStatus
  <2>5. QED
    BY <1>0, <2>3, <2>4
<1>3. QED
  BY <1>1, <1>2

(* What is on the wire does not change by queueing.                        *)
LEMMA FlushedFacts ==
    ASSUME TypeOK, WireInv, NEW f, outq' = Append(outq, f), UNCHANGED <<flushed, writer>>
    PROVE  \A i \in 1..flushed' : IsClose(outq'[i]) => i = flushed' /\ writer' = "done"
<1>1. outq \in Seq(Outbound) /\ flushed \in 0..Len(outq)
  BY DEF TypeOK
<1>2. \A i \in 1..flushed : outq'[i] = outq[i]
  BY <1>1, AppendFacts
<1>3. QED
  BY <1>2 DEF WireInv, IsClose

LEMMA WireTask ==
    ASSUME TypeOK, OwnInv, WireFacts, NEW s \in Streams, TaskStep(s)
    PROVE  WireFacts'
<1>0. Effect(s)
  BY TaskEffect
<1>1. PICK to \in TaskPcs \ {"idle"} :
        /\ tpc[s] # "idle" /\ tpc' = [tpc EXCEPT ![s] = to]
        /\ UNCHANGED <<flushed, writer, pc, todo, cur, sending, nstreams, aborted>>
        /\ tpc[s] \in {"close", "done"} => to \in {"close", "done"}
        /\ \/ outq' = outq /\ (to = "close" => tpc[s] = "close" \/ writer = "done")
           \/ \E k \in Kinds \ {"Close1001", "Close4000"} :
                /\ outq' = Append(outq, Fr(k, s))
                /\ k \in Terminal <=> to = "close"
                /\ k = "Close1000" <=> tpc[s] = "close"
                /\ tpc[s] # "done" /\ writer # "done"
  BY <1>0 DEF Effect
<1>2. tpc \in [Streams -> TaskPcs] /\ outq \in Seq(Outbound)
  BY DEF TypeOK
<1>3. \A t \in Streams : tpc'[t] = IF t = s THEN to ELSE tpc[t]
  BY <1>1, <1>2
<1>4. CASE outq' = outq /\ (to = "close" => tpc[s] = "close" \/ writer = "done")
  <2>1. \A t : HasStatus(t)' <=> HasStatus(t)
    BY <1>4 DEF HasStatus
  <2>2. WireInv'
    BY <1>1, <1>3, <1>4, <2>1 DEF WireInv, WireFacts
  <2>3. QED
    BY <1>4, <2>2 DEF WireFacts, StatusBeforeClose, OneTerminalPerStream
<1>5. ASSUME NEW k \in Kinds, outq' = Append(outq, Fr(k, s)),
             k \in Terminal <=> to = "close", k = "Close1000" <=> tpc[s] = "close",
             tpc[s] # "done", writer # "done"
      PROVE  WireFacts'
  <2>0. Fr(k, s).k = k /\ Fr(k, s).t = s
    BY DEF Fr
  <2>1. \A t : HasStatus(t)' <=> HasStatus(t) \/ (t = s /\ k \in Terminal)
    BY <1>2, <1>5, <2>0, StatusAppend
  <2>2. HasStatus(s) <=> tpc[s] = "close"
    BY <1>5 DEF WireFacts, WireInv
  <2>3. StatusBeforeClose' /\ OneTerminalPerStream'
    BY <1>2, <1>5, <2>0, <2>2, QueueFrame DEF WireFacts
  <2>4. \A i \in 1..flushed' : IsClose(outq'[i]) => i = flushed' /\ writer' = "done"
    BY <1>1, <1>5, FlushedFacts DEF WireFacts
  <2>5. \A t \in Streams : HasStatus(t)' => tpc'[t] \in {"close", "done"}
    BY <1>1, <1>3, <1>5, <2>1 DEF WireFacts, WireInv
  <2>6. \A t \in Streams : tpc'[t] = "close" => writer' = "done" \/ HasStatus(t)'
    BY <1>1, <1>3, <1>5, <2>1 DEF WireFacts, WireInv
  <2>7. todo' = <<Fr("Close1000", 0)>> => writer' = "done" \/ HasStatus(0)'
    BY <1>1, <2>1 DEF WireFacts, WireInv
  <2>8. QED
    BY <2>3, <2>4, <2>5, <2>6, <2>7 DEF WireFacts, WireInv
<1>6. QED
  BY <1>1, <1>4, <1>5

LEMMA WireStep ==
    ASSUME TypeOK, ControlInv, OwnInv, WireFacts, [Next]_vars
    PROVE  WireFacts'
<1>0. /\ flushed \in 0..Len(outq) /\ outq \in Seq(Outbound) /\ tpc \in [Streams -> TaskPcs]
      /\ Len(outq) \in Nat /\ nstreams \in Nat
  BY Sizes DEF TypeOK
<1>1. CASE UNCHANGED <<outq, flushed, writer, todo, tpc>>
  BY <1>1 DEF WireFacts, WireInv, HasStatus, StatusBeforeClose, OneTerminalPerStream
<1>2. CASE WriterStep
  <2>1. UNCHANGED <<outq, todo, tpc>> /\ writer = "run"
    BY <1>2 DEF WriterStep, WriterSends, WriterFails, WriterDrained, loopVars, taskVars
  <2>2. \A i \in 1..flushed' : IsClose(outq[i]) => i = flushed' /\ writer' = "done"
    <3>1. CASE WriterSends
      <4>1. flushed' = flushed + 1 /\ (IsClose(outq[flushed + 1]) => writer' = "done")
        BY <3>1 DEF WriterSends
      <4>2. \A i \in 1..flushed : ~IsClose(outq[i])
        BY <2>1 DEF WireFacts, WireInv
      <4>3. QED
        BY <1>0, <4>1, <4>2
    <3>2. CASE WriterFails \/ WriterDrained
      BY <3>2 DEF WireFacts, WireInv, WriterFails, WriterDrained
    <3>3. QED
      BY <1>2, <3>1, <3>2 DEF WriterStep
  <2>3. \A t : HasStatus(t)' <=> HasStatus(t)
    BY <2>1 DEF HasStatus
  <2>4. WireInv'
    BY <2>1, <2>2, <2>3 DEF WireFacts, WireInv
  <2>5. QED
    BY <2>1, <2>4 DEF WireFacts, StatusBeforeClose, OneTerminalPerStream
<1>3. CASE LoopStep /\ ~FrameStep /\ ~Emit /\ ~DrainArm
  <2>1. CASE UNCHANGED <<outq, flushed, writer>>
    BY <1>1, <1>3, <2>1, LoopEffect
  <2>2. CASE Reject /\ UNCHANGED <<outq, flushed>>
    <3>1. writer' = "done" /\ UNCHANGED <<todo, tpc>>
      BY <2>2, <1>3, LoopEffect, RejectFacts
    <3>2. QED
      BY <2>2, <3>1 DEF WireFacts, WireInv, HasStatus, StatusBeforeClose, OneTerminalPerStream
  <2>3. CASE Reject /\ flushed' = 1 /\ Len(outq') = 1 /\ outq'[1] = Fr("Close4000", 0)
    <3>1. writer' = "done" /\ UNCHANGED <<todo, tpc>>
      BY <2>3, <1>3, LoopEffect, RejectFacts
    <3>2. outq'[1].k = "Close4000" /\ "Close4000" \notin Terminal
      BY <2>3 DEF Fr, Terminal
    <3>3. \A i \in 1..Len(outq') : i = 1
      BY <2>3
    <3>4. \A t : ~HasStatus(t)'
      BY <3>2, <3>3 DEF HasStatus
    <3>5. WireInv'
      BY <2>3, <3>1, <3>3, <3>4 DEF WireInv
    <3>6. StatusBeforeClose' /\ OneTerminalPerStream'
      BY <3>2, <3>3 DEF StatusBeforeClose, OneTerminalPerStream
    <3>7. QED
      BY <3>5, <3>6 DEF WireFacts
  <2>4. QED
    BY <1>3, <2>1, <2>2, <2>3, LoopEffect, RejectFacts
<1>4. CASE Emit
  <2>1. UNCHANGED <<flushed, writer, tpc>>
    BY <1>4 DEF Emit, taskVars
  <2>2. \/ writer # "done" /\ outq' = Append(outq, Head(todo))
        \/ writer = "done" /\ outq' = outq
    BY <1>4, SendCases DEF Emit
  <2>3. CASE writer = "done" /\ outq' = outq
    BY <2>1, <2>3 DEF WireFacts, WireInv, HasStatus, StatusBeforeClose, OneTerminalPerStream
  <2>4. CASE writer # "done" /\ outq' = Append(outq, Head(todo))
    <3>1. Head(todo).t = 0 /\ (Head(todo).k = "Close1000" => HasStatus(0))
      BY <1>4, <2>4, EmitCases, AnswerFacts DEF WireFacts, WireInv
    <3>2. StatusBeforeClose' /\ OneTerminalPerStream'
      BY <1>0, <2>4, <3>1, QueueFrame DEF WireFacts
    <3>3. \A i \in 1..flushed' : IsClose(outq'[i]) => i = flushed' /\ writer' = "done"
      BY <2>1, <2>4, FlushedFacts DEF WireFacts
    <3>4. \A t : HasStatus(t)' <=> HasStatus(t) \/ (t = 0 /\ Head(todo).k \in Terminal)
      BY <1>0, <2>4, <3>1, StatusAppend
    <3>5. todo' = <<Fr("Close1000", 0)>> => HasStatus(0)'
      <4>1. todo' = <<Fr("Close1000", 0)>> => Head(todo).k = "Reset"
        BY <1>4, EmitCases, PairFacts, AnswerFacts
      <4>2. QED
        BY <3>4, <4>1 DEF Terminal
    <3>6. \A t \in Streams : t # 0
      BY DEF Streams
    <3>7. QED
      BY <2>1, <3>2, <3>3, <3>4, <3>5, <3>6 DEF WireFacts, WireInv
  <2>5. QED
    BY <2>2, <2>3, <2>4
<1>5. CASE DrainArm
  <2>1. UNCHANGED <<outq, flushed, writer, tpc>> /\ todo' \in {todo, <<Fr("Close1001", 0)>>}
    BY <1>5 DEF DrainArm, sockVars, taskVars
  <2>2. todo' = <<Fr("Close1000", 0)>> => todo = <<Fr("Close1000", 0)>>
    BY <2>1, AnswerFacts
  <2>3. QED
    BY <2>1, <2>2 DEF WireFacts, WireInv, HasStatus, StatusBeforeClose, OneTerminalPerStream
<1>6. CASE FrameStep
  <2>0. pc = "select" /\ todo = <<>> /\ UNCHANGED <<outq, flushed, writer>>
    BY <1>6, FrameEffect DEF ControlInv
  <2>1. todo' \in {todo, <<Fr("Reset", 0)>>, reject_stream}
    BY <1>6 DEF FrameStep, DropFrame, Message, HalfClose, DuplicateSubscribe, RejectSubscribe,
                Subscribe, RejectMessage, Reset
  <2>2. todo' # <<Fr("Close1000", 0)>>
    BY <2>0, <2>1, AnswerFacts, PairFacts
  <2>3. CASE tpc' = tpc
    BY <2>0, <2>2, <2>3 DEF WireFacts, WireInv, HasStatus, StatusBeforeClose,
                            OneTerminalPerStream
  <2>4. CASE Subscribe
    <3>1. PICK k \in {"resolve", "call"} : tpc' = [tpc EXCEPT ![nstreams + 1] = k]
      BY <2>4 DEF Subscribe
    <3>2. \A t \in Streams : tpc'[t] = IF t = nstreams + 1 THEN k ELSE tpc[t]
      BY <1>0, <3>1
    <3>3. ASSUME nstreams + 1 \in Streams
          PROVE  tpc[nstreams + 1] = "idle"
      BY <1>0, <3>3 DEF OwnInv
    <3>4. nstreams + 1 \in Streams => ~HasStatus(nstreams + 1)
      BY <3>3 DEF WireFacts, WireInv
    <3>5. \A t : HasStatus(t)' <=> HasStatus(t)
      BY <2>0 DEF HasStatus
    <3>6. WireInv'
      BY <2>0, <2>2, <3>2, <3>4, <3>5 DEF WireFacts, WireInv
    <3>7. QED
      BY <2>0, <3>6 DEF WireFacts, StatusBeforeClose, OneTerminalPerStream
  <2>5. QED
    BY <1>6, <2>3, <2>4 DEF FrameStep, DropFrame, Message, HalfClose, DuplicateSubscribe,
                            RejectSubscribe, RejectMessage, Reset, taskVars
<1>7. CASE PeerStep \/ DrainStarts \/ UNCHANGED vars
  BY <1>1, <1>7 DEF PeerStep, PeerSends, ConnectionLost, DrainStarts, vars, sockVars, loopVars,
                    taskVars
<1>8. QED
  BY <1>2, <1>3, <1>4, <1>5, <1>6, <1>7, WireTask DEF Next

-----------------------------------------------------------------------------
(* The theorems.                                                           *)

LEMMA InitInv == Init => IInv
<1> SUFFICES ASSUME Init PROVE IInv
  OBVIOUS
<1>1. TypeOK
  <2>1. inbox \in Seq(Inbound) /\ outq \in Seq(Outbound) /\ todo \in Seq(Outbound)
    BY DEF Init
  <2>2. /\ nsent \in 0..MaxFrames /\ cur \in 0..MaxStreams /\ nstreams \in 0..MaxStreams
        /\ flushed \in 0..Len(outq) /\ req \in [Streams -> 0..ReqCap]
    BY Sizes DEF Init
  <2>3. /\ codec \in CodecNames /\ {opened, sending, draining, drain} \subseteq BOOLEAN
        /\ pc = "gate" /\ peer = "up" /\ writer = "run" /\ closed = "no"
    BY CodecsAssumption DEF Init
  <2>4. /\ tpc \in [Streams -> TaskPcs] /\ aborted \in [Streams -> BOOLEAN]
        /\ timed \in [Streams -> BOOLEAN] /\ rx \in [Streams -> BOOLEAN]
        /\ fate \in [Streams -> {"none", "ok", "err", "cut"}]
    BY DEF Init, TaskPcs
  <2>5. QED
    BY <2>1, <2>2, <2>3, <2>4 DEF TypeOK
<1>2. Len(outq) = 0 /\ nstreams = 0 /\ flushed = 0 /\ todo = <<>>
  BY DEF Init
<1>3. ControlInv
  BY <1>2 DEF Init, ControlInv
<1>4. OwnInv
  <2>1. \A s \in Streams : tpc[s] = "idle" /\ s > 0
    BY DEF Init, Streams
  <2>2. todo # <<Fr("Close1001", 0)>>
    BY <1>2, PairFacts
  <2>3. QED
    BY <1>2, <2>1, <2>2 DEF OwnInv
<1>5. WireInv
  <2>1. \A s \in Streams : tpc[s] = "idle"
    BY DEF Init
  <2>2. \A t : ~HasStatus(t)
    BY <1>2 DEF HasStatus
  <2>3. todo # <<Fr("Close1000", 0)>>
    BY <1>2, PairFacts
  <2>4. QED
    BY <1>2, <2>1, <2>2, <2>3 DEF WireInv
<1>6. StatusBeforeClose /\ OneTerminalPerStream
  BY <1>2 DEF StatusBeforeClose, OneTerminalPerStream
<1>7. QED
  BY <1>1, <1>3, <1>4, <1>5, <1>6 DEF IInv

(* The inductive invariant: types, the loop's control, ownership and wire. *)
THEOREM Inductive == Spec => []IInv
<1>1. IInv /\ [Next]_vars => IInv'
  <2> SUFFICES ASSUME IInv, [Next]_vars PROVE IInv'
    OBVIOUS
  <2>1. TypeOK /\ ControlInv /\ OwnInv /\ WireFacts
    BY DEF IInv, WireFacts
  <2>2. TypeOK'
    <3>1. CASE UNCHANGED vars
      <4>1. UNCHANGED <<peerVars, sockVars, loopVars, drain, taskVars>>
        BY <3>1 DEF vars
      <4>2. QED
        BY <2>1, <4>1 DEF peerVars, sockVars, loopVars, taskVars, TypeOK
    <3>2. QED
      BY <2>1, <3>1, TypeEnvironment, TypeLoop, TypeFrame, TaskType DEF Next
  <2>3. QED
    BY <2>1, <2>2, ControlStep, OwnStep, WireStep DEF IInv, WireFacts
<1>2. QED
  BY <1>1, InitInv, PTL DEF Spec

(* Every variable keeps its type; the request channels stay within their   *)
(* capacity.                                                               *)
THEOREM Types == Spec => []TypeOK
<1>1. IInv => TypeOK
  BY DEF IInv
<1>2. QED
  BY <1>1, Inductive, PTL

(* The writer puts nothing on the socket after a close frame; run_stream   *)
(* queues a status before its close, and nothing but the close after it.   *)
THEOREM WireInOrder == Spec => []WireWellFormed
<1>1. IInv => WireWellFormed
  BY DEF IInv, WireInv, NothingAfterClose, WireWellFormed
<1>2. QED
  BY <1>1, Inductive, PTL

(* A running task that was not aborted is the loop's current stream.       *)
THEOREM NoOrphanTask == Spec => []LiveTaskIsCurrent
<1>1. IInv => LiveTaskIsCurrent
  <2> SUFFICES ASSUME IInv, NEW s \in Streams, tpc[s] \notin {"idle", "done"}, ~aborted[s]
               PROVE  cur = s /\ pc \in {"select", "feed", "emit"}
    BY DEF LiveTaskIsCurrent
  <2>0. OwnInv /\ nstreams \in 0..MaxStreams
    BY DEF IInv, TypeOK
  <2>1. s \in 1..nstreams
    BY <2>0, Sizes DEF OwnInv, Streams
  <2>2. QED
    BY <2>1 DEF IInv, OwnInv
<1>2. QED
  BY <1>1, Inductive, PTL

(* The drain's going-away close ends only sockets without a live stream.   *)
THEOREM GoingAwayIsIdle == Spec => []GoingAwayOnlyIdle
<1>1. IInv => GoingAwayOnlyIdle
  BY DEF IInv, OwnInv, GoingAwayOnlyIdle
<1>2. QED
  BY <1>1, Inductive, PTL
=============================================================================
