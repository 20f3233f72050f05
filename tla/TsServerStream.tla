--------------------------- MODULE TsServerStream ---------------------------
(***************************************************************************)
(* One server-streaming call of the TypeScript client, from the transport  *)
(* to the application: `Client.makeServerStreamRequest` with its retries   *)
(* and its commit rule (node/packages/client/src/client.ts), the stream    *)
(* object the application reads, `ClientReadableStream` (call.ts), and the *)
(* two transports under it: the reading loop of `H2tsTransport.startStream`*)
(* (h2ts-transport.ts), which stops reading while the consumer is behind,  *)
(* and `SingleStreamConn` (ws-transport.ts), which cannot.                 *)
(*                                                                         *)
(* An action is what JavaScript runs between two awaits.  The application  *)
(* either has a `data` listener (flowing) or iterates (`for await`), and   *)
(* may pause, resume, cancel and abort at any time; the listener may pause *)
(* and resume while resume() is calling it.  The server and the network    *)
(* are external: headers, messages, trailers and failures arrive as they   *)
(* like, in HTTP/2 order.                                                  *)
(***************************************************************************)
EXTENDS Integers, Sequences, SequencesExt

CONSTANTS
  Policy,         \* TRUE when the client was built with `retry`
  MaxAttempts,    \* policy.maxAttempts
  MaxMessages,    \* bound: response messages of one attempt
  HighWaterMark,  \* readableHighWaterMark
  MaxNesting,     \* bound: calls of resume() from inside one another
  Retryable       \* policy.retryableStatusCodes

ASSUME StreamAssumption ==
  /\ Policy \in BOOLEAN /\ MaxAttempts \in Nat \ {0}
  /\ MaxMessages \in Nat /\ HighWaterMark \in Nat \ {0} /\ MaxNesting \in Nat
  /\ Retryable \subseteq {"unavailable", "unknown", "failed"}

VARIABLES
  kind,           \* the transport: "h2ts" or "ws"
  mode,           \* the application: "flowing" or "iterating"
  io,             \* where the transport's current attempt is
  received,       \* messages of the current attempt handed to onMessage
  signalled,      \* h2ts: controller.signal.aborted of the current attempt
  attempt, committed, headers, status,   \* makeServerStreamRequest's locals
  ctx,            \* why ctx.signal was aborted, "no" while it is not
  queue, ended, paused, waiter, ready,   \* ClientReadableStream's fields
  seen,           \* ghost: what the application was given, in order
  nested          \* ghost: resume() was called while resume() ran

callVars == <<attempt, committed, headers, status>>
streamVars == <<queue, ended, paused, waiter, ready, seen, nested>>
vars == <<kind, mode, io, received, signalled, attempt, committed, headers,
          status, ctx, queue, ended, paused, waiter, ready, seen, nested>>

-----------------------------------------------------------------------------
(* call.ts: ClientReadableStream *)

data(m) == <<"data", attempt, m>>

(* deliver(m), with events the application was given before it.  A message *)
(* goes to the listener or to the waiting iterator, else it queues; TRUE   *)
(* in ready' is the promise a transport may wait for.                      *)
deliver(m, before) ==
  IF ~paused /\ (mode = "flowing" \/ waiter)
  THEN /\ seen' = before \o <<data(m)>>
       /\ waiter' = FALSE
       /\ UNCHANGED <<queue, ready, ended, paused, nested>>
  ELSE /\ queue' = Append(queue, data(m))
       /\ ready' = (ready \/ paused \/ Len(queue') >= HighWaterMark)
       /\ seen' = before
       /\ UNCHANGED <<waiter, ended, paused, nested>>

(* release(): whether parked deliveries are let go, for a queue and a      *)
(* pause flag                                                              *)
released(q, p) == ~p /\ Len(q) < HighWaterMark

Pause ==
  /\ ~paused
  /\ paused' = TRUE
  /\ UNCHANGED <<kind, mode, io, received, signalled, callVars, ctx, queue, ended,
                 waiter, ready, seen, nested>>

(* What the listener may do with the message at the head of q: nothing,    *)
(* pause, or pause and resume, which flushes q from inside the flush.      *)
(* Flushes(q, n) are the outcomes of that loop: the first message is given *)
(* and only then shifted off the queue, whatever the listener has left of  *)
(* it, until the queue is empty or the stream paused.                      *)
RECURSIVE Flushes(_, _)
Listens(q, n) ==
  {[given |-> <<>>, left |-> q, paused |-> p, nested |-> FALSE] : p \in BOOLEAN}
    \cup IF n = 0 THEN {} ELSE {[f EXCEPT !.nested = TRUE] : f \in Flushes(q, n - 1)}
Flushes(q, n) ==
  IF q = <<>> THEN {[given |-> <<>>, left |-> <<>>, paused |-> FALSE, nested |-> FALSE]}
  ELSE UNION {
    LET given == <<Head(q)>> \o l.given
        left == IF l.left = <<>> THEN <<>> ELSE Tail(l.left)
    IN  IF l.paused THEN {[l EXCEPT !.given = given, !.left = left]}
        ELSE {[f EXCEPT !.given = given \o f.given, !.nested = f.nested \/ l.nested] :
                f \in Flushes(left, n)}
    : l \in Listens(q, n)}

(* Mutation: resume flushes and forgets the parked transport.              *)
ResumeNoRelease ==
  /\ paused
  /\ mode = "flowing"
  /\ paused' = FALSE
  /\ queue' = <<>> /\ seen' = seen \o queue
  /\ UNCHANGED <<ready, waiter, kind, mode, io, received, signalled, callVars, ctx,
                 ended, nested>>

(* resume(): the backlog goes to the listener, which may pause again, or   *)
(* its first message to the waiting iterator.                              *)
Resume ==
  /\ paused
  /\ \/ /\ mode = "flowing"
        /\ \E f \in Flushes(queue, MaxNesting) :
             /\ queue' = f.left
             /\ seen' = seen \o f.given
             /\ paused' = f.paused
             /\ nested' = (nested \/ f.nested)
        /\ UNCHANGED waiter
     \/ /\ mode = "iterating"
        /\ paused' = FALSE
        /\ IF queue # <<>> /\ waiter
           THEN /\ queue' = Tail(queue) /\ waiter' = FALSE
                /\ seen' = Append(seen, Head(queue))
           ELSE UNCHANGED <<queue, waiter, seen>>
        /\ UNCHANGED nested
  /\ ready' = (ready /\ ~released(queue', paused'))
  /\ UNCHANGED <<kind, mode, io, received, signalled, callVars, ctx, ended>>

(* next() of the async iterator: a queued message, else the error or the   *)
(* end, else it waits.  The application stops at the error or the end.     *)
IterNext ==
  /\ mode = "iterating" /\ ~waiter
  /\ \A i \in DOMAIN seen : seen[i] \notin {<<"end">>, <<"error">>}
  /\ \/ /\ queue # <<>>
        /\ queue' = Tail(queue)
        /\ seen' = Append(seen, Head(queue))
        /\ ready' = (ready /\ ~released(queue', paused))
        /\ UNCHANGED waiter
     \/ /\ queue = <<>> /\ ended # "no"
        /\ seen' = Append(seen, <<ended>>)
        /\ UNCHANGED <<queue, waiter, ready>>
     \/ /\ queue = <<>> /\ ended = "no"
        /\ waiter' = TRUE
        /\ UNCHANGED <<queue, seen, ready>>
  /\ UNCHANGED <<kind, mode, io, received, signalled, callVars, ctx, ended, paused,
                 nested>>

-----------------------------------------------------------------------------
(* client.ts: makeServerStreamRequest *)

(* nextDelay # null for the current attempt; veto is the throttle's *)
retried(code, pushback, veto) ==
  /\ Policy /\ ~veto
  /\ pushback # "stop" /\ attempt < MaxAttempts
  /\ pushback = "delay" \/ code \in Retryable

(* commit(): the held headers are emitted, once *)
commitEvents == IF ~committed /\ headers # 0 THEN <<<<"metadata", headers>>>> ELSE <<>>

(* finish(): commit, status, then `error` or `end`, which end the stream   *)
(* and let go of whoever waits for it.  A listener sees the end at once;   *)
(* an iterator when it asks, or now if it is waiting.                      *)
finish(code) ==
  /\ committed' = TRUE
  /\ ended' = IF code = "ok" THEN "end" ELSE "error"
  /\ ready' = FALSE /\ waiter' = FALSE
  /\ seen' = seen \o commitEvents
               \o (IF mode = "flowing" \/ waiter THEN <<<<ended'>>>> ELSE <<>>)
  /\ status' = code
  /\ UNCHANGED <<attempt, headers, queue, paused, nested>>

(* Mutation: the commit rule is not looked at.                             *)
onStatusAlwaysRetries(code, pushback) ==
  /\ io' = "idle" /\ signalled' = FALSE
  /\ IF retried(code, pushback, FALSE)
     THEN /\ attempt' = attempt + 1
          /\ status' = code
          /\ UNCHANGED <<committed, headers, streamVars>>
     ELSE finish(code)

(* onStatus: an attempt that has shown nothing may be retried, else its    *)
(* status is the call's.  io = "idle" with the stream not ended is the     *)
(* sleep before the next attempt.                                          *)
onStatus(code, pushback) ==
  /\ io' = "idle" /\ signalled' = FALSE
  /\ \E veto \in BOOLEAN :
       IF ~committed /\ retried(code, pushback, veto)
       THEN /\ attempt' = attempt + 1
            /\ status' = code
            /\ UNCHANGED <<committed, headers, streamVars>>
       ELSE finish(code)

backoff == io = "idle" /\ ended = "no"

(* The sleep ends: start() again, or, when the signal was aborted, the     *)
(* status of the last attempt is reported.                                 *)
BackoffEnds ==
  /\ backoff
  /\ IF ctx = "no"
     THEN /\ io' = "opening" /\ received' = 0
          /\ UNCHANGED <<signalled, callVars, streamVars>>
     ELSE /\ finish(status)
          /\ UNCHANGED <<io, received, signalled>>
  /\ UNCHANGED <<kind, mode, ctx>>

(* onHeaders: held, not emitted.  An abort may come between the answer and *)
(* this callback, here as below.                                           *)
Headers ==
  /\ io = "opening"
  /\ io' = "reading"
  /\ headers' = attempt
  /\ UNCHANGED <<kind, mode, received, signalled, attempt, committed, status, ctx,
                 streamVars>>

(* onMessage: commit, then deliver.  h2ts waits for the consumer when      *)
(* deliver returned a promise, and looks at the signal after; ws does not. *)
(* So one message more is delivered when the abort finds it read already.  *)
Message ==
  /\ io = "reading" /\ received < MaxMessages
  /\ received' = received + 1
  /\ committed' = TRUE
  /\ deliver(received', seen \o commitEvents)
  /\ io' = IF kind = "h2ts" /\ (ready' \/ signalled) THEN "parked" ELSE "reading"
  /\ UNCHANGED <<kind, mode, signalled, attempt, headers, status, ctx>>

-----------------------------------------------------------------------------
(* The transports *)

(* Trailers, or a Reset frame: the status the server sent.  On h2ts the    *)
(* response headers come first, also when they carry the status.           *)
Trailers ==
  /\ io = "reading" \/ (io = "opening" /\ kind = "ws")
  /\ ~signalled
  /\ \E code \in {"ok", "unavailable", "failed"}, pushback \in {"none", "stop", "delay"} :
       onStatus(code, pushback)
  /\ UNCHANGED <<kind, mode, received, ctx>>

(* The connection is refused or lost: abortOrUnknown on h2ts, where an     *)
(* aborted call fails too, and statusForClose on ws.                       *)
abortOrUnknown == IF ~signalled THEN "unknown"
                  ELSE IF ctx = "deadline" THEN "deadline" ELSE "cancelled"

H2Fails ==
  /\ kind = "h2ts" /\ io \in {"opening", "reading"}
  /\ onStatus(abortOrUnknown, "none")
  /\ UNCHANGED <<kind, mode, received, ctx>>

WsCloses ==
  /\ kind = "ws" /\ io \in {"opening", "reading"}
  /\ \E code \in {"ok", "unavailable", "failed"} : onStatus(code, "none")
  /\ UNCHANGED <<kind, mode, received, ctx>>

(* Mutation: the parked loop waits for the consumer alone.                 *)
UnparkByConsumer ==
  /\ io = "parked" /\ ~ready
  /\ IF signalled THEN onStatus(abortOrUnknown, "none")
     ELSE io' = "reading" /\ UNCHANGED <<signalled, callVars, streamVars>>
  /\ UNCHANGED <<kind, mode, received, ctx>>

(* The h2ts loop goes on: the consumer caught up, or the call was aborted, *)
(* which ends it.                                                          *)
Unpark ==
  /\ io = "parked" /\ (~ready \/ signalled)
  /\ IF signalled THEN onStatus(abortOrUnknown, "none")
     ELSE io' = "reading" /\ UNCHANGED <<signalled, callVars, streamVars>>
  /\ UNCHANGED <<kind, mode, received, ctx>>

(* call.cancel() and the abort of the call's signal: h2ts raises the       *)
(* controller's signal, and its loop ends later; ws terminates the stream  *)
(* on the spot, unless it has finished.                                    *)
interrupt(code) ==
  IF kind = "ws" /\ io # "idle"
  THEN onStatus(code, "none")
  ELSE /\ signalled' = (io # "idle")
       /\ UNCHANGED <<io, callVars, streamVars>>

Cancel ==
  /\ ended = "no"
  /\ interrupt("cancelled")
  /\ UNCHANGED <<kind, mode, received, ctx>>

Abort ==
  /\ ended = "no" /\ ctx = "no"
  /\ \E why \in {"cancelled", "deadline"} :
       /\ ctx' = why
       /\ interrupt(why)
  /\ UNCHANGED <<kind, mode, received>>

Ended ==
  /\ ended # "no"
  /\ UNCHANGED vars
-----------------------------------------------------------------------------
Init ==
  /\ kind \in {"h2ts", "ws"} /\ mode \in {"flowing", "iterating"}
  /\ io = "opening" /\ received = 0 /\ signalled = FALSE
  /\ attempt = 1 /\ committed = FALSE /\ headers = 0 /\ status = "ok"
  /\ ctx = "no"
  /\ queue = <<>> /\ ended = "no" /\ paused = FALSE /\ waiter = FALSE /\ ready = FALSE
  /\ seen = <<>> /\ nested = FALSE

(* A request whose signal is aborted is rejected by the library *)
H2Rejected == signalled /\ H2Fails

Next ==
  \/ Pause \/ Resume \/ IterNext \/ Cancel \/ Abort
  \/ Headers \/ Message \/ Trailers \/ H2Fails \/ WsCloses \/ Unpark
  \/ BackoffEnds
  \/ Ended

Spec == Init /\ [][Next]_vars

(* The event loop runs what is due: the timer or the abort of a sleep, a   *)
(* resolved promise, the rejection of an aborted request.  Nothing is      *)
(* assumed of the server or of the application, but for one thing: an      *)
(* attempt that is opening awaits the dial first, which does not look at   *)
(* the signal, so the rejection of an aborted request assumes that a dial  *)
(* settles.                                                                *)
FairSpec == Spec /\ WF_vars(BackoffEnds) /\ WF_vars(Unpark) /\ WF_vars(H2Rejected)
-----------------------------------------------------------------------------
Messages(a) == {<<"data", a, m>> : m \in 1..MaxMessages}
Events ==
  {<<"end">>, <<"error">>} \cup {<<"metadata", a>> : a \in 1..MaxAttempts}
    \cup UNION {Messages(a) : a \in 1..MaxAttempts}

(* Every variable stays in its set. *)
TypeOK ==
  /\ kind \in {"h2ts", "ws"} /\ mode \in {"flowing", "iterating"}
  /\ io \in {"opening", "reading", "parked", "idle"}
  /\ received \in 0..MaxMessages /\ signalled \in BOOLEAN
  /\ attempt \in 1..MaxAttempts /\ committed \in BOOLEAN
  /\ headers \in 0..MaxAttempts
  /\ status \in {"ok", "unavailable", "unknown", "failed", "cancelled", "deadline"}
  /\ ctx \in {"no", "cancelled", "deadline"}
  /\ \A i \in DOMAIN queue : queue[i] \in UNION {Messages(a) : a \in 1..MaxAttempts}
  /\ \A i \in DOMAIN seen : seen[i] \in Events
  /\ ended \in {"no", "end", "error"}
  /\ paused \in BOOLEAN /\ waiter \in BOOLEAN /\ ready \in BOOLEAN
  /\ nested \in BOOLEAN

isData(e) == e[1] = "data"

(* Every message of the attempt that committed reaches the application     *)
(* once and in order, or is still queued for it, whatever the pauses,      *)
(* unless its listener resumed from inside the flush of a resume(): then a *)
(* message may come twice and another not at all, but none out of order.   *)
(* No message of another attempt does, which is the commit rule.  Metadata *)
(* comes at most once and first, one end or error at most, and on h2ts the *)
(* end after the last message, for a consumer that paused too.             *)
InOrder ==
  /\ LET given == SelectSeq(seen, isData) \o queue
         sent == IF committed THEN [m \in 1..received |-> data(m)] ELSE <<>>
     IN  IF nested
         THEN /\ Range(given) \subseteq Range(sent)
              /\ \A i, j \in DOMAIN given : i < j => given[i][3] <= given[j][3]
         ELSE given = sent
  /\ \A i \in DOMAIN seen : seen[i][1] = "metadata" => i = 1
  /\ \A i, j \in DOMAIN seen :
       seen[i][1] \in {"end", "error"} /\ seen[j][1] \in {"end", "error"} => i = j
  /\ kind = "h2ts" /\ (\E i \in DOMAIN seen : seen[i] = <<"end">>) => queue = <<>>

(* Backpressure: on h2ts no more than the high-water mark is ever queued,  *)
(* and no wake-up is lost: an iterator does not wait beside a queued       *)
(* message, and the transport does not stay parked once the consumer has   *)
(* caught up or the stream has ended.                                      *)
Backpressure ==
  /\ kind = "h2ts" => Len(queue) <= HighWaterMark
  /\ waiter /\ ~paused => queue = <<>>
  /\ ready /\ ~paused => Len(queue) >= HighWaterMark
  /\ ended # "no" => ~waiter /\ ~ready

(* A deadline or an AbortSignal ends the call, even while the transport is *)
(* parked on a consumer that never reads again; while it is being opened,  *)
(* provided the dial settles (see FairSpec).                               *)
AbortEndsStream == (ctx # "no") ~> (ended # "no")
=============================================================================
