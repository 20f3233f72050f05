------------------------------ MODULE GoServer -----------------------------
(* The Go server around its requests: ServeHTTP's count of live handlers    *)
(* and Server.Shutdown (server.go), composed with one request in full       *)
(* (GoFetch) and others of which only the lifetime matters.                 *)
EXTENDS GoFetch, FiniteSets

CONSTANTS
    Others,   \* other handler calls: streams of HTTP/2 connections, sockets
    Callers   \* the callers of Shutdown: a signal handler, a defer

(* Only finitely many handlers ever run.                                   *)
ASSUME GoServerAssumption == IsFiniteSet(Others) /\ "this" \notin Others

VARIABLES
    other,      \* the other handlers
    n,          \* live.n
    waiting,    \* live.draining: some wait has begun
    idle,       \* how often live.idle has been closed
    goaway,     \* the HTTP/2 connections have sent their GOAWAY
    shutdown,   \* where each caller of Shutdown is
    late,       \* the callers whose context has expired
    httpErr,    \* the callers whose http.Shutdown reported that
    caught      \* ghost: the handlers that ran when Shutdown was first called

serverVars == <<other, n, waiting, idle, goaway, shutdown, late, httpErr, caught>>
vars == <<fetchVars, serverVars>>

(* The request in full, as a member of the handlers.                       *)
This == "this"
Handlers == {This} \cup Others
Running(h) == IF h = This THEN handler \notin {"new", "done"} ELSE other[h] = "running"
RunningNow == {h \in Handlers : Running(h)}
Draining == \E c \in Callers : shutdown[c] # "none"

TypeOK ==
    /\ FetchTypeOK
    /\ other \in [Others -> {"new", "running", "done"}]
    /\ n \in 0..Cardinality(Handlers)
    /\ waiting \in BOOLEAN /\ idle \in 0..1 /\ goaway \in BOOLEAN
    /\ shutdown \in [Callers -> {"none", "http", "wait", "select", "nil", "err"}]
    /\ late \subseteq Callers /\ httpErr \subseteq Callers /\ caught \subseteq Handlers

Init ==
    /\ FetchInit
    /\ other = [o \in Others |-> "new"]
    /\ n = 0 /\ waiting = FALSE /\ idle = 0 /\ goaway = FALSE
    /\ shutdown = [c \in Callers |-> "none"]
    /\ late = {} /\ httpErr = {} /\ caught = {}

-----------------------------------------------------------------------------
(* signalIfIdle, under the lock, with the count and the flag just stored.  *)
signalIfIdle(w, k) == IF w /\ k = 0 /\ idle = 0 THEN idle + 1 ELSE idle

(* A request arrives and is counted: on a tracked connection until         *)
(* Shutdown stops them, on an HTTP/2 one until its GOAWAY is out.          *)
Admitted(hijacked) == IF hijacked THEN ~goaway ELSE ~Draining

Arrive ==
    /\ handler = "new" /\ Admitted(req.hijacked)
    /\ handler' = "route"
    /\ n' = n + 1
    /\ UNCHANGED <<req, gone, callVars, replyVars>>
    /\ UNCHANGED <<other, waiting, idle, goaway, shutdown, late, httpErr, caught>>

OtherArrives(o) ==
    /\ other[o] = "new" /\ Admitted(TRUE)
    /\ other' = [other EXCEPT ![o] = "running"]
    /\ n' = n + 1
    /\ UNCHANGED <<fetchVars, waiting, idle, goaway, shutdown, late, httpErr, caught>>

(* The deferred live.done.                                                 *)
done ==
    /\ n' = n - 1
    /\ idle' = signalIfIdle(waiting, n - 1)
    /\ UNCHANGED <<waiting, goaway, shutdown, late, httpErr, caught>>

Return == Leave /\ done /\ UNCHANGED other

OtherReturns(o) ==
    /\ other[o] = "running"
    /\ other' = [other EXCEPT ![o] = "done"]
    /\ done
    /\ UNCHANGED fetchVars

-----------------------------------------------------------------------------
(* Shutdown.                                                               *)

(* It closes `draining` and enters http.Shutdown, which stops accepting.   *)
Call(c) ==
    /\ shutdown[c] = "none"
    /\ shutdown' = [shutdown EXCEPT ![c] = "http"]
    /\ caught' = IF Draining THEN caught ELSE RunningNow
    /\ UNCHANGED <<fetchVars, other, n, waiting, idle, goaway, late, httpErr>>

(* The hook of http2.ConfigureServer, on a goroutine of its own.           *)
SendGoaway ==
    /\ Draining /\ ~goaway
    /\ goaway' = TRUE
    /\ UNCHANGED <<fetchVars, other, n, waiting, idle, shutdown, late, httpErr, caught>>

(* The caller's context expires.                                           *)
Expire(c) ==
    /\ shutdown[c] \in {"http", "wait", "select"} /\ c \notin late
    /\ late' = late \cup {c}
    /\ UNCHANGED <<fetchVars, other, n, waiting, idle, goaway, shutdown, httpErr, caught>>

(* http.Shutdown returns: the tracked connections are idle, or it is late. *)
HttpDrained(c) ==
    /\ shutdown[c] = "http"
    /\ \/ (Running(This) => req.hijacked) /\ UNCHANGED httpErr
       \/ c \in late /\ httpErr' = httpErr \cup {c}
    /\ shutdown' = [shutdown EXCEPT ![c] = "wait"]
    /\ UNCHANGED <<fetchVars, other, n, waiting, idle, goaway, late, caught>>

(* Mutation: the count is not looked at.                                   *)
WaitUncounted(c) ==
    /\ shutdown[c] = "wait"
    /\ shutdown' = [shutdown EXCEPT ![c] = "select"]
    /\ waiting' = TRUE
    /\ idle' = signalIfIdle(TRUE, 0)
    /\ UNCHANGED <<fetchVars, other, n, goaway, late, httpErr, caught>>

(* Mutation: a count of zero is not signalled.                             *)
WaitWithoutSignal(c) ==
    /\ shutdown[c] = "wait"
    /\ shutdown' = [shutdown EXCEPT ![c] = "select"]
    /\ waiting' = TRUE
    /\ UNCHANGED <<fetchVars, other, n, idle, goaway, late, httpErr, caught>>

(* live.wait takes the lock, then selects.                                 *)
Wait(c) ==
    /\ shutdown[c] = "wait"
    /\ shutdown' = [shutdown EXCEPT ![c] = "select"]
    /\ waiting' = TRUE
    /\ idle' = signalIfIdle(TRUE, n)
    /\ UNCHANGED <<fetchVars, other, n, goaway, late, httpErr, caught>>

Waited(c) ==
    /\ shutdown[c] = "select"
    /\ \/ idle > 0
          /\ shutdown' = [shutdown EXCEPT ![c] = IF c \in httpErr THEN "err" ELSE "nil"]
       \/ c \in late
          /\ shutdown' = [shutdown EXCEPT ![c] = "err"]
    /\ UNCHANGED <<fetchVars, other, n, waiting, idle, goaway, late, httpErr, caught>>

-----------------------------------------------------------------------------
HandlerSteps ==
    \/ Route \/ ReadBody \/ AwaitHeaders \/ ReadEnds \/ AfterBody \/ WriteTrailer \/ AnswerJson
BackendSteps == Harvest \/ CloseBody
TimerSteps == TimerFires \/ TimerCloses

FetchStep ==
    /\ \/ HandlerSteps \/ Served \/ FeederEnds \/ ClientLeaves \/ Commit
       \/ \E s \in {"ok", "error", "mute"} : BackendReturns(s)
       \/ \E k \in 1..Total : Transfer(k)
       \/ BackendSteps \/ TimerSteps
    /\ UNCHANGED serverVars

Next ==
    \/ FetchStep \/ Arrive \/ Return
    \/ \E o \in Others : OtherArrives(o) \/ OtherReturns(o)
    \/ SendGoaway
    \/ \E c \in Callers : Call(c) \/ Expire(c) \/ HttpDrained(c) \/ Wait(c) \/ Waited(c)

Spec == Init /\ [][Next]_vars

(* Goroutines that can run do, timers fire, and a backend that finds its   *)
(* call cancelled comes back.  A backend that is not cancelled, the client *)
(* and the other handlers are held to nothing, except that handlers which  *)
(* Shutdown has to wait for end: the claim about Shutdown is made of those *)
(* behaviours only.                                                        *)
Cancelled == closed \/ gone
FairSpec ==
    /\ Spec
    /\ WF_vars(HandlerSteps /\ UNCHANGED serverVars) /\ WF_vars(Return)
    /\ WF_vars(BackendSteps /\ UNCHANGED serverVars)
    /\ WF_vars(TimerSteps /\ UNCHANGED serverVars)
    /\ WF_vars(closed /\ FeederEnds /\ UNCHANGED serverVars)
    /\ WF_vars(Cancelled /\ BackendReturns("error") /\ UNCHANGED serverVars)
    /\ \A c \in Callers : WF_vars(HttpDrained(c)) /\ WF_vars(Wait(c)) /\ WF_vars(Waited(c))

-----------------------------------------------------------------------------
(* The answer as its caller sees it.                                       *)
CallerBody ==
    CASE block = "json" -> "whole"
      [] block = "empty" -> "empty"
      [] block = "none" /\ sent = 0 -> "none"
      [] block = "none" /\ sent = LenPrefix + req.reply -> "whole"
      [] OTHER -> "part"

Promise == INSTANCE UnaryAnswer
           WITH expired <- timedOut, body <- CallerBody,
                answer <- IF answer = "refused" THEN "local" ELSE answer,
                unrendered <- FALSE

(* The answer of the Go server implements UnaryAnswer, whichever way the   *)
(* timer, the backend's return and the handler's three looks at timedOut   *)
(* interleave.  An OK answer to JSON has its body; a backend that returns  *)
(* without a grpc-status is answered OK, as UnaryAnswer says.              *)
UnaryPromise == Promise!Spec

(* When a unary handler has returned, its feeder, its backend and its      *)
(* timer end too, though the pipes are unbuffered and nobody reads them.   *)
NoGoroutineLeak ==
    (handler = "done") ~>
        (feeder # "writing" /\ backend \in {"none", "done"} /\ timer \in {"none", "over"})

(* Shutdown reports success only when every handler that ran when it was   *)
(* called has returned: no live RPC is cut.  However often the count goes  *)
(* through zero, the idle channel is closed once; a second close panics.   *)
ShutdownWaits ==
    /\ (\E c \in Callers : shutdown[c] = "nil") => caught \cap RunningNow = {}
    /\ idle <= 1

(* No caller of Shutdown hangs once nothing runs any more, however often   *)
(* the count went through zero and whoever else waits.                     *)
ShutdownReturns ==
    \A c \in Callers :
        (shutdown[c] # "none" /\ [](RunningNow = {})) ~> (shutdown[c] \in {"nil", "err"})
=============================================================================
