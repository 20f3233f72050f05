--------------------------- MODULE GoServerProofs ---------------------------
(***************************************************************************)
(* Shutdown of the Go server, for any finite set of handlers, any set of   *)
(* callers and any requests: it reports success only when every handler    *)
(* that ran when it was first called has returned, and live.idle is closed *)
(* at most once.                                                           *)
(*                                                                         *)
(* ShutdownWaits is not inductive.  A caller gets nil because live.idle is *)
(* closed; that was done when the count was zero, so the count must be the *)
(* number of running handlers; and handlers that start afterwards must not *)
(* be among those caught, which have all started before.                   *)
(***************************************************************************)
EXTENDS GoServer, FiniteSetTheorems, TLAPS

Started(h) == IF h = This THEN handler # "new" ELSE other[h] # "new"

CountInv == n = Cardinality(RunningNow)

DrainInv ==
    /\ other \in [Others -> {"new", "running", "done"}]
    /\ shutdown \in [Callers -> {"none", "http", "wait", "select", "nil", "err"}]
    /\ waiting \in BOOLEAN /\ idle \in 0..1
    /\ caught \subseteq Handlers /\ \A h \in caught : Started(h)
    /\ waiting => Draining
    /\ idle > 0 => waiting /\ caught \cap RunningNow = {}
    /\ \A c \in Callers : shutdown[c] = "nil" => idle > 0

IInv == CountInv /\ DrainInv

-----------------------------------------------------------------------------
(* Who runs is finite, so the count below counts.                          *)
LEMMA FiniteRunning == IsFiniteSet(RunningNow) /\ IsFiniteSet(RunningNow')
<1>1. IsFiniteSet(Handlers)
  BY GoServerAssumption, FS_EmptySet, FS_AddElement DEF Handlers, This
<1>2. RunningNow \subseteq Handlers /\ RunningNow' \subseteq Handlers
  BY DEF RunningNow, Handlers
<1> QED BY <1>1, <1>2, FS_Subset

(* A step inside the request neither starts nor ends its handler.          *)
LEMMA FetchStepRuns ==
  ASSUME FetchStep
  PROVE  /\ UNCHANGED serverVars
         /\ \/ handler' = handler
            \/ handler \notin {"new", "done"} /\ handler' \notin {"new", "done"}
<1>1. CASE HandlerSteps
  BY <1>1 DEF FetchStep, HandlerSteps, Route, ReadBody, AwaitHeaders, ReadEnds, AfterBody,
              WriteTrailer, AnswerJson, Refuse, Reply, Dispatch
<1>2. CASE Served
  BY <1>2 DEF FetchStep, Served, Reply
<1>3. CASE FeederEnds \/ ClientLeaves \/ Commit \/ BackendSteps \/ TimerSteps
  BY <1>3 DEF FetchStep, FeederEnds, ClientLeaves, Commit, BackendSteps, Harvest, CloseBody,
              TimerSteps, TimerFires, TimerCloses
<1>4. CASE \E s \in {"ok", "error", "mute"} : BackendReturns(s)
  BY <1>4 DEF FetchStep, BackendReturns
<1>5. CASE \E k \in 1..Total : Transfer(k)
  BY <1>5 DEF FetchStep, Transfer
<1> QED BY <1>1, <1>2, <1>3, <1>4, <1>5 DEF FetchStep

(* A step that starts and ends no handler and leaves the count alone.      *)
LEMMA SameHandlers ==
  ASSUME UNCHANGED other,
         \/ handler' = handler
         \/ handler \notin {"new", "done"} /\ handler' \notin {"new", "done"}
  PROVE  /\ RunningNow' = RunningNow
         /\ \A h \in Handlers : Started(h)' = Started(h)
BY DEF RunningNow, Running, Started, Handlers

(* A handler that starts is counted, and was not caught.                   *)
LEMMA Starts ==
  ASSUME IInv, NEW h \in Handlers, ~Started(h), ~Running(h),
         RunningNow' = RunningNow \cup {h},
         other' \in [Others -> {"new", "running", "done"}],
         \A g \in Handlers : Started(g) => Started(g)',
         n' = n + 1, UNCHANGED <<waiting, idle, shutdown, caught>>
  PROVE  IInv'
<1>1. h \notin RunningNow /\ h \notin caught
  BY DEF RunningNow, IInv, DrainInv
<1>2. CountInv'
  BY <1>1, FiniteRunning, FS_AddElement DEF IInv, CountInv
<1>3. (\A g \in caught : Started(g))' /\ (caught \cap RunningNow)' = caught \cap RunningNow
  BY <1>1 DEF IInv, DrainInv
<1>4. DrainInv'
  BY <1>3 DEF IInv, DrainInv, Draining
<1> QED BY <1>2, <1>4 DEF IInv

(* A handler that returns is counted out; the channel is closed at zero.   *)
LEMMA Returns ==
  ASSUME IInv, NEW h \in Handlers, Running(h),
         RunningNow' = RunningNow \ {h},
         other' \in [Others -> {"new", "running", "done"}],
         \A g \in Handlers : Started(g) => Started(g)',
         done
  PROVE  IInv'
<1>1. h \in RunningNow
  BY DEF RunningNow
<1>2. CountInv'
  BY <1>1, FiniteRunning, FS_RemoveElement DEF IInv, CountInv, done
<1>3. n' = 0 => RunningNow' = {}
  BY <1>2, FiniteRunning, FS_EmptySet DEF CountInv
<1>4. (\A g \in caught : Started(g))'
  BY DEF IInv, DrainInv, done
<1>5. idle' \in 0..1 /\ (idle > 0 => idle' > 0)
      /\ (idle' > 0 => waiting' /\ (caught \cap RunningNow)' = {})
  <2>1. CASE waiting /\ n - 1 = 0 /\ idle = 0
    BY <2>1, <1>3 DEF done, signalIfIdle
  <2>2. CASE ~(waiting /\ n - 1 = 0 /\ idle = 0)
    BY <2>2 DEF done, signalIfIdle, IInv, DrainInv
  <2> QED BY <2>1, <2>2
<1>6. DrainInv'
  BY <1>4, <1>5 DEF IInv, DrainInv, Draining, done
<1> QED BY <1>2, <1>6 DEF IInv

(* A step of Shutdown starts and ends no handler.                          *)
LEMMA ShutdownStep ==
  ASSUME IInv, NEW c \in Callers,
         Call(c) \/ Expire(c) \/ HttpDrained(c) \/ Wait(c) \/ Waited(c)
  PROVE  IInv'
<1>1. UNCHANGED <<handler, other, n>>
  BY DEF Call, Expire, HttpDrained, Wait, Waited, fetchVars
<1>2. RunningNow' = RunningNow /\ \A h \in Handlers : Started(h)' = Started(h)
  BY <1>1, SameHandlers
<1>3. CountInv'
  BY <1>1, <1>2 DEF IInv, CountInv
<1>4. CASE Call(c)
  <2>1. shutdown' \in [Callers -> {"none", "http", "wait", "select", "nil", "err"}]
        /\ Draining' /\ UNCHANGED <<other, waiting, idle>>
        /\ \A d \in Callers : shutdown'[d] = "nil" => shutdown[d] = "nil"
    BY <1>4 DEF Call, IInv, DrainInv, Draining
  <2>2. caught' \subseteq Handlers /\ \A h \in caught' : Started(h)'
    BY <1>4, <1>2 DEF Call, IInv, DrainInv, RunningNow, Running, Started
  <2>3. idle > 0 => caught' = caught
    BY <1>4 DEF Call, IInv, DrainInv
  <2> QED BY <1>2, <1>3, <2>1, <2>2, <2>3 DEF IInv, DrainInv
<1>5. CASE Expire(c)
  BY <1>2, <1>3, <1>5 DEF Expire, IInv, DrainInv, Draining
<1>6. CASE HttpDrained(c)
  BY <1>2, <1>3, <1>6 DEF HttpDrained, IInv, DrainInv, Draining
<1>7. CASE Wait(c)
  <2>1. shutdown' \in [Callers -> {"none", "http", "wait", "select", "nil", "err"}]
        /\ Draining' /\ UNCHANGED <<other, caught>> /\ waiting'
        /\ \A d \in Callers : shutdown'[d] = "nil" => shutdown[d] = "nil"
    BY <1>7 DEF Wait, IInv, DrainInv, Draining
  <2>2. n = 0 => RunningNow = {}
    BY FiniteRunning, FS_EmptySet DEF IInv, CountInv
  <2>3. idle' \in 0..1 /\ (idle > 0 => idle' > 0)
        /\ (idle' > 0 => caught \cap RunningNow = {})
    BY <1>7, <2>2 DEF Wait, signalIfIdle, IInv, DrainInv
  <2> QED BY <1>2, <1>3, <2>1, <2>3 DEF IInv, DrainInv
<1>8. CASE Waited(c)
  BY <1>2, <1>3, <1>8 DEF Waited, IInv, DrainInv, Draining
<1> QED BY <1>4, <1>5, <1>6, <1>7, <1>8

(* The count is the number of running handlers, and live.idle is closed    *)
(* only when those that Shutdown found have gone.                          *)
THEOREM Inductive == Spec => []IInv
<1>1. Init => IInv
  <2> SUFFICES ASSUME Init PROVE IInv
    OBVIOUS
  <2>1. RunningNow = {}
    BY DEF Init, FetchInit, RunningNow, Running, Handlers
  <2>2. CountInv
    BY <2>1, FS_EmptySet DEF Init, CountInv
  <2>3. DrainInv
    <3>1. other \in [Others -> {"new", "running", "done"}]
      BY DEF Init
    <3>2. shutdown \in [Callers -> {"none", "http", "wait", "select", "nil", "err"}]
          /\ \A c \in Callers : shutdown[c] # "nil"
      BY DEF Init
    <3>3. waiting = FALSE /\ idle = 0 /\ caught = {}
      BY DEF Init
    <3>4. caught \subseteq Handlers /\ \A h \in caught : Started(h)
      BY <3>3, Zenon
    <3>5. idle \in 0..1 /\ ~(idle > 0)
      BY <3>3, SMT
    <3>6. waiting \in BOOLEAN /\ ~waiting
      BY <3>3, Zenon
    <3> QED BY <3>1, <3>2, <3>4, <3>5, <3>6, Zenon DEF DrainInv
  <2> QED BY <2>2, <2>3 DEF IInv
<1>2. IInv /\ [Next]_vars => IInv'
  <2> SUFFICES ASSUME IInv, [Next]_vars PROVE IInv'
    OBVIOUS
  <2>1. ASSUME UNCHANGED serverVars,
               \/ handler' = handler
               \/ handler \notin {"new", "done"} /\ handler' \notin {"new", "done"}
        PROVE  IInv'
    <3>1. RunningNow' = RunningNow /\ \A h \in Handlers : Started(h)' = Started(h)
      BY <2>1, SameHandlers DEF serverVars
    <3> QED BY <2>1, <3>1 DEF serverVars, IInv, CountInv, DrainInv, Draining
  <2>2. CASE FetchStep
    BY <2>1, <2>2, FetchStepRuns
  <2>3. CASE Arrive
    <3>1. RunningNow' = RunningNow \cup {This} /\ ~Started(This) /\ ~Running(This)
          /\ \A g \in Handlers : Started(g) => Started(g)'
      BY <2>3 DEF Arrive, RunningNow, Running, Started, Handlers
    <3> QED BY <2>3, <3>1, Starts DEF Arrive, Handlers, IInv, DrainInv
  <2>4. CASE Return
    <3>1. RunningNow' = RunningNow \ {This} /\ Running(This)
          /\ \A g \in Handlers : Started(g) => Started(g)'
      BY <2>4 DEF Return, Leave, RunningNow, Running, Started, Handlers
    <3> QED BY <2>4, <3>1, Returns DEF Return, Handlers, IInv, DrainInv
  <2>5. ASSUME NEW o \in Others, OtherArrives(o) PROVE IInv'
    <3>1. o # This /\ o \in Handlers /\ other' \in [Others -> {"new", "running", "done"}]
      BY <2>5, GoServerAssumption DEF This, Handlers, OtherArrives, IInv, DrainInv
    <3>2. RunningNow' = RunningNow \cup {o} /\ ~Started(o) /\ ~Running(o)
          /\ \A g \in Handlers : Started(g) => Started(g)'
      BY <2>5, <3>1 DEF OtherArrives, fetchVars, RunningNow, Running, Started, Handlers,
                        IInv, DrainInv
    <3> QED BY <2>5, <3>1, <3>2, Starts DEF OtherArrives
  <2>6. ASSUME NEW o \in Others, OtherReturns(o) PROVE IInv'
    <3>1. o # This /\ o \in Handlers /\ other' \in [Others -> {"new", "running", "done"}]
      BY <2>6, GoServerAssumption DEF This, Handlers, OtherReturns, IInv, DrainInv
    <3>2. RunningNow' = RunningNow \ {o} /\ Running(o)
          /\ \A g \in Handlers : Started(g) => Started(g)'
      BY <2>6, <3>1 DEF OtherReturns, fetchVars, RunningNow, Running, Started, Handlers,
                        IInv, DrainInv
    <3> QED BY <2>6, <3>1, <3>2, Returns DEF OtherReturns
  <2>7. CASE SendGoaway
    <3>1. RunningNow' = RunningNow /\ \A h \in Handlers : Started(h)' = Started(h)
      BY <2>7, SameHandlers DEF SendGoaway, fetchVars
    <3> QED BY <2>7, <3>1 DEF SendGoaway, IInv, CountInv, DrainInv, Draining
  <2>8. CASE UNCHANGED vars
    BY <2>1, <2>8 DEF vars, fetchVars
  <2> QED BY <2>2, <2>3, <2>4, <2>5, <2>6, <2>7, <2>8, ShutdownStep DEF Next
<1> QED BY <1>1, <1>2, PTL DEF Spec

(* Server.Shutdown returns nil only when no handler that was running when  *)
(* it was first called still runs, and liveConns' channel is closed once.  *)
THEOREM ShutdownCutsNothing == Spec => []ShutdownWaits
<1>1. IInv => ShutdownWaits
  BY DEF IInv, DrainInv, ShutdownWaits
<1> QED BY <1>1, Inductive, PTL
=============================================================================
