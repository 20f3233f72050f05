--------------------------- MODULE GoFetchProofs ---------------------------
(***************************************************************************)
(* The unary surfaces of the Go server implement UnaryAnswer, for every    *)
(* set of requests and every size: however the handler, the backend's      *)
(* goroutine and the deadline's timer interleave, and whether or not the   *)
(* client stays, the status an answer ends with is true of the RPC.        *)
(*                                                                         *)
(* The handler looks at timedOut three times while the timer may set it.   *)
(* What makes that safe is CallInv: until the handler has left only the    *)
(* timer closes the call, after it has set timedOut, so a read that ended  *)
(* without timedOut ended because finish had harvested the status; and a   *)
(* backend that was not cancelled gives a status when its message is whole *)
(* or not begun.                                                           *)
(***************************************************************************)
EXTENDS GoServer, TLAPS

Before == {"new", "route", "body"}
Waiting == {"head", "pipe", "eof", "trailer"}
Left == {"leaving", "done"}

(* The call: handler, backend and timer.                                   *)
CallInv ==
    /\ handler \in Before \cup Waiting \cup Left \cup {"serve"}
    /\ backend \in {"none", "serving", "returned", "harvested", "done"}
    /\ handler \in Before => rpc = "none" /\ backend = "none" /\ ~closed
    /\ handler = "serve" => rpc = "running" /\ backend = "none" /\ ~closed
    /\ handler \in Before \cup {"serve"} => timer = "none"
    /\ handler \in Waiting => backend # "none"
    /\ backend = "serving" => rpc = "running"
    /\ backend \in {"returned", "harvested", "done"} => rpc \in {"ok", "error", "mute"}
    /\ IF backend \in {"harvested", "done"} THEN trailing = rpc ELSE trailing = "none"
    /\ eof => backend = "done"
    /\ timer = "fired" => timedOut
    /\ closed /\ handler # "done" => timedOut
    /\ handler \in {"pipe", "eof", "trailer"} => ready \/ gone
    /\ handler \in {"eof", "trailer"} => eof \/ closed

(* The bytes: what was read, what was sent, and what the handler wrote.    *)
ByteInv ==
    /\ req \in Requests
    /\ resp \in Nat /\ sent \in Nat /\ skip \in {0, 1}
    /\ handler \notin Left => answer = "open"
    /\ handler \notin Left \cup {"trailer"} => block = "none"
    /\ handler \in Before \cup {"serve", "head"} => resp = 0 /\ sent = 0 /\ skip = 1
    /\ handler \in Waiting /\ req.kind # "proto" => sent = 0
    /\ handler \in Waiting /\ req.kind = "proto" =>
         sent + 1 = resp + skip /\ (skip = 1 <=> resp = 0)
    /\ handler = "trailer" =>
         /\ req.kind = "proto"
         /\ sent = 0 => block = "empty"
         /\ sent # 0 => block = "none" /\ (gone \/ rpc = "mute" \/ sent = LenPrefix + req.reply)
    /\ backend \in {"returned", "harvested", "done"} =>
         \/ resp = Total
         \/ rpc = "error" /\ (resp = 0 \/ closed \/ gone)
         \/ rpc = "mute"

FetchInv == CallInv /\ ByteInv

-----------------------------------------------------------------------------
(* The sizes of a request are numbers, and a block has at least a prefix.  *)
LEMMA Sizes ==
  ASSUME ByteInv
  PROVE  /\ req.reply \in Nat /\ LenPrefix \in Nat /\ LenPrefix > 0
         /\ Total \in Nat /\ Total = 1 + LenPrefix + req.reply
BY GoFetchAssumption DEF ByteInv, Total

(* What is left of a step when the server around the request is dropped.   *)
RequestStep ==
    \/ HandlerSteps \/ Served \/ FeederEnds \/ ClientLeaves \/ Commit
    \/ \E s \in {"ok", "error", "mute"} : BackendReturns(s)
    \/ \E k \in 1..Total : Transfer(k)
    \/ BackendSteps \/ TimerSteps \/ Leave
    \/ handler = "new" /\ handler' = "route" /\ UNCHANGED <<req, gone, callVars, replyVars>>

LEMMA StepOfRequest == [Next]_vars => RequestStep \/ UNCHANGED fetchVars
BY DEF Next, vars, FetchStep, Arrive, Return, OtherArrives, OtherReturns, SendGoaway, Call,
       Expire, HttpDrained, Wait, Waited, RequestStep

(* CallInv and ByteInv in every state, one step per action.                *)
THEOREM FetchSafety == Spec => []FetchInv
<1>1. Init => FetchInv
  BY DEF Init, FetchInit, FetchInv, CallInv, ByteInv, Before, Waiting, Left
<1>2. FetchInv /\ [Next]_vars => FetchInv'
  <2> SUFFICES ASSUME FetchInv, [Next]_vars PROVE FetchInv'
    OBVIOUS
  <2> USE DEF FetchInv, CallInv, ByteInv, Before, Waiting, Left, callVars, replyVars, Total
  <2>1. CASE UNCHANGED fetchVars
    BY <2>1 DEF fetchVars
  <2>2. CASE Route
    BY <2>2 DEF Route, Refuse, Reply
  <2>3. CASE ReadBody
    BY <2>3 DEF ReadBody, Refuse, Reply, Dispatch
  <2>4. CASE AwaitHeaders
    BY <2>4 DEF AwaitHeaders, Reply
  <2>5. CASE ReadEnds
    BY <2>5 DEF ReadEnds
  <2>6. CASE AfterBody
    BY <2>6, Sizes DEF AfterBody, Reply
  <2>7. CASE WriteTrailer
    BY <2>7 DEF WriteTrailer, Reply
  <2>8. CASE AnswerJson
    BY <2>8 DEF AnswerJson, Reply
  <2>9. CASE Served
    BY <2>9 DEF Served, Reply
  <2>10. CASE FeederEnds \/ ClientLeaves \/ Commit
    BY <2>10 DEF FeederEnds, ClientLeaves, Commit
  <2>11. ASSUME NEW s \in {"ok", "error", "mute"}, BackendReturns(s) PROVE FetchInv'
    BY <2>11 DEF BackendReturns
  <2>12. ASSUME NEW k \in 1..Total, Transfer(k) PROVE FetchInv'
    BY <2>12, Sizes DEF Transfer, MinOf
  <2>13. CASE Harvest
    BY <2>13 DEF Harvest
  <2>14. CASE CloseBody
    BY <2>14 DEF CloseBody
  <2>15. CASE TimerSteps
    BY <2>15 DEF TimerSteps, TimerFires, TimerCloses
  <2>16. CASE Leave
    BY <2>16 DEF Leave
  <2>17. CASE handler = "new" /\ handler' = "route" /\ UNCHANGED <<req, gone, callVars, replyVars>>
    BY <2>17
  <2> QED BY <2>1, <2>2, <2>3, <2>4, <2>5, <2>6, <2>7, <2>8, <2>9, <2>10, <2>11, <2>12, <2>13,
             <2>14, <2>15, <2>16, <2>17, StepOfRequest
          DEF RequestStep, HandlerSteps, BackendSteps
<1> QED BY <1>1, <1>2, PTL DEF Spec

-----------------------------------------------------------------------------
(* What the caller has, from what was sent and what the handler wrote.     *)
BodyOf(b, s, r) ==
    CASE b = "json" -> "whole"
      [] b = "empty" -> "empty"
      [] b = "none" /\ s = 0 -> "none"
      [] b = "none" /\ s = LenPrefix + r -> "whole"
      [] OTHER -> "part"

LEMMA CallerBodyIs ==
    /\ CallerBody = BodyOf(block, sent, req.reply)
    /\ CallerBody' = BodyOf(block', sent', req'.reply)
BY DEF CallerBody, BodyOf

LEMMA BodyCases ==
  ASSUME NEW s \in Nat, NEW r \in Nat
  PROVE  /\ BodyOf("json", s, r) = "whole"
         /\ BodyOf("empty", s, r) = "empty"
         /\ BodyOf("none", 0, r) = "none"
         /\ s = LenPrefix + r => BodyOf("none", s, r) = "whole"
         /\ s # 0 /\ s # LenPrefix + r => BodyOf("none", s, r) = "part"
BY GoFetchAssumption DEF BodyOf

(* The answer as UnaryAnswer has it.                                       *)
Told == IF answer = "refused" THEN "local" ELSE answer

(* The ways an abstract step can come about: an answer that stands where   *)
(* it is, one that goes on, and one that ends.                             *)
LEMMA Stands ==
  ASSUME rpc' \in Promise!Later(rpc), timedOut' \in {timedOut, TRUE},
         UNCHANGED <<req, sent, block, answer>>
  PROVE  Promise!Next \/ UNCHANGED Promise!vars
<1>1. CallerBody' = CallerBody
  BY DEF CallerBody
<1>2. CASE answer = "open"
  BY <1>1, <1>2 DEF Promise!Next, Promise!Longer, Promise!Endings, Promise!Answers
<1>3. CASE answer # "open"
  BY <1>1, <1>3 DEF Promise!Next
<1> QED BY <1>2, <1>3

LEMMA GoesOn ==
  ASSUME answer = "open", answer' = "open", UNCHANGED <<rpc, timedOut>>,
         CallerBody' \in Promise!Longer(CallerBody)
  PROVE  Promise!Next
BY DEF Promise!Next, Promise!Later, Promise!Endings, Promise!Answers

LEMMA EndsWell ==
  ASSUME answer = "open", rpc' \in Promise!Later(rpc), timedOut' = timedOut,
         CallerBody' \in Promise!Longer(CallerBody),
         Told' \in Promise!Endings(rpc', FALSE, timedOut', CallerBody')
  PROVE  Promise!Next
BY DEF Promise!Next, Told

(* Every step of the server is a step of UnaryAnswer or changes nothing    *)
(* that the caller sees.                                                   *)
LEMMA StepRefines ==
  ASSUME FetchInv, FetchInv', [Next]_vars
  PROVE  [Promise!Next]_(Promise!vars)
<1> DEFINE Silent == /\ rpc' \in Promise!Later(rpc) /\ timedOut' \in {timedOut, TRUE}
                     /\ UNCHANGED <<req, sent, block, answer>>
<1>0. Silent => Promise!Next \/ UNCHANGED Promise!vars
  BY Stands
<1> HIDE DEF Silent
<1>1. CASE UNCHANGED fetchVars \/ FeederEnds \/ ClientLeaves \/ Commit \/ BackendSteps
           \/ TimerSteps \/ Leave \/ ReadEnds
           \/ (handler = "new" /\ handler' = "route" /\ UNCHANGED <<req, gone, callVars, replyVars>>)
  <2>1. Silent
    BY <1>1 DEF Silent, fetchVars, callVars, replyVars, FeederEnds, ClientLeaves, Commit,
                BackendSteps, Harvest, CloseBody, TimerSteps, TimerFires, TimerCloses, Leave,
                ReadEnds, Promise!Later
  <2> QED BY <1>0, <2>1
<1>2. ASSUME NEW s \in {"ok", "error", "mute"}, BackendReturns(s) PROVE Promise!Next \/ UNCHANGED Promise!vars
  <2>1. Silent
    BY <1>2 DEF Silent, BackendReturns, replyVars, FetchInv, CallInv, Promise!Later
  <2> QED BY <1>0, <2>1
<1>a. handler \in Before \cup {"serve", "head"} => CallerBody = "none" /\ answer = "open"
  BY CallerBodyIs, BodyCases, Sizes DEF FetchInv, ByteInv, Before, Left
<1>b. handler \in Waiting => answer = "open"
  BY DEF FetchInv, ByteInv, Waiting, Left
<1>3. CASE Route \/ ReadBody
  <2>1. CASE answer' = answer
    <3>1. Silent
      BY <1>3, <2>1 DEF Silent, Route, ReadBody, Refuse, Reply, Dispatch, callVars, FetchInv,
                        CallInv, Before, Promise!Later
    <3> QED BY <1>0, <3>1
  <2>2. CASE answer' # answer
    <3>1. answer' = "refused" /\ UNCHANGED <<req, sent, block, rpc, timedOut>>
      BY <1>3, <2>2 DEF Route, ReadBody, Refuse, Reply, Dispatch, callVars
    <3>2. CallerBody = "none" /\ CallerBody' = "none" /\ rpc = "none" /\ answer = "open"
      BY <1>3, <1>a, <3>1 DEF Route, ReadBody, FetchInv, CallInv, Before, CallerBody
    <3> QED BY <3>1, <3>2, EndsWell
            DEF Told, Promise!Later, Promise!Longer, Promise!Endings, Promise!Answers
  <2> QED BY <2>1, <2>2
<1>4. CASE Served
  <2>1. CASE gone
    <3>1. Silent
      BY <1>4, <2>1 DEF Silent, Served, Reply, FetchInv, CallInv, Promise!Later
    <3> QED BY <1>0, <3>1
  <2>2. CASE ~gone
    <3>1. /\ answer' = "relayed" /\ rpc' \in {"ok", "error"} /\ rpc = "running"
          /\ UNCHANGED <<req, sent, block, timedOut>>
      BY <1>4, <2>2 DEF Served, Reply, FetchInv, CallInv
    <3>2. CallerBody = "none" /\ CallerBody' = "none" /\ answer = "open"
      BY <1>4, <1>a, <3>1 DEF Served, CallerBody
    <3> QED BY <3>1, <3>2, EndsWell
            DEF Told, Promise!Later, Promise!Longer, Promise!Endings, Promise!Answers
  <2> QED BY <2>1, <2>2
<1>5. CASE AwaitHeaders
  <2>1. CASE UNCHANGED <<block, answer>>
    <3>1. Silent
      BY <1>5, <2>1 DEF Silent, AwaitHeaders, callVars, Promise!Later
    <3> QED BY <1>0, <3>1
  <2>2. CASE ~UNCHANGED <<block, answer>>
    <3>1. timedOut /\ answer' = "deadline" /\ block' = "empty" /\ UNCHANGED <<req, sent, rpc, timedOut>>
      BY <1>5, <2>2 DEF AwaitHeaders, Reply, callVars
    <3>2. CallerBody = "none" /\ CallerBody' = "empty" /\ answer = "open"
      BY <1>5, <1>a, <3>1, CallerBodyIs, BodyCases, Sizes DEF AwaitHeaders, FetchInv, ByteInv
    <3> QED BY <3>1, <3>2, EndsWell
            DEF Told, Promise!Later, Promise!Longer, Promise!Endings, Promise!Answers
  <2> QED BY <2>1, <2>2
<1>6. ASSUME NEW k \in 1..Total, Transfer(k) PROVE Promise!Next
  <2>1. /\ sent' >= sent /\ sent' <= LenPrefix + req.reply /\ block = "none" /\ block' = "none"
        /\ UNCHANGED <<req, rpc, timedOut, answer>>
    BY <1>6, Sizes DEF Transfer, MinOf, callVars, FetchInv, ByteInv, Waiting, Left
  <2>2. CallerBody' \in Promise!Longer(CallerBody)
    BY <2>1, CallerBodyIs, BodyCases, Sizes DEF Promise!Longer, FetchInv, ByteInv
  <2> QED BY <1>6, <1>b, <2>1, <2>2, GoesOn DEF Transfer, Waiting
<1>7. CASE AfterBody
  <2>1. handler = "eof" /\ answer = "open" /\ block = "none" /\ UNCHANGED <<req, sent, rpc, timedOut>>
    BY <1>7, <1>b DEF AfterBody, callVars, Waiting, FetchInv, ByteInv, Left
  <2>2. CASE answer' # answer
    <3>1. timedOut /\ sent > 0 /\ answer' = "cut" /\ block' = block
      BY <1>7, <2>2 DEF AfterBody, Reply
    <3>2. CallerBody' = CallerBody /\ CallerBody \in {"part", "whole"}
      BY <2>1, <3>1, CallerBodyIs, BodyCases, Sizes DEF FetchInv, ByteInv
    <3> QED BY <2>1, <3>1, <3>2, EndsWell
            DEF Told, Promise!Later, Promise!Longer, Promise!Endings, Promise!Answers
  <2>3. CASE answer' = answer
    <3>1. block' = block \/ (sent = 0 /\ block' = "empty")
      BY <1>7, <2>3 DEF AfterBody, Reply
    <3>2. CallerBody' \in Promise!Longer(CallerBody)
      BY <2>1, <3>1, CallerBodyIs, BodyCases, Sizes DEF Promise!Longer, FetchInv, ByteInv
    <3> QED BY <2>1, <2>3, <3>2, GoesOn
  <2> QED BY <2>2, <2>3
<1>8. CASE WriteTrailer
  <2>1. CASE gone
    <3>1. Silent
      BY <1>8, <2>1 DEF Silent, WriteTrailer, Reply, callVars, Promise!Later
    <3> QED BY <1>0, <3>1
  <2>2. CASE ~gone
    <3>1. /\ handler = "trailer" /\ answer = "open" /\ UNCHANGED <<req, sent, rpc, timedOut, block>>
          /\ answer' = IF timedOut THEN "deadline" ELSE readStatus
      BY <1>8, <1>b, <2>2 DEF WriteTrailer, Reply, callVars, Waiting
    <3>2. /\ CallerBody' = CallerBody
          /\ sent = 0 => CallerBody = "empty"
          /\ sent # 0 => CallerBody = "whole" \/ (rpc = "mute" /\ CallerBody = "part")
      BY <2>2, <3>1, CallerBodyIs, BodyCases, Sizes DEF FetchInv, ByteInv
    <3>3. CASE timedOut
      BY <3>1, <3>2, <3>3, EndsWell
         DEF Told, Promise!Later, Promise!Longer, Promise!Endings, Promise!Answers
    <3>4. CASE ~timedOut
      <4>1. /\ ~closed /\ backend = "done" /\ rpc \in {"ok", "error", "mute"}
            /\ answer' = IF rpc = "mute" THEN "ok" ELSE rpc
        BY <3>1, <3>4 DEF FetchInv, CallInv, readStatus
      <4>2. rpc = "ok" => sent # 0
        BY <2>2, <3>1, <4>1, Sizes DEF FetchInv, ByteInv, Waiting
      <4> QED BY <3>1, <3>2, <4>1, <4>2, EndsWell
              DEF Told, Promise!Later, Promise!Longer, Promise!Endings, Promise!Answers
    <3> QED BY <3>3, <3>4
  <2> QED BY <2>1, <2>2
<1>9. CASE AnswerJson
  <2>1. CASE gone
    <3>1. Silent
      BY <1>9, <2>1 DEF Silent, AnswerJson, Reply, callVars, Promise!Later
    <3> QED BY <1>0, <3>1
  <2>2. CASE ~gone
    <3>1. /\ handler = "eof" /\ answer = "open" /\ UNCHANGED <<req, sent, rpc, timedOut>>
          /\ ready /\ block = "none" /\ sent = 0
      BY <1>9, <1>b, <2>2
         DEF AnswerJson, callVars, Waiting, Left, Json, FetchInv, CallInv, ByteInv
    <3>2. /\ CallerBody = "none"
          /\ block' = "json" => CallerBody' = "whole"
          /\ block' = "empty" => CallerBody' = "empty"
      BY <3>1, CallerBodyIs, BodyCases, Sizes DEF FetchInv, ByteInv
    <3>3. CASE timedOut
      <4>1. answer' = "deadline" /\ block' = "empty"
        BY <1>9, <2>2, <3>1, <3>3 DEF AnswerJson, Reply
      <4> QED BY <3>1, <3>2, <3>3, <4>1, EndsWell
              DEF Told, Promise!Later, Promise!Longer, Promise!Endings, Promise!Answers
    <3>4. CASE ~timedOut
      <4>1. /\ ~closed /\ backend = "done" /\ rpc \in {"ok", "error", "mute"}
            /\ readStatus = IF rpc = "mute" THEN "ok" ELSE rpc
            /\ rpc = "ok" => resp = Total
        BY <3>1, <3>4 DEF FetchInv, CallInv, ByteInv, readStatus
      <4>2. \/ rpc \in {"ok", "mute"} /\ answer' = "ok" /\ block' = "json"
            \/ rpc \in {"ok", "mute"} /\ answer' = "internal" /\ block' = "empty"
            \/ rpc = "mute" /\ answer' = "ok" /\ block' = "empty"
            \/ rpc = "error" /\ answer' = "error" /\ block' = "empty"
        BY <1>9, <2>2, <3>1, <3>4, <4>1 DEF AnswerJson, Reply
      <4> QED BY <3>1, <3>2, <4>2, EndsWell
              DEF Told, Promise!Later, Promise!Longer, Promise!Endings, Promise!Answers
    <3> QED BY <3>3, <3>4
  <2> QED BY <2>1, <2>2
<1> QED BY <1>1, <1>2, <1>3, <1>4, <1>5, <1>6, <1>7, <1>8, <1>9, StepOfRequest
        DEF RequestStep, HandlerSteps

(* The answers of fetch.go implement UnaryAnswer, whatever the backend,    *)
(* the client, the deadline and a shutdown do.                             *)
THEOREM AnswersTruthfully == Spec => UnaryPromise
<1>1. Init => Promise!Init
  <2> SUFFICES ASSUME Init PROVE Promise!Init
    OBVIOUS
  <2>1. CallerBody = "none"
    BY CallerBodyIs, BodyCases, GoFetchAssumption DEF Init, FetchInit
  <2> QED BY <2>1 DEF Init, FetchInit, Promise!Init
<1>2. FetchInv /\ FetchInv' /\ [Next]_vars => [Promise!Next]_(Promise!vars)
  BY StepRefines
<1> QED BY <1>1, <1>2, FetchSafety, PTL DEF Spec, UnaryPromise, Promise!Spec
=============================================================================
