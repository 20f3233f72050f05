-------------------------- MODULE RustFetchProofs --------------------------
(***************************************************************************)
(* The Rust Fetch surface implements UnaryAnswer, for every set of         *)
(* requests, message sizes, prefix length, size limit and schema history:  *)
(* the status an answer ends with is true of the RPC and stands behind a   *)
(* whole block, or the answer visibly breaks off.                          *)
(*                                                                         *)
(* What has to be known of a state is FetchInv: an answer is open as long  *)
(* as its handler runs; the bytes the caller has are those read from the   *)
(* backend without the compression flag; and a status of the backend's     *)
(* comes when its message is whole or was not begun.                       *)
(***************************************************************************)
EXTENDS RustFetch, TLAPS

Early == {"route", "lead", "collect"}

FetchInv ==
    /\ req \in Requests
    /\ resp \in Nat /\ sent \in Nat /\ skip \in {0, 1}
    /\ pc \in Early \cup {"call", "stream", "gather", "done"}
    /\ pc = "lead" => req.kind = "proto"
    /\ pc = "collect" => req.kind \in Json
    /\ pc = "call" => req.kind \in Json \cup {"proto", "grpc"}
    /\ pc = "stream" => req.kind = "proto"
    /\ pc = "gather" => req.kind \in Json
    /\ answer = "open" <=> pc # "done"
    /\ pc # "done" => block = "none" /\ rpc # "failed"
    /\ pc \in Early => rpc = "none" /\ resp = 0
    /\ pc = "call" => rpc = "running" /\ resp = 0
    /\ pc \in {"stream", "gather"} =>
         \/ rpc = "running"
         \/ rpc = "ok" /\ resp = Total
         \/ rpc = "error" /\ resp \in {0, Total}
         \/ rpc = "mute"
    /\ pc = "stream" => sent + 1 = resp + skip /\ (skip = 1 <=> resp = 0)
    /\ pc \notin {"stream", "done"} => sent = 0 /\ (pc \in Early \cup {"call"} => skip = 1)

-----------------------------------------------------------------------------
(* The sizes of a request are numbers, and a block has at least a prefix.  *)
LEMMA Sizes ==
  ASSUME FetchInv
  PROVE  /\ req.reply \in Nat /\ req.size \in Nat
         /\ LenPrefix \in Nat /\ LenPrefix > 0 /\ MaxMessage \in Nat
         /\ Total \in Nat /\ Total = 1 + LenPrefix + req.reply
BY FetchAssumption DEF FetchInv, Total

(* The steps of the schema cache do not touch the request.                 *)
LEMMA SchemaStep == Schema => UNCHANGED <<replyVars, requestVars>>
BY DEF Schema, Redeploy, RetryV1alpha, ServicesListed, ServiceFetched, ServiceSkipped,
       LoadLands, LoadFails, RefreshWakes, AdminReload

(* Up to its dispatch a request is refused, read on or dispatched.         *)
Entering ==
    /\ pc \in Early
    /\ UNCHANGED <<req, resp, skip, sent, block, expired>>
    /\ pc' = "lead" => req.kind = "proto"
    /\ pc' = "collect" => req.kind \in Json
    /\ pc' = "call" => req.kind \in Json \cup {"proto", "grpc"}
    /\ \/ pc' \in Early /\ UNCHANGED <<rpc, answer>>
       \/ pc' = "call" /\ rpc' = "running" /\ UNCHANGED answer
       \/ pc' = "done" /\ answer' \in {"refused", "upgraded", "undescribed"} /\ UNCHANGED rpc

LEMMA EnteringStep ==
  ASSUME FetchInv, HandleAtOnce \/ Describe \/ NoDescriptors \/ Read \/ ReadBreaks
  PROVE  Entering
<1> USE DEF Json
<1>1. CASE HandleAtOnce
  BY <1>1 DEF HandleAtOnce, Entering, Early, Refuse, Dispatch
<1>2. ASSUME NEW v, Described(v) PROVE Entering
  BY <1>2 DEF Described, Entering, Early, Refuse, Go
<1>3. CASE Describe \/ NoDescriptors
  BY <1>2, <1>3 DEF Describe, NoDescriptors
<1>4. CASE ReadEnd
  BY <1>4 DEF FetchInv, ReadEnd, Transcode, Entering, Early, Refuse, Dispatch
<1>5. ASSUME NEW k \in 1..req.size, ReadChunk(k) PROVE Entering
  BY <1>5 DEF FetchInv, ReadChunk, Entering, Early, Refuse, Dispatch, Go
<1>6. CASE ReadBreaks
  BY <1>6 DEF ReadBreaks, Entering, Early, Refuse
<1> QED BY <1>1, <1>3, <1>4, <1>5, <1>6 DEF Read

-----------------------------------------------------------------------------
(* FetchInv holds in every state.                                          *)
THEOREM FetchSafety == Spec => []FetchInv
<1>1. Init => FetchInv
  <2> SUFFICES ASSUME Init PROVE FetchInv
    OBVIOUS
  <2>1. req \in Requests
    BY DEF Init, Requests
  <2> QED BY <2>1 DEF Init, FetchInv, Early
<1>2. FetchInv /\ [Next]_vars => FetchInv'
  <2> SUFFICES ASSUME FetchInv, [Next]_vars PROVE FetchInv'
    OBVIOUS
  <2>0. ASSUME UNCHANGED <<replyVars, requestVars>> PROVE FetchInv'
    BY <2>0 DEF replyVars, requestVars, FetchInv, Total
  <2>1. CASE Schema
    BY <2>0, <2>1, SchemaStep
  <2>2. CASE Entering
    BY <2>2 DEF Entering, FetchInv, Early, Total
  <2>3. ASSUME NEW b \in BOOLEAN, Head(b) PROVE FetchInv'
    BY <2>3 DEF Head, End, FetchInv, Early, Total, schemaVars
  <2>4. CASE CallFails
    BY <2>4 DEF CallFails, End, Status, FetchInv, Early, Total
  <2>5. ASSUME NEW k \in 1..Total, Data(k) PROVE FetchInv'
    BY <2>5, Sizes DEF Data, MinOf, requestVars, FetchInv, Early, Total
  <2>6. ASSUME NEW s \in {"ok", "error", "mute"}, Trailers(s) PROVE FetchInv'
    BY <2>6 DEF Trailers, requestVars, FetchInv, Early, Total
  <2>7. CASE BodyFails
    BY <2>7 DEF BodyFails, End, Status, FetchInv, Early, Total
  <2>8. CASE BodyEnds
    BY <2>8 DEF BodyEnds, read_status, End, Status, FetchInv, Early, Total
  <2>9. CASE Deadline
    BY <2>9 DEF Deadline, End, Status, FetchInv, Early, Total
  <2>10. CASE UNCHANGED vars
    BY <2>0, <2>10 DEF vars
  <2> QED BY <2>1, <2>2, <2>3, <2>4, <2>5, <2>6, <2>7, <2>8, <2>9, <2>10, EnteringStep
          DEF Next, Backend
<1> QED BY <1>1, <1>2, PTL DEF Spec

-----------------------------------------------------------------------------
(* What the caller has, from what was sent and what the handler wrote.     *)
BodyOf(b, s, r) ==
    CASE b = "json" -> "whole"
      [] b = "empty" -> "empty"
      [] b = "none" -> IF s = 0 THEN "none" ELSE IF s = LenPrefix + r THEN "whole" ELSE "part"

LEMMA CallerBodyIs ==
    /\ CallerBody = BodyOf(block, sent, req.reply)
    /\ CallerBody' = BodyOf(block', sent', req'.reply)
BY DEF CallerBody, BodyOf, take_block

LEMMA BodyCases ==
  ASSUME NEW s \in Nat, NEW r \in Nat
  PROVE  /\ BodyOf("json", s, r) = "whole"
         /\ BodyOf("empty", s, r) = "empty"
         /\ BodyOf("none", 0, r) = "none"
         /\ s = LenPrefix + r => BodyOf("none", s, r) = "whole"
         /\ s # 0 /\ s # LenPrefix + r => BodyOf("none", s, r) = "part"
BY FetchAssumption DEF BodyOf

(* The ways an abstract step can come about: an answer that goes on, and   *)
(* one that ends.                                                          *)
LEMMA GoesOn ==
  ASSUME CallerAnswer = "open", CallerAnswer' = "open", expired' = expired, Unrendered' = Unrendered,
         rpc' \in Promise!Later(rpc), CallerBody' \in Promise!Longer(CallerBody)
  PROVE  Promise!Next
BY DEF Promise!Next, Promise!Endings, Promise!Answers

LEMMA EndsWell ==
  ASSUME CallerAnswer = "open", expired' \in {expired, TRUE}, Unrendered' = Unrendered,
         rpc' \in Promise!Later(rpc), CallerBody' \in Promise!Longer(CallerBody),
         CallerAnswer' \in Promise!Endings(rpc', Unrendered, expired', CallerBody')
  PROVE  Promise!Next
BY Zenon DEF Promise!Next

(* Every step of the server is a step of UnaryAnswer or changes nothing    *)
(* that the caller sees.                                                   *)
LEMMA StepRefines ==
  ASSUME FetchInv, FetchInv', [Next]_vars
  PROVE  [Promise!Next]_(Promise!vars)
<1> USE DEF CallerAnswer
<1>0. ASSUME UNCHANGED <<replyVars, requestVars>> PROVE UNCHANGED Promise!vars
  BY <1>0 DEF replyVars, requestVars, CallerBody, Unrendered, Promise!vars
<1>u. [Next]_vars => Unrendered' = Unrendered
  BY SchemaStep, EnteringStep
     DEF Next, vars, requestVars, Entering, Backend, Head, CallFails, Data, Trailers, BodyFails,
         BodyEnds, Deadline, Unrendered
<1>1. CASE Schema
  BY <1>0, <1>1, SchemaStep
<1>a. pc # "done" => CallerAnswer = "open"
  BY DEF FetchInv
<1>b. pc \notin {"stream", "done"} => CallerBody = "none"
  BY CallerBodyIs, BodyCases, Sizes DEF FetchInv
<1>2. CASE Entering
  <2>1. CallerBody = "none" /\ CallerBody' = "none"
    BY <1>2, <1>b, CallerBodyIs, BodyCases, Sizes DEF Entering, FetchInv, Early
  <2> QED BY <1>2, <1>a, <1>u, <2>1, EndsWell
          DEF Entering, FetchInv, Early, Promise!Later, Promise!Longer, Promise!Endings,
              Promise!Answers
<1>3. ASSUME NEW b \in BOOLEAN, Head(b) PROVE Promise!Next
  <2>1. CallerBody = "none" /\ CallerBody' = "none"
    BY <1>3, <1>b, CallerBodyIs, BodyCases, Sizes DEF Head, FetchInv, Early
  <2> QED BY <1>3, <1>a, <1>u, <2>1, EndsWell
          DEF Head, End, FetchInv, Early, Promise!Later, Promise!Longer, Promise!Endings,
              Promise!Answers
<1>4. CASE CallFails
  <2>1. CallerBody = "none" /\ CallerBody' = IF req.kind = "grpc" THEN "none" ELSE "empty"
    BY <1>4, <1>b, CallerBodyIs, BodyCases, Sizes DEF CallFails, End, Status, FetchInv, Early
  <2> QED BY <1>4, <1>a, <1>u, <2>1, EndsWell
          DEF CallFails, End, Status, FetchInv, Early, Promise!Later, Promise!Longer,
              Promise!Endings, Promise!Answers
<1>5. ASSUME NEW k \in 1..Total, Data(k) PROVE Promise!Next
  <2>1. CallerBody' \in Promise!Longer(CallerBody)
    <3>1. sent' >= sent /\ sent' <= LenPrefix + req.reply /\ block = "none" /\ block' = "none"
          /\ req' = req
      BY <1>5, Sizes DEF Data, MinOf, requestVars, FetchInv
    <3> QED BY <3>1, CallerBodyIs, BodyCases, Sizes DEF Promise!Longer, FetchInv
  <2> QED BY <1>5, <1>a, <1>u, <2>1, GoesOn DEF Data, requestVars, FetchInv, Promise!Later
<1>6. ASSUME NEW s \in {"ok", "error", "mute"}, Trailers(s) PROVE Promise!Next
  <2>1. CallerBody' = CallerBody
    BY <1>6 DEF Trailers, requestVars, CallerBody
  <2> QED BY <1>6, <1>a, <1>u, <2>1, GoesOn
          DEF Trailers, requestVars, FetchInv, Promise!Later, Promise!Longer
<1>7. CASE BodyFails
  <2>1. CASE pc = "stream"
    <3>1. CallerBody' = CallerBody /\ CallerBody \in {"none", "part", "whole"}
      BY <1>7, <2>1, CallerBodyIs, BodyCases, Sizes DEF BodyFails, End, FetchInv
    <3> QED BY <1>7, <1>a, <1>u, <2>1, <3>1, EndsWell
            DEF BodyFails, End, Promise!Later, Promise!Longer, Promise!Endings, Promise!Answers
  <2>2. CASE pc = "gather"
    <3>1. CallerBody = "none" /\ CallerBody' = "empty"
      BY <1>7, <1>b, <2>2, CallerBodyIs, BodyCases, Sizes DEF BodyFails, End, Status, FetchInv
    <3> QED BY <1>7, <1>a, <1>u, <2>2, <3>1, EndsWell
            DEF BodyFails, End, Status, Promise!Later, Promise!Longer, Promise!Endings,
                Promise!Answers
  <2> QED BY <1>7, <2>1, <2>2 DEF BodyFails
<1>8. CASE BodyEnds
  <2>1. CASE pc = "stream"
    <3>1. /\ answer' = read_status /\ UNCHANGED <<rpc, expired, req, sent>>
          /\ block = "none" /\ block' = IF sent = 0 THEN "empty" ELSE "none"
          /\ \/ rpc = "ok" /\ sent = LenPrefix + req.reply /\ sent # 0
             \/ rpc = "error" /\ sent = 0
             \/ rpc = "error" /\ sent = LenPrefix + req.reply /\ sent # 0
             \/ rpc = "mute"
      BY <1>8, <2>1, Sizes DEF BodyEnds, End, FetchInv
    <3>2. /\ sent = 0 => CallerBody = "none" /\ CallerBody' = "empty"
          /\ sent # 0 => CallerBody' = CallerBody /\ CallerBody \in {"part", "whole"}
          /\ sent = LenPrefix + req.reply /\ sent # 0 => CallerBody = "whole"
      BY <3>1, CallerBodyIs, BodyCases, Sizes DEF FetchInv
    <3>3. rpc = "ok" => ~Unrendered
      BY <2>1 DEF FetchInv, Unrendered, Json
    <3> QED BY <1>a, <1>u, <2>1, <3>1, <3>2, <3>3, EndsWell
            DEF read_status, Promise!Later, Promise!Longer, Promise!Endings, Promise!Answers
  <2>2. CASE pc = "gather"
    <3>1. /\ UNCHANGED <<rpc, expired, req, sent>>
          /\ \/ rpc \in {"ok", "mute"} /\ req.reply # 0 /\ answer' = "ok" /\ block' = "json"
             \/ rpc \in {"ok", "mute"} /\ answer' = "internal" /\ block' = "empty"
             \/ rpc = "ok" /\ req.reply = 0 /\ answer' = "ok" /\ block' = "empty"
             \/ rpc = "mute" /\ answer' = "ok" /\ block' = "empty"
             \/ rpc = "error" /\ answer' = "error" /\ block' = "empty"
      BY <1>8, <2>2 DEF BodyEnds, read_status, End, Status, FetchInv
    <3>2. CallerBody = "none" /\ CallerBody' = IF block' = "json" THEN "whole" ELSE "empty"
      BY <1>b, <2>2, <3>1, CallerBodyIs, BodyCases, Sizes DEF FetchInv
    <3>3. Unrendered <=> req.reply = 0
      BY <2>2 DEF FetchInv, Unrendered
    <3> QED BY <1>a, <1>u, <2>2, <3>1, <3>2, <3>3, EndsWell
            DEF Promise!Later, Promise!Longer, Promise!Endings, Promise!Answers
  <2> QED BY <1>8, <2>1, <2>2 DEF BodyEnds
<1>9. CASE Deadline
  <2>1. CASE pc = "stream" /\ sent > 0
    <3>1. CallerBody' = CallerBody /\ CallerBody \in {"part", "whole"}
      BY <1>9, <2>1, CallerBodyIs, BodyCases, Sizes DEF Deadline, End, FetchInv
    <3> QED BY <1>9, <1>a, <1>u, <2>1, <3>1, EndsWell
            DEF Deadline, End, Promise!Later, Promise!Longer, Promise!Endings, Promise!Answers
  <2>2. CASE ~(pc = "stream" /\ sent > 0)
    <3>1. CallerBody = "none" /\ CallerBody' = "empty"
      BY <1>9, <2>2, CallerBodyIs, BodyCases, Sizes DEF Deadline, End, Status, FetchInv
    <3> QED BY <1>9, <1>a, <1>u, <2>2, <3>1, EndsWell
            DEF Deadline, End, Status, Promise!Later, Promise!Longer, Promise!Endings,
                Promise!Answers
  <2> QED BY <2>1, <2>2
<1>10. CASE UNCHANGED vars
  BY <1>0, <1>10 DEF vars
<1> QED BY <1>1, <1>2, <1>3, <1>4, <1>5, <1>6, <1>7, <1>8, <1>9, <1>10, EnteringStep
        DEF Next, Backend

(* The answers of fetch.rs implement UnaryAnswer, whatever the backend,    *)
(* the client, the clock and the schema cache do.                          *)
THEOREM AnswersTruthfully == Spec => UnaryPromise
<1>1. Init => Promise!Init
  <2> SUFFICES ASSUME Init PROVE Promise!Init
    OBVIOUS
  <2>1. CallerBody = "none"
    BY DEF Init, CallerBody, take_block
  <2>2. Unrendered \in BOOLEAN
    BY DEF Unrendered
  <2> QED BY <2>1, <2>2 DEF Init, Promise!Init, CallerAnswer
<1>2. FetchInv /\ FetchInv' /\ [Next]_vars => [Promise!Next]_(Promise!vars)
  BY StepRefines
<1> QED BY <1>1, <1>2, FetchSafety, PTL DEF Spec, UnaryPromise, Promise!Spec
=============================================================================
