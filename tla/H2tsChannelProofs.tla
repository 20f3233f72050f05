------------------------- MODULE H2tsChannelProofs -------------------------
(***************************************************************************)
(* What holds of the TypeScript client's h2ts channel for any number of    *)
(* calls, dials and attempts and any token bucket: the cache is the        *)
(* channel, the published connectivity is true, and failures cannot buy    *)
(* more retries than half the bucket.                                      *)
(***************************************************************************)
EXTENDS H2tsChannel, TLAPS

Links == {"none", "dialing", "open", "broken", "dead"}
Records ==
  [pc : {"new", "conn", "sent", "executed", "backoff", "done"},
   attempt : 1..MaxAttempts, replay : BOOLEAN,
   seen : Tunnels \cup {NoTunnel}, conn : Tunnels \cup {NoTunnel},
   code : Codes, abort : {"no", "cancel", "deadline"}]

(* The part of the state that belongs to the channel: conn(), the dial and *)
(* `die`, and close() work on it, and the calls only through conn().       *)
ChannelTypes ==
  /\ tunnel \in Tunnels \cup {NoTunnel} /\ dials \in 0..MaxDials
  /\ link \in [Tunnels -> Links]
  /\ alive \in [Tunnels -> BOOLEAN]
  /\ shut \subseteq Tunnels /\ closed \in BOOLEAN
  /\ watch \in {"IDLE", "CONNECTING", "READY", "TRANSIENT_FAILURE"}

(* Inductive strengthening for the channel: tunnels that were not dialled  *)
(* have no connection, the cached one has one that is not yet seen to be   *)
(* dead, and nothing is shut before close().                               *)
ChannelInv ==
  /\ ChannelTypes
  /\ \A t \in Tunnels : link[t] = "none" <=> t > dials
  /\ \A t \in Tunnels : t \in shut => t <= dials
  /\ tunnel # NoTunnel => link[tunnel] \in {"dialing", "open", "broken"}
  /\ ~closed => shut = {}
  /\ CacheIsTheChannel
  /\ WatchIsTruthful

(* Inductive strengthening for the bucket: what is left and what retries   *)
(* took never exceed what there was and what successes put back.           *)
BudgetInv ==
  /\ tokens \in 0..MaxTokens /\ spent \in Nat /\ earned \in Nat
  /\ Throttled => tokens + spent <= MaxTokens + earned
  /\ RetryBudget

-----------------------------------------------------------------------------
(* A step of a call that calls conn(), once or not at all. *)
Handout ==
  /\ UNCHANGED <<shut, closed>>
  /\ \/ UNCHANGED <<tunnel, dials, link, alive, watch>>
     \/ \E t \in Tunnels : conn(t)

(* A step of the bucket: one retry granted, one OK, one failure, or none.  *)
Bucket ==
  \/ UNCHANGED <<tokens, spent, earned>>
  \/ allowed /\ tokens' = onFailure /\ spent' = spent + Cost /\ earned' = earned
  \/ tokens' = onSuccess /\ spent' = spent /\ earned' = earned + TokenRatio
  \/ tokens' = onFailure /\ spent' = spent /\ earned' = earned

(* Every step of a call is a step of the bucket, and reaches the channel   *)
(* through conn() only.                                                    *)
LEMMA CallSteps ==
  ASSUME NEW c \in Calls,
         Start(c) \/ Execute(c) \/ Respond(c) \/ Abort(c) \/ ClientStep(c)
  PROVE  Handout /\ Bucket
<1>1. CASE Start(c)
  BY <1>1 DEF Start, unaryTry, Handout, Bucket
<1>2. CASE Execute(c) \/ Abort(c) \/ Send(c)
  BY <1>2 DEF Execute, Abort, Send, Handout, Bucket
<1>3. ASSUME NEW code, NEW pushback, attemptEnds(c, code, pushback)
      PROVE  Bucket
  BY <1>3 DEF attemptEnds, retried, Bucket
<1>4. CASE Respond(c)
  <2>1. Bucket
    BY <1>3, <1>4 DEF Respond
  <2>2. Handout
    BY <1>4 DEF Respond, Handout, channelVars
  <2> QED BY <2>1, <2>2
<1>5. CASE Catch(c)
  <2>1. CASE attemptEnds(c, errorForFailure(c), "none") /\ UNCHANGED channelVars
    BY <1>3, <2>1 DEF Handout, channelVars
  <2>2. CASE /\ unaryTry(c, [call[c] EXCEPT !.replay = TRUE])
             /\ UNCHANGED <<tokens, spent, earned>>
    BY <2>2 DEF unaryTry, Handout, Bucket
  <2> QED BY <1>5, <2>1, <2>2 DEF Catch
<1>6. CASE BackoffEnds(c)
  BY <1>6 DEF BackoffEnds, unaryTry, Handout, Bucket, channelVars
<1> QED BY <1>1, <1>2, <1>4, <1>5, <1>6 DEF ClientStep

(* A step of the bucket keeps the budget.  A retry is granted above half   *)
(* of a bucket of two tokens or more, so onFailure takes a whole token.    *)
LEMMA BucketStep ==
  ASSUME BudgetInv, Bucket
  PROVE  BudgetInv'
<1> USE ChannelAssumption
<1>1. CASE UNCHANGED <<tokens, spent, earned>>
  BY <1>1 DEF BudgetInv, RetryBudget
<1>2. CASE allowed /\ tokens' = onFailure /\ spent' = spent + Cost /\ earned' = earned
  BY <1>2 DEF BudgetInv, RetryBudget, allowed, onFailure
<1>3. CASE tokens' = onSuccess /\ spent' = spent /\ earned' = earned + TokenRatio
  BY <1>3 DEF BudgetInv, RetryBudget, onSuccess
<1>4. CASE tokens' = onFailure /\ spent' = spent /\ earned' = earned
  BY <1>4 DEF BudgetInv, RetryBudget, onFailure
<1> QED BY <1>1, <1>2, <1>3, <1>4 DEF Bucket

(* A step of a call keeps the channel's invariant: conn() dials only when  *)
(* nothing usable is cached, and the new tunnel takes its place.           *)
LEMMA HandoutStep ==
  ASSUME ChannelInv, Handout
  PROVE  ChannelInv'
<1> USE ChannelAssumption
<1>1. CASE UNCHANGED <<tunnel, dials, link, alive, watch>>
  BY <1>1 DEF Handout, ChannelInv, ChannelTypes, CacheIsTheChannel, WatchIsTruthful
<1>2. ASSUME NEW t \in Tunnels, conn(t), ~(tunnel # NoTunnel /\ alive[tunnel])
      PROVE  ChannelInv'
  <2>1. /\ t = dials + 1 /\ dials' = t /\ watch' = "CONNECTING" /\ tunnel' = t
        /\ link' = [link EXCEPT ![t] = "dialing"]
        /\ alive' = [alive EXCEPT ![t] = TRUE]
        /\ shut' = shut /\ closed' = closed
    BY <1>2 DEF Handout, conn
  <2>2. tunnel = NoTunnel
    BY <1>2 DEF ChannelInv, CacheIsTheChannel
  <2>3. ChannelTypes'
    BY <2>1 DEF ChannelInv, ChannelTypes, Links, Tunnels
  <2>4. \A u \in Tunnels : link'[u] = "none" <=> u > dials'
    BY <2>1 DEF ChannelInv, ChannelTypes, Tunnels
  <2>5. \A u \in Tunnels : u \in shut' => u <= dials'
    BY <2>1 DEF ChannelInv, ChannelTypes, Tunnels
  <2>6. link'[t] = "dialing" /\ alive'[t] /\ t # NoTunnel /\ t \notin shut
    BY <2>1 DEF ChannelInv, ChannelTypes, Tunnels, NoTunnel
  <2>7. \A u \in Tunnels : link[u] \in {"dialing", "open", "broken"} => u \in shut
    BY <2>2 DEF ChannelInv, CacheIsTheChannel, Tunnels, NoTunnel
  <2>8. CacheIsTheChannel'
    BY <2>1, <2>6, <2>7 DEF ChannelInv, ChannelTypes, CacheIsTheChannel
  <2>9. WatchIsTruthful'
    BY <2>1, <2>6 DEF WatchIsTruthful
  <2> QED BY <2>1, <2>3, <2>4, <2>5, <2>6, <2>8, <2>9 DEF ChannelInv
<1>3. ASSUME NEW t \in Tunnels, conn(t), tunnel # NoTunnel /\ alive[tunnel]
      PROVE  ChannelInv'
  BY <1>1, <1>3 DEF conn
<1> QED BY <1>1, <1>2, <1>3 DEF Handout

(* The callbacks of a dial and of a connection keep the channel's          *)
(* invariant: each clears the cache exactly when it ends the cached one.   *)
LEMMA TunnelSteps ==
  ASSUME ChannelInv, NEW t \in Tunnels, DialSettles(t) \/ Break(t) \/ Die(t)
  PROVE  ChannelInv'
<1> USE ChannelAssumption
<1>1. link \in [Tunnels -> Links] /\ alive \in [Tunnels -> BOOLEAN]
  BY DEF ChannelInv, ChannelTypes
<1>2. CASE DialOk(t)
  <2>1. \A u \in Tunnels : link'[u] = IF u = t THEN "open" ELSE link[u]
    BY <1>1, <1>2 DEF DialOk
  <2>2. ChannelTypes'
    BY <1>2 DEF DialOk, ChannelInv, ChannelTypes, Links
  <2>3. ~closed => tunnel = t
    BY <1>2 DEF DialOk, ChannelInv, CacheIsTheChannel
  <2>4. WatchIsTruthful'
    BY <1>2, <2>1, <2>3 DEF DialOk, WatchIsTruthful, NoTunnel, Tunnels
  <2> QED BY <1>2, <2>1, <2>2, <2>4 DEF DialOk, ChannelInv, CacheIsTheChannel
<1>3. CASE DialFails(t)
  <2>1. \A u \in Tunnels : /\ link'[u] = IF u = t THEN "dead" ELSE link[u]
                           /\ alive'[u] = IF u = t THEN FALSE ELSE alive[u]
    BY <1>1, <1>3 DEF DialFails
  <2>2. ChannelTypes'
    BY <1>3 DEF DialFails, ChannelInv, ChannelTypes, Links
  <2>3. ~closed => tunnel = t
    BY <1>3 DEF DialFails, ChannelInv, CacheIsTheChannel
  <2>4. WatchIsTruthful'
    BY <1>3, <2>1, <2>3 DEF DialFails, WatchIsTruthful, NoTunnel, Tunnels
  <2>5. CacheIsTheChannel'
    BY <1>3, <2>1 DEF DialFails, ChannelInv, ChannelTypes, CacheIsTheChannel, NoTunnel, Tunnels
  <2> QED BY <1>3, <2>1, <2>2, <2>4, <2>5 DEF DialFails, ChannelInv, ChannelTypes
<1>4. CASE Break(t)
  <2>1. \A u \in Tunnels : link'[u] = IF u = t THEN "broken" ELSE link[u]
    BY <1>1, <1>4 DEF Break
  <2>2. ChannelTypes'
    BY <1>4 DEF Break, ChannelInv, ChannelTypes, Links
  <2>3. WatchIsTruthful'
    BY <1>4, <2>1 DEF Break, ChannelInv, ChannelTypes, WatchIsTruthful, NoTunnel, Tunnels
  <2> QED BY <1>4, <2>1, <2>2, <2>3 DEF Break, ChannelInv, CacheIsTheChannel
<1>5. CASE Die(t)
  <2>1. \A u \in Tunnels : /\ link'[u] = IF u = t THEN "dead" ELSE link[u]
                           /\ alive'[u] = IF u = t THEN FALSE ELSE alive[u]
    BY <1>1, <1>5 DEF Die
  <2>2. ChannelTypes'
    BY <1>5 DEF Die, ChannelInv, ChannelTypes, Links
  <2>3. WatchIsTruthful'
    BY <1>5, <2>1 DEF Die, ChannelInv, ChannelTypes, WatchIsTruthful, NoTunnel, Tunnels
  <2>4. CacheIsTheChannel'
    BY <1>5, <2>1 DEF Die, ChannelInv, ChannelTypes, CacheIsTheChannel, NoTunnel, Tunnels
  <2> QED BY <1>5, <2>1, <2>2, <2>3, <2>4 DEF Die, ChannelInv, ChannelTypes
<1> QED BY <1>2, <1>3, <1>4, <1>5 DEF DialSettles

(* close() keeps the channel's invariant. *)
LEMMA CloseStep ==
  ASSUME ChannelInv, Close
  PROVE  ChannelInv'
<1>1. ChannelTypes'
  BY DEF Close, ChannelInv, ChannelTypes, NoTunnel
<1>2. \A t \in Tunnels : t \in shut' => t <= dials'
  BY ChannelAssumption DEF Close, ChannelInv, ChannelTypes, Tunnels, NoTunnel
<1>3. CacheIsTheChannel' /\ WatchIsTruthful'
  BY DEF Close, ChannelInv, CacheIsTheChannel, WatchIsTruthful, NoTunnel, Tunnels
<1> QED BY <1>1, <1>2, <1>3 DEF Close, ChannelInv, NoTunnel

(* The channel's invariant holds in every state. *)
THEOREM ChannelSafety == Spec => []ChannelInv
<1>1. Init => ChannelInv
  <2> SUFFICES ASSUME Init PROVE ChannelInv
    OBVIOUS
  <2>1. ChannelTypes
    <3>1. alive \in [Tunnels -> BOOLEAN] /\ closed \in BOOLEAN
      BY Zenon DEF Init
    <3>2. link \in [Tunnels -> Links] /\ shut \subseteq Tunnels
      BY DEF Init, Links
    <3>3. dials \in 0..MaxDials
      BY ChannelAssumption DEF Init
    <3> QED BY <3>1, <3>2, <3>3 DEF Init, ChannelTypes
  <2>2. \A t \in Tunnels : link[t] = "none" /\ t > dials
    BY ChannelAssumption DEF Init, Tunnels
  <2>3. CacheIsTheChannel /\ WatchIsTruthful
    BY <2>2 DEF Init, CacheIsTheChannel, WatchIsTruthful
  <2> QED BY <2>1, <2>2, <2>3 DEF Init, ChannelInv
<1>2. ChannelInv /\ [Next]_vars => ChannelInv'
  <2> SUFFICES ASSUME ChannelInv, [Next]_vars PROVE ChannelInv'
    OBVIOUS
  <2>1. CASE UNCHANGED vars
    <3>1. Handout
      BY <2>1 DEF vars, Handout
    <3> QED BY <3>1, HandoutStep
  <2>2. ASSUME NEW c \in Calls,
               Start(c) \/ Execute(c) \/ Respond(c) \/ Abort(c) \/ ClientStep(c)
        PROVE  ChannelInv'
    BY <2>2, CallSteps, HandoutStep
  <2>3. ASSUME NEW t \in Tunnels, DialSettles(t) \/ Break(t) \/ Die(t)
        PROVE  ChannelInv'
    BY <2>3, TunnelSteps
  <2>4. CASE Close
    BY <2>4, CloseStep
  <2> QED BY <2>1, <2>2, <2>3, <2>4 DEF Next, Finished
<1> QED BY <1>1, <1>2, PTL DEF Spec

(* The cached tunnel is the channel: a dead one is never cached and no     *)
(* live one, that close() is not closing, escapes the cache.               *)
THEOREM OneChannel == Spec => []CacheIsTheChannel
<1>1. ChannelInv => CacheIsTheChannel
  BY DEF ChannelInv
<1> QED BY <1>1, ChannelSafety, PTL

(* The connectivity state that ConnectivityWatch publishes is true until   *)
(* close().                                                                *)
THEOREM TrueConnectivity == Spec => []WatchIsTruthful
<1>1. ChannelInv => WatchIsTruthful
  BY DEF ChannelInv
<1> QED BY <1>1, ChannelSafety, PTL

(* A watcher sees IDLE between READY and CONNECTING, until close().        *)
THEOREM ReconnectIsVisible == Spec => ReadyThenIdle
<1>1. ASSUME ChannelInv, [Next]_vars, ~closed /\ watch = "READY"
      PROVE  watch' \in {"READY", "IDLE"}
  <2> USE ChannelAssumption
  <2>1. tunnel # NoTunnel /\ alive[tunnel] /\ link[tunnel] # "dialing" /\ shut = {}
    BY <1>1 DEF ChannelInv, WatchIsTruthful, CacheIsTheChannel
  <2>2. CASE Handout
    BY <1>1, <2>1, <2>2 DEF Handout, conn
  <2>3. ASSUME NEW t \in Tunnels, DialSettles(t) \/ Break(t) \/ Die(t)
        PROVE  watch' \in {"READY", "IDLE"}
    <3>1. link[t] # "dialing"
      BY <1>1, <2>1 DEF ChannelInv, CacheIsTheChannel
    <3> QED BY <1>1, <2>3, <3>1 DEF DialSettles, DialOk, DialFails, Break, Die
  <2>4. CASE Close
    BY <1>1, <2>4 DEF Close
  <2>5. CASE UNCHANGED vars
    BY <1>1, <2>5 DEF vars
  <2>6. ASSUME NEW c \in Calls,
               Start(c) \/ Execute(c) \/ Respond(c) \/ Abort(c) \/ ClientStep(c)
        PROVE  Handout
    BY <2>6, CallSteps
  <2> QED BY <1>1, <2>2, <2>3, <2>4, <2>5, <2>6 DEF Next, Finished
<1> QED BY <1>1, ChannelSafety, PTL DEF Spec, ReadyThenIdle

(* The bucket's invariant holds in every state. *)
THEOREM BudgetSafety == Spec => []BudgetInv
<1>1. Init => BudgetInv
  BY ChannelAssumption DEF Init, BudgetInv, RetryBudget
<1>2. BudgetInv /\ [Next]_vars => BudgetInv'
  <2> SUFFICES ASSUME BudgetInv, [Next]_vars PROVE BudgetInv'
    OBVIOUS
  <2>1. CASE UNCHANGED <<tokens, spent, earned>>
    <3>1. Bucket
      BY <2>1 DEF Bucket
    <3> QED BY <3>1, BucketStep
  <2>2. ASSUME NEW c \in Calls,
               Start(c) \/ Execute(c) \/ Respond(c) \/ Abort(c) \/ ClientStep(c)
        PROVE  BudgetInv'
    BY <2>2, CallSteps, BucketStep
  <2>3. ASSUME NEW t \in Tunnels, DialSettles(t) \/ Break(t) \/ Die(t)
        PROVE  BudgetInv'
    BY <2>1, <2>3 DEF DialSettles, DialOk, DialFails, Break, Die
  <2>4. CASE Close
    BY <2>1, <2>4 DEF Close
  <2>5. CASE UNCHANGED vars
    BY <2>1, <2>5 DEF vars
  <2> QED BY <2>2, <2>3, <2>4, <2>5 DEF Next, Finished
<1> QED BY <1>1, <1>2, PTL DEF Spec

(* Failures cannot buy more retries than half the token bucket and what    *)
(* successes have put back, for any number of concurrent calls.            *)
THEOREM BoundedRetries == Spec => []RetryBudget
<1>1. BudgetInv => RetryBudget
  BY DEF BudgetInv
<1> QED BY <1>1, BudgetSafety, PTL


-----------------------------------------------------------------------------
(* Inductive strengthening for the calls: a call that sleeps has attempts  *)
(* left.                                                                   *)
CallInv ==
  /\ call \in [Calls -> Records]
  /\ \A c \in Calls : call[c].pc = "backoff" => call[c].attempt < MaxAttempts

(* What a step may do to the record of the call it is a step of. *)
Advance(c) ==
  \E r \in Records : /\ call' = [call EXCEPT ![c] = r]
                     /\ r.pc = "backoff" => r.attempt < MaxAttempts

(* A step that puts a good record in place keeps the calls' invariant. *)
LEMMA AdvanceStep ==
  ASSUME CallInv, NEW c \in Calls, Advance(c)
  PROVE  CallInv'
<1>1. PICK r \in Records : /\ call' = [call EXCEPT ![c] = r]
                           /\ r.pc = "backoff" => r.attempt < MaxAttempts
  BY DEF Advance
<1>2. \A d \in Calls : call'[d] = IF d = c THEN r ELSE call[d]
  BY <1>1 DEF CallInv
<1>3. call' \in [Calls -> Records]
  BY <1>1 DEF CallInv
<1> QED BY <1>1, <1>2, <1>3 DEF CallInv

(* Every step of a call puts a good record in place. *)
LEMMA CallAdvances ==
  ASSUME CallInv, ChannelTypes, NEW c \in Calls,
         Start(c) \/ Execute(c) \/ Respond(c) \/ Abort(c) \/ ClientStep(c)
  PROVE  Advance(c)
<1> DEFINE r0 == call[c]
<1>1. /\ r0 \in Records
      /\ r0.pc = "backoff" => r0.attempt < MaxAttempts
      /\ r0.attempt \in 1..MaxAttempts
      /\ tunnel \in Tunnels \cup {NoTunnel}
  BY DEF CallInv, ChannelTypes, Records
<1>2. ASSUME NEW base \in Records, unaryTry(c, base)
      PROVE  Advance(c)
  <2>1. PICK t \in Tunnels : call' = [call EXCEPT ![c] =
                 [base EXCEPT !.pc = "conn", !.seen = tunnel, !.conn = t]]
    BY <1>2 DEF unaryTry
  <2>2. [base EXCEPT !.pc = "conn", !.seen = tunnel, !.conn = t] \in Records
    BY <1>1, <2>1 DEF Records
  <2>3. [base EXCEPT !.pc = "conn", !.seen = tunnel, !.conn = t].pc = "conn"
    BY DEF Records
  <2> QED BY <2>1, <2>2, <2>3 DEF Advance
<1>3. ASSUME NEW code \in Codes, NEW pushback, attemptEnds(c, code, pushback)
      PROVE  Advance(c)
  <2>1. CASE r0.attempt < MaxAttempts /\ call' = [call EXCEPT ![c] = leave(r0, "backoff", code)]
    <3>1. leave(r0, "backoff", code) \in Records
      BY <1>1 DEF leave, Records
    <3>2. leave(r0, "backoff", code).attempt < MaxAttempts
      BY <1>1, <2>1 DEF leave, Records
    <3> QED BY <2>1, <3>1, <3>2 DEF Advance
  <2>2. CASE call' = [call EXCEPT ![c] = leave(r0, "done", code)]
    <3>1. leave(r0, "done", code) \in Records
      BY <1>1 DEF leave, Records
    <3>2. leave(r0, "done", code).pc = "done"
      BY <1>1 DEF leave, Records
    <3> QED BY <2>2, <3>1, <3>2 DEF Advance
  <2> QED BY <1>3, <2>1, <2>2 DEF attemptEnds, retried
<1>4. ASSUME NEW pc \in {"sent", "executed", "done"}, call' = [call EXCEPT ![c].pc = pc]
      PROVE  Advance(c)
  <2>1. [r0 EXCEPT !.pc = pc] \in Records /\ [r0 EXCEPT !.pc = pc].pc = pc
    BY <1>1, <1>4 DEF Records
  <2>2. call' = [call EXCEPT ![c] = [r0 EXCEPT !.pc = pc]]
    BY <1>4
  <2> QED BY <1>4, <2>1, <2>2 DEF Advance
<1>5. CASE Start(c)
  BY <1>1, <1>2, <1>5 DEF Start
<1>6. CASE Execute(c) \/ Send(c)
  BY <1>4, <1>6 DEF Execute, Send
<1>7. CASE Respond(c)
  BY <1>3, <1>7 DEF Respond, Codes
<1>8. CASE Abort(c)
  <2>1. PICK why \in {"cancel", "deadline"} : call' = [call EXCEPT ![c].abort = why]
    BY <1>8 DEF Abort
  <2>2. /\ [r0 EXCEPT !.abort = why] \in Records
        /\ [r0 EXCEPT !.abort = why].pc = r0.pc
        /\ [r0 EXCEPT !.abort = why].attempt = r0.attempt
    BY <1>1 DEF Records
  <2>3. call' = [call EXCEPT ![c] = [r0 EXCEPT !.abort = why]]
    BY <2>1
  <2> QED BY <1>1, <2>2, <2>3 DEF Advance
<1>9. CASE Catch(c)
  <2>1. errorForFailure(c) \in Codes
    BY DEF errorForFailure, Codes
  <2>2. [r0 EXCEPT !.replay = TRUE] \in Records
    BY <1>1 DEF Records
  <2> QED BY <1>2, <1>3, <1>9, <2>1, <2>2 DEF Catch
<1>10. CASE BackoffEnds(c)
  <2>1. r0.attempt + 1 \in 1..MaxAttempts
    BY <1>1, <1>10, ChannelAssumption DEF BackoffEnds
  <2>2. [r0 EXCEPT !.attempt = @ + 1, !.replay = FALSE] \in Records
    BY <1>1, <2>1 DEF Records
  <2> QED BY <1>2, <1>4, <1>10, <2>2 DEF BackoffEnds
<1> QED BY <1>5, <1>6, <1>7, <1>8, <1>9, <1>10 DEF ClientStep

(* The calls' invariant holds in every state. *)
THEOREM CallSafety == Spec => []CallInv
<1>1. Init => CallInv
  BY ChannelAssumption DEF Init, CallInv, NewCall, Records, Codes, NoTunnel
<1>2. CallInv /\ ChannelInv /\ [Next]_vars => CallInv'
  <2> SUFFICES ASSUME CallInv, ChannelTypes, [Next]_vars PROVE CallInv'
    BY DEF ChannelInv
  <2>1. CASE UNCHANGED call
    BY <2>1 DEF CallInv
  <2>2. ASSUME NEW c \in Calls,
               Start(c) \/ Execute(c) \/ Respond(c) \/ Abort(c) \/ ClientStep(c)
        PROVE  CallInv'
    BY <2>2, CallAdvances, AdvanceStep
  <2>3. ASSUME NEW t \in Tunnels, DialSettles(t) \/ Break(t) \/ Die(t)
        PROVE  CallInv'
    BY <2>1, <2>3 DEF DialSettles, DialOk, DialFails, Break, Die
  <2>4. CASE Close \/ UNCHANGED vars
    BY <2>1, <2>4 DEF Close, vars
  <2> QED BY <2>2, <2>3, <2>4 DEF Next, Finished
<1> QED BY <1>1, <1>2, ChannelSafety, PTL DEF Spec

(* Type correctness of the channel, of its calls and of the bucket. *)
THEOREM Types == Spec => []TypeOK
<1>1. CallInv /\ ChannelInv /\ BudgetInv => TypeOK
  BY DEF CallInv, ChannelInv, ChannelTypes, BudgetInv, TypeOK, Records, Links
<1> QED BY <1>1, CallSafety, ChannelSafety, BudgetSafety, PTL

(* Once its signal is aborted a call begins neither a transparent replay   *)
(* nor another attempt of the policy.                                      *)
THEOREM NothingAfterAbort == Spec => AbortIsFinal
<1> DEFINE Kept(c) == /\ call'[c].attempt = call[c].attempt
                      /\ call'[c].replay = call[c].replay
<1>1. ASSUME CallInv, [Next]_vars, NEW c \in Calls, aborted(c), call[c].pc # "new"
      PROVE  Kept(c)
  <2>1. call[c] \in Records /\ call \in [Calls -> Records]
    BY <1>1 DEF CallInv
  <2>2. CASE UNCHANGED call
    BY <2>2
  <2>3. ASSUME NEW d \in Calls, d # c, NEW r, call' = [call EXCEPT ![d] = r]
        PROVE  Kept(c)
    BY <2>1, <2>3
  <2>4. ASSUME NEW d \in Calls, d # c,
               Start(d) \/ Execute(d) \/ Respond(d) \/ Abort(d) \/ ClientStep(d)
        PROVE  Kept(c)
    <3>1. CASE Start(d) \/ Catch(d) \/ BackoffEnds(d)
      BY <2>3, <2>4, <3>1 DEF Start, Catch, BackoffEnds, unaryTry, attemptEnds
    <3>2. CASE Execute(d) \/ Send(d) \/ Abort(d) \/ Respond(d)
      BY <2>3, <2>4, <3>2 DEF Execute, Send, Abort, Respond, attemptEnds
    <3> QED BY <2>4, <3>1, <3>2 DEF ClientStep
  <2>5. ASSUME NEW code, NEW pushback, attemptEnds(c, code, pushback)
        PROVE  Kept(c)
    <3>1. PICK pc : call' = [call EXCEPT ![c] = leave(call[c], pc, code)]
      BY <2>5 DEF attemptEnds
    <3>2. call'[c] = leave(call[c], pc, code)
      BY <2>1, <3>1
    <3> QED BY <2>1, <3>2 DEF leave, Records
  <2>6. CASE Start(c) \/ Send(c) \/ Respond(c) \/ Abort(c)
    BY <1>1, <2>6 DEF Start, Send, Respond, Abort
  <2>7. CASE Execute(c)
    BY <2>1, <2>7 DEF Execute, Records
  <2>8. CASE Catch(c)
    BY <1>1, <2>5, <2>8 DEF Catch
  <2>9. CASE BackoffEnds(c)
    BY <1>1, <2>1, <2>9 DEF BackoffEnds, Records
  <2>10. ASSUME NEW t \in Tunnels, DialSettles(t) \/ Break(t) \/ Die(t)
         PROVE  Kept(c)
    BY <2>2, <2>10 DEF DialSettles, DialOk, DialFails, Break, Die
  <2>11. CASE Close \/ UNCHANGED vars
    BY <2>2, <2>11 DEF Close, vars
  <2> QED BY <1>1, <2>4, <2>6, <2>7, <2>8, <2>9, <2>10, <2>11 DEF Next, Finished, ClientStep
<1>2. CallInv /\ [Next]_vars =>
        [\A c \in Calls : aborted(c) /\ call[c].pc # "new" => Kept(c)]_vars
  BY <1>1
<1> QED BY <1>2, CallSafety, PTL DEF Spec, AbortIsFinal
=============================================================================
