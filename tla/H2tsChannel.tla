---------------------------- MODULE H2tsChannel ----------------------------
(***************************************************************************)
(* Unary calls of the TypeScript client over its one h2ts channel:         *)
(* `Client.makeUnaryRequest` (node/packages/client/src/client.ts) with its *)
(* retry policy and token bucket (retry.ts), its cancellation context      *)
(* (context.ts), and under it the tunnel cache, the redial and the         *)
(* transparent replay of `H2tsTransport` (h2ts-transport.ts) with the      *)
(* connectivity state it publishes (connectivity.ts).                      *)
(*                                                                         *)
(* JavaScript runs one callback at a time, so an action is what runs       *)
(* between two awaits.  The h2ts library and the server are external: a    *)
(* dial succeeds or fails, a connection breaks at any time, a request that *)
(* is on an open connection may be executed and may be answered.           *)
(*                                                                         *)
(* Tunnels are numbered in the order of their dials; the last one, the     *)
(* bound MaxDials, neither fails nor breaks nor is closed, so that a call  *)
(* never needs a dial the bound does not allow.                            *)
(***************************************************************************)
EXTENDS Integers, FiniteSets

CONSTANTS
  Calls,          \* the unary calls the application makes
  MaxDials,       \* bound: how many tunnels are dialled
  Policy,         \* TRUE when the client was built with `retry`
  MaxAttempts,    \* policy.maxAttempts
  Throttled,      \* TRUE when the client was built with `retryThrottling`
  MaxTokens,      \* throttle.maxTokens, in units that make TokenRatio whole
  Cost,           \* the one token of onFailure, in the same units
  TokenRatio      \* throttle.tokenRatio, in the same units

ASSUME ChannelAssumption ==
  /\ MaxDials \in Nat \ {0} /\ MaxAttempts \in Nat \ {0}
  /\ Policy \in BOOLEAN /\ Throttled \in BOOLEAN
  /\ MaxTokens \in Nat /\ Cost \in Nat \ {0} /\ TokenRatio \in Nat
  /\ 2 * Cost <= MaxTokens       \* a bucket of two tokens or more

VARIABLES
  tunnel,         \* this.tunnel: the cached tunnel, NoTunnel for null
  dials,          \* how many tunnels have been dialled
  link,           \* the connection of each tunnel, as the library has it
  alive,          \* tunnel.alive
  shut,           \* tunnels on whose connection close() chained c.close()
  closed,         \* this.closed
  watch,          \* the connectivity state
  tokens,         \* throttle.tokens
  call,           \* the calls
  spent,          \* ghost: what the policy's retries have cost, in tokens
  earned          \* ghost: what calls that ended with OK have put back

channelVars == <<tunnel, dials, link, alive, shut, closed, watch>>
vars == <<tunnel, dials, link, alive, shut, closed, watch, tokens, call, spent,
          earned>>

Tunnels == 1..MaxDials
NoTunnel == 0
Codes == {"ok", "unavailable", "failed", "cancelled", "deadline"}
Retryable == {"unavailable"}
Pushbacks == {"none", "stop", "delay"}

(* A call: where it waits, the attempt of the policy and the try of the    *)
(* transport it is in, the tunnel `unary` read before conn(), the tunnel   *)
(* conn() handed out, the last status, and why its signal was aborted.     *)
NewCall ==
  [pc |-> "new", attempt |-> 1, replay |-> FALSE, seen |-> NoTunnel,
   conn |-> NoTunnel, code |-> "ok", abort |-> "no"]

aborted(c) == call[c].abort # "no"

-----------------------------------------------------------------------------
(* retry.ts *)

(* Mutation: a retry is allowed while there is a token left.               *)
allowedToTheLast == ~Throttled \/ tokens > 0

(* throttle.allowed: a retry is allowed only above half-full *)
allowed == ~Throttled \/ 2 * tokens > MaxTokens

(* throttle.onFailure and throttle.onSuccess *)
onFailure == IF Throttled THEN (IF tokens > Cost THEN tokens - Cost ELSE 0)
             ELSE tokens
onSuccess == IF ~Throttled THEN tokens
             ELSE IF tokens + TokenRatio < MaxTokens THEN tokens + TokenRatio
             ELSE MaxTokens

(* nextDelay # null: whether an attempt that ended with this status is     *)
(* retried.  A pushback that names a delay stands in for a retryable code. *)
retried(code, pushback, attempt) ==
  /\ Policy
  /\ pushback # "stop"
  /\ attempt < MaxAttempts
  /\ pushback = "delay" \/ code \in Retryable
  /\ allowed

-----------------------------------------------------------------------------
(* h2ts-transport.ts: the tunnel cache *)

(* conn() hands out tunnel t: the cached one while it is alive, else a new *)
(* dial, which replaces it.                                                *)
conn(t) ==
  \/ /\ tunnel # NoTunnel /\ alive[tunnel]
     /\ t = tunnel
     /\ UNCHANGED <<tunnel, dials, link, alive, watch>>
  \/ /\ ~(tunnel # NoTunnel /\ alive[tunnel])
     /\ t = dials + 1
     /\ dials' = t
     /\ watch' = "CONNECTING"
     /\ link' = [link EXCEPT ![t] = "dialing"]
     /\ alive' = [alive EXCEPT ![t] = TRUE]
     /\ tunnel' = t

(* stale: the tunnel a call was about to use is known to be dead *)
stale(t) == t # NoTunnel /\ ~alive[t]

(* One try of `unary`, up to its first await: the cached tunnel is read,   *)
(* then conn() is called.                                                  *)
unaryTry(c, base) ==
  \E t \in Tunnels :
    /\ conn(t)
    /\ call' = [call EXCEPT ![c] =
                  [base EXCEPT !.pc = "conn", !.seen = tunnel, !.conn = t]]
    /\ UNCHANGED <<shut, closed>>

(* The dial of a tunnel resolves, its callback included *)
DialOk(t) ==
  /\ link[t] = "dialing"
  /\ link' = [link EXCEPT ![t] = "open"]
  /\ watch' = "READY"
  /\ UNCHANGED <<dials, tunnel, alive, shut, closed, tokens, call, spent, earned>>

(* Mutation: the failed dial is dropped but not published.                 *)
DialFailsSilently(t) ==
  /\ link[t] = "dialing" /\ t # MaxDials
  /\ link' = [link EXCEPT ![t] = "dead"]
  /\ alive' = [alive EXCEPT ![t] = FALSE]
  /\ tunnel' = IF tunnel = t THEN NoTunnel ELSE tunnel
  /\ UNCHANGED <<dials, watch, shut, closed, tokens, call, spent, earned>>

(* The dial of a tunnel is rejected, its callback included *)
DialFails(t) ==
  /\ link[t] = "dialing" /\ t # MaxDials
  /\ link' = [link EXCEPT ![t] = "dead"]
  /\ alive' = [alive EXCEPT ![t] = FALSE]
  /\ tunnel' = IF tunnel = t THEN NoTunnel ELSE tunnel
  /\ watch' = "TRANSIENT_FAILURE"
  /\ UNCHANGED <<dials, shut, closed, tokens, call, spent, earned>>

(* The connection of a tunnel is lost, or its c.close() takes effect: from *)
(* here on the library rejects what is in flight on it.                    *)
Break(t) ==
  /\ link[t] = "open" /\ t # MaxDials
  /\ link' = [link EXCEPT ![t] = "broken"]
  /\ UNCHANGED <<dials, tunnel, alive, shut, closed, watch, tokens, call,
                 spent, earned>>

(* Mutation: `die` marks the tunnel dead and leaves it in the cache.       *)
DieKeepsCache(t) ==
  /\ link[t] = "broken"
  /\ link' = [link EXCEPT ![t] = "dead"]
  /\ alive' = [alive EXCEPT ![t] = FALSE]
  /\ UNCHANGED <<dials, tunnel, watch, shut, closed, tokens, call, spent, earned>>

(* connection.closed resolves and `die` runs *)
Die(t) ==
  /\ link[t] = "broken"
  /\ link' = [link EXCEPT ![t] = "dead"]
  /\ alive' = [alive EXCEPT ![t] = FALSE]
  /\ IF tunnel = t
     THEN /\ tunnel' = NoTunnel
          /\ watch' = IF closed THEN watch ELSE "IDLE"
     ELSE UNCHANGED <<tunnel, watch>>
  /\ UNCHANGED <<dials, shut, closed, tokens, call, spent, earned>>

(* Client.close() through H2tsTransport.close() *)
Close ==
  /\ ~closed /\ tunnel # MaxDials
  /\ closed' = TRUE
  /\ tunnel' = NoTunnel
  /\ shut' = shut \cup ({tunnel} \ {NoTunnel})
  /\ UNCHANGED <<dials, link, alive, watch, tokens, call, spent, earned>>

-----------------------------------------------------------------------------
(* client.ts: makeUnaryRequest *)

(* The application makes a call; everything up to the first await runs *)
Start(c) ==
  /\ call[c].pc = "new"
  /\ unaryTry(c, call[c])
  /\ UNCHANGED <<tokens, spent, earned>>

(* conn() resolved and the request is handed to the open connection *)
Send(c) ==
  /\ call[c].pc = "conn" /\ link[call[c].conn] = "open" /\ ~aborted(c)
  /\ call' = [call EXCEPT ![c].pc = "sent"]
  /\ UNCHANGED <<dials, tunnel, link, alive, shut, closed, watch, tokens,
                 spent, earned>>

(* The server executes a request that reached it *)
Execute(c) ==
  /\ call[c].pc = "sent" /\ link[call[c].conn] = "open"
  /\ call' = [call EXCEPT ![c].pc = "executed"]
  /\ UNCHANGED <<dials, tunnel, link, alive, shut, closed, watch, tokens, spent, earned>>

(* `unary` has returned or thrown: its locals are gone *)
leave(r, pc, code) ==
  [r EXCEPT !.pc = pc, !.code = code, !.seen = NoTunnel, !.conn = NoTunnel]

(* What makeUnaryRequest does with the status of a finished attempt: it    *)
(* sleeps before another one, or disposes the context and calls back.      *)
attemptEnds(c, code, pushback) ==
  /\ IF retried(code, pushback, call[c].attempt)
     THEN /\ call' = [call EXCEPT ![c] = leave(@, "backoff", code)]
          /\ tokens' = onFailure
          /\ spent' = spent + Cost
          /\ UNCHANGED earned
     ELSE /\ call' = [call EXCEPT ![c] = leave(@, "done", code)]
          /\ tokens' = IF code = "ok" THEN onSuccess
                       ELSE IF Policy /\ code \in Retryable THEN onFailure
                       ELSE tokens
          /\ earned' = IF code = "ok" THEN earned + TokenRatio ELSE earned
          /\ UNCHANGED spent

(* The response of the server is complete: the handler's status, or a      *)
(* refusal the server, or a proxy before it, answers without executing.    *)
Respond(c) ==
  /\ call[c].pc \in {"sent", "executed"} /\ link[call[c].conn] = "open" /\ ~aborted(c)
  /\ \E code \in {"ok", "unavailable", "failed"}, pushback \in Pushbacks :
       /\ code = "ok" => call[c].pc = "executed"
       /\ attemptEnds(c, code, pushback)
  /\ UNCHANGED channelVars

(* What `unary` awaits is rejected: the dial, the request on a connection  *)
(* that broke, or the request because its signal is aborted.               *)
rejected(c) ==
  \/ call[c].pc = "conn" /\ link[call[c].conn] \in {"broken", "dead"}
  \/ call[c].pc = "conn" /\ link[call[c].conn] = "open" /\ aborted(c)
  \/ call[c].pc \in {"sent", "executed"}
       /\ (link[call[c].conn] \in {"broken", "dead"} \/ aborted(c))

(* errorForFailure: an aborted signal decides the status *)
errorForFailure(c) ==
  CASE call[c].abort = "deadline" -> "deadline"
    [] call[c].abort = "cancel" -> "cancelled"
    [] OTHER -> "unavailable"

(* Mutation: the replay does not look at the signal.                       *)
CatchIgnoresAbort(c) ==
  /\ rejected(c)
  /\ IF call[c].replay \/ ~stale(call[c].seen)
     THEN /\ attemptEnds(c, errorForFailure(c), "none")
          /\ UNCHANGED channelVars
     ELSE /\ unaryTry(c, [call[c] EXCEPT !.replay = TRUE])
          /\ UNCHANGED <<tokens, spent, earned>>

(* The catch of `unary`: one transparent replay when the tunnel read       *)
(* before the try is dead by now, else the error goes to makeUnaryRequest. *)
Catch(c) ==
  /\ rejected(c)
  /\ IF call[c].replay \/ aborted(c) \/ ~stale(call[c].seen)
     THEN /\ attemptEnds(c, errorForFailure(c), "none")
          /\ UNCHANGED channelVars
     ELSE /\ unaryTry(c, [call[c] EXCEPT !.replay = TRUE])
          /\ UNCHANGED <<tokens, spent, earned>>

(* Mutation: an abort clears the timer of the sleep and resolves nothing.  *)
BackoffHangs(c) ==
  /\ call[c].pc = "backoff" /\ ~aborted(c)
  /\ unaryTry(c, [call[c] EXCEPT !.attempt = @ + 1, !.replay = FALSE])
  /\ UNCHANGED <<tokens, spent, earned>>

(* The sleep is over: its timer fired and the next attempt starts, or the  *)
(* signal was aborted and the status of the failed attempt is reported.    *)
BackoffEnds(c) ==
  /\ call[c].pc = "backoff"
  /\ IF aborted(c)
     THEN /\ call' = [call EXCEPT ![c].pc = "done"]
          /\ UNCHANGED channelVars
     ELSE unaryTry(c, [call[c] EXCEPT !.attempt = @ + 1, !.replay = FALSE])
  /\ UNCHANGED <<tokens, spent, earned>>

(* The deadline timer fires, call.cancel(), or the user's AbortSignal;     *)
(* ctx.dispose() has removed the timer once the call is done.              *)
Abort(c) ==
  /\ call[c].pc # "done" /\ ~aborted(c)
  /\ \E why \in {"cancel", "deadline"} :
       /\ why = "deadline" => call[c].pc # "new"
       /\ call' = [call EXCEPT ![c].abort = why]
  /\ UNCHANGED <<dials, tunnel, link, alive, shut, closed, watch, tokens,
                 spent, earned>>

(* Every call has called back and every connection has settled *)
Finished ==
  /\ \A c \in Calls : call[c].pc = "done"
  /\ UNCHANGED vars
-----------------------------------------------------------------------------
Init ==
  /\ tunnel = NoTunnel /\ dials = 0
  /\ link = [t \in Tunnels |-> "none"]
  /\ alive = [t \in Tunnels |-> FALSE]
  /\ shut = {} /\ closed = FALSE
  /\ watch = "IDLE"
  /\ tokens = MaxTokens
  /\ call = [c \in Calls |-> NewCall]
  /\ spent = 0 /\ earned = 0

ClientStep(c) == Send(c) \/ Catch(c) \/ BackoffEnds(c)
DialSettles(t) == DialOk(t) \/ DialFails(t)

Next ==
  \/ \E c \in Calls : Start(c) \/ Execute(c) \/ Respond(c) \/ Abort(c) \/ ClientStep(c)
  \/ \E t \in Tunnels : DialSettles(t) \/ Break(t) \/ Die(t)
  \/ Close
  \/ Finished

Spec == Init /\ [][Next]_vars

(* The event loop runs every callback that is due, and a WebSocket dial    *)
(* settles: nothing in h2ts-transport.ts times one out.  Nothing is        *)
(* assumed of the server: it may never answer.                             *)
FairSpec ==
  /\ Spec
  /\ \A c \in Calls : WF_vars(ClientStep(c))
  /\ \A t \in Tunnels : WF_vars(DialSettles(t)) /\ WF_vars(Die(t))
-----------------------------------------------------------------------------
(* Every variable stays in its set; the token bucket stays between empty   *)
(* and maxTokens.                                                          *)
TypeOK ==
  /\ tunnel \in Tunnels \cup {NoTunnel} /\ dials \in 0..MaxDials
  /\ link \in [Tunnels -> {"none", "dialing", "open", "broken", "dead"}]
  /\ alive \in [Tunnels -> BOOLEAN]
  /\ shut \subseteq Tunnels /\ closed \in BOOLEAN
  /\ watch \in {"IDLE", "CONNECTING", "READY", "TRANSIENT_FAILURE"}
  /\ tokens \in 0..MaxTokens
  /\ call \in [Calls -> [pc : {"new", "conn", "sent", "executed", "backoff", "done"},
                         attempt : 1..MaxAttempts, replay : BOOLEAN,
                         seen : Tunnels \cup {NoTunnel},
                         conn : Tunnels \cup {NoTunnel},
                         code : Codes, abort : {"no", "cancel", "deadline"}]]
  /\ spent \in Nat /\ earned \in Nat

(* The comment in conn(): "a dead but still cached tunnel cannot exist";   *)
(* and no connection escapes the cache: one that is being dialled or is    *)
(* open, and that close() is not closing, is the cached one, so the next   *)
(* call shares it instead of opening a second channel.                     *)
CacheIsTheChannel ==
  /\ tunnel # NoTunnel => alive[tunnel] /\ tunnel \notin shut
  /\ \A t \in Tunnels : link[t] \in {"dialing", "open", "broken"} /\ t \notin shut
                          => tunnel = t

(* The published state is the channel's: until close(), READY while the    *)
(* cached connection was not seen to die, CONNECTING while it is dialled,  *)
(* IDLE or TRANSIENT_FAILURE when there is none.                           *)
WatchIsTruthful ==
  ~closed =>
    watch \in IF tunnel = NoTunnel THEN {"IDLE", "TRANSIENT_FAILURE"}
              ELSE IF link[tunnel] = "dialing" THEN {"CONNECTING"}
              ELSE {"READY"}

(* What a watcher relies on to tell a reconnect from a first connect: a    *)
(* channel that was READY is IDLE before it is CONNECTING again, until     *)
(* close().                                                                *)
ReadyThenIdle ==
  [][~closed /\ watch = "READY" => watch' \in {"READY", "IDLE"}]_vars

(* The token bucket: failures cannot buy more retries than half the        *)
(* bucket, plus what successes have put back, whatever the calls' order.   *)
RetryBudget ==
  Throttled => 2 * spent < MaxTokens + 2 * Cost + 2 * earned

(* Once a call's signal is aborted no try and no attempt of it begins:     *)
(* neither the transparent replay nor the policy outlives a cancel or a    *)
(* deadline.                                                               *)
AbortIsFinal ==
  [][\A c \in Calls :
       aborted(c) /\ call[c].pc # "new" =>
         /\ call'[c].attempt = call[c].attempt
         /\ call'[c].replay = call[c].replay]_vars

(* A call whose signal is aborted calls back, even if the server never     *)
(* answers, whatever the channel is doing, provided a dial it has started  *)
(* settles: `await this.conn()` does not look at the signal.               *)
AbortEndsCall ==
  \A c \in Calls : (aborted(c) /\ call[c].pc # "new") ~> (call[c].pc = "done")
=============================================================================
