---------------------------- MODULE DrainServer ----------------------------
(***************************************************************************)
(* Graceful shutdown of the Rust server: the accept loop `run` (lib.rs),   *)
(* the drain primitive (drain.rs), the serve_graceful! macro around every  *)
(* hyper connection, and the tasks that outlive a request: h2ts tunnels    *)
(* (h2ts.rs) and custom-`Frame` WebSockets (ws.rs, detailed in RustWs).    *)
(*                                                                         *)
(* Two mechanisms are modelled as they are.  The signal is a tokio watch   *)
(* channel: a receiver has a version it has seen, changed() resolves when  *)
(* the channel's is newer, and a clone has seen what its original had.     *)
(* The end is a set of liveness tokens, one in every Runtime clone; finish *)
(* returns when the last is dropped.                                       *)
(***************************************************************************)
EXTENDS Naturals

CONSTANTS
    Conns,      \* TCP connections that may be made
    Reqs,       \* names for the requests in flight on one connection
    Proxy       \* serve_proxy (TRUE) or serve_in_process

ASSUME DrainAssumption == Proxy \in BOOLEAN

(* The hyper connections: the one on the TCP socket, and the HTTP/2 one    *)
(* inside an in-process h2ts tunnel.                                       *)
Sides == {"tcp", "tunnel"}

VARIABLES
    run,        \* the accept loop: accept, stopping, finishing, done
    version,    \* version of the watch channel, and so: has the drain started?
    phase,      \* serve_graceful! on each hyper connection
    seen,       \* version its changed() waits to pass
    flight,     \* requests a hyper connection has in flight
    task,       \* the upgraded connection's own task
    runToken, tcpTokens, reqTokens, taskTokens  \* who holds a Drain

tokens == <<runToken, tcpTokens, reqTokens, taskTokens>>
vars == <<run, version, phase, seen, flight, task, tokens>>

Phases == {"none", "check", "subscribe", "select", "goaway", "graceful", "closed"}
Tasks == {"none", "ws_upgrade", "h2_upgrade", "idle", "live", "spared", "stranded",
          "tunnel", "bridge", "closed"}

TypeOK ==
    /\ run \in {"accept", "stopping", "finishing", "done"} /\ version \in {0, 1}
    /\ phase \in [Conns \X Sides -> Phases] /\ seen \in [Conns \X Sides -> {0, 1}]
    /\ flight \in [Conns \X Sides -> SUBSET Reqs] /\ task \in [Conns -> Tasks]
    /\ runToken \in BOOLEAN /\ tcpTokens \subseteq Conns
    /\ reqTokens \subseteq Conns \X Reqs /\ taskTokens \subseteq Conns

Init ==
    /\ run = "accept" /\ version = 0
    /\ phase = [h \in Conns \X Sides |-> "none"] /\ seen = [h \in Conns \X Sides |-> 0]
    /\ flight = [h \in Conns \X Sides |-> {}] /\ task = [c \in Conns |-> "none"]
    /\ runToken = TRUE /\ tcpTokens = {} /\ reqTokens = {} /\ taskTokens = {}

started == version = 1

-----------------------------------------------------------------------------
(* run.                                                                    *)

Accept(c) ==
    /\ run = "accept" /\ phase[<<c, "tcp">>] = "none"
    /\ phase' = [phase EXCEPT ![<<c, "tcp">>] = "check"]
    /\ tcpTokens' = tcpTokens \cup {c}
    /\ UNCHANGED <<run, version, seen, flight, task, runToken, reqTokens, taskTokens>>

(* The shutdown future resolves, or accept fails.                          *)
StopAccepting ==
    /\ run = "accept" /\ run' = "stopping"
    /\ UNCHANGED <<version, phase, seen, flight, task, tokens>>

(* drop(listener), drop(rt), and the send in finish.                       *)
StartDrain ==
    /\ run = "stopping" /\ run' = "finishing" /\ runToken' = FALSE /\ version' = 1
    /\ UNCHANGED <<phase, seen, flight, task, tcpTokens, reqTokens, taskTokens>>

Finish ==
    /\ run = "finishing" /\ ~runToken
    /\ tcpTokens = {} /\ reqTokens = {} /\ taskTokens = {}
    /\ run' = "done"
    /\ UNCHANGED <<version, phase, seen, flight, task, tokens>>

-----------------------------------------------------------------------------
(* serve_graceful!, on the TCP connection and inside a tunnel.             *)

Moves(h, from, to) ==
    /\ phase[h] = from /\ phase' = [phase EXCEPT ![h] = to]
    /\ UNCHANGED <<run, version, flight, task, tokens>>

CheckStarted(h) ==
    Moves(h, "check", IF started THEN "goaway" ELSE "subscribe") /\ UNCHANGED seen

(* Mutation: the fresh receiver has seen the current version.              *)
SubscribeFresh(h) ==
    Moves(h, "subscribe", "select") /\ seen' = [seen EXCEPT ![h] = version]

(* subscribe() clones the Drain's own receiver, which never moves on.      *)
SubscribeDrain(h) ==
    Moves(h, "subscribe", "select") /\ seen' = [seen EXCEPT ![h] = 0]

DrainNoticed(h) ==
    seen[h] < version /\ Moves(h, "select", "goaway") /\ UNCHANGED seen

(* hyper's graceful_shutdown: requests already on their way are still      *)
(* taken until the peer has seen the GOAWAY, none after that.              *)
GoawayEffective(h) == Moves(h, "goaway", "graceful") /\ UNCHANGED seen

(* hyper ends a connection that was asked to end and is idle, and the task *)
(* that drove it drops its Runtime.                                        *)
ConnectionEnds(c, side) ==
    /\ phase[<<c, side>>] = "graceful" /\ flight[<<c, side>>] = {}
    /\ phase' = [phase EXCEPT ![<<c, side>>] = "closed"]
    /\ IF side = "tcp"
         THEN /\ task[c] \notin {"ws_upgrade", "h2_upgrade"}
              /\ tcpTokens' = tcpTokens \ {c} /\ UNCHANGED <<task, taskTokens>>
         ELSE /\ task' = [task EXCEPT ![c] = "closed"] /\ taskTokens' = taskTokens \ {c}
              /\ UNCHANGED tcpTokens
    /\ UNCHANGED <<run, version, seen, flight, runToken, reqTokens>>

-----------------------------------------------------------------------------
(* Requests, and the upgrades some of them are.                            *)

(* The TCP service clones the Runtime for each request; the tunnel's       *)
(* service only has the router.                                            *)
RequestArrives(c, side, r) ==
    /\ phase[<<c, side>>] \in {"select", "goaway"} /\ r \notin flight[<<c, side>>]
    /\ flight' = [flight EXCEPT ![<<c, side>>] = @ \cup {r}]
    /\ reqTokens' = IF side = "tcp" THEN reqTokens \cup {<<c, r>>} ELSE reqTokens
    /\ UNCHANGED <<run, version, phase, seen, task, runToken, tcpTokens, taskTokens>>

(* The handler's future resolves and drops its Runtime; the response body  *)
(* may go on after it.                                                     *)
HandlerReturns(c, r) ==
    /\ <<c, r>> \in reqTokens /\ reqTokens' = reqTokens \ {<<c, r>>}
    /\ UNCHANGED <<run, version, phase, seen, flight, task, runToken, tcpTokens, taskTokens>>

RequestEnds(c, side, r) ==
    /\ r \in flight[<<c, side>>] /\ (side = "tcp" => <<c, r>> \notin reqTokens)
    /\ flight' = [flight EXCEPT ![<<c, side>>] = @ \ {r}]
    /\ UNCHANGED <<run, version, phase, seen, task, tokens>>

(* Mutation: the spawned task does not hold a Runtime.                     *)
UpgradeNoToken(c, r) ==
    /\ <<c, r>> \in reqTokens /\ task[c] = "none"
    /\ flight' = [flight EXCEPT ![<<c, "tcp">>] = @ \ {r}] /\ reqTokens' = reqTokens \ {<<c, r>>}
    /\ \E u \in {"ws_upgrade", "h2_upgrade"} : task' = [task EXCEPT ![c] = u]
    /\ UNCHANGED <<run, version, phase, seen, runToken, tcpTokens, taskTokens>>

(* A WebSocket handshake: handle_ws_upgrade answers 101 and spawns the     *)
(* task of a WebSocket or of a tunnel, with a Runtime of its own.          *)
Upgrade(c, r) ==
    /\ <<c, r>> \in reqTokens /\ task[c] = "none"
    /\ flight' = [flight EXCEPT ![<<c, "tcp">>] = @ \ {r}] /\ reqTokens' = reqTokens \ {<<c, r>>}
    /\ \E u \in {"ws_upgrade", "h2_upgrade"} : task' = [task EXCEPT ![c] = u]
    /\ taskTokens' = taskTokens \cup {c}
    /\ UNCHANGED <<run, version, phase, seen, runToken, tcpTokens>>

(* hyper hands the socket over: the TCP task ends, the spawned one goes on *)
(* as a WebSocket, as a tunnel with its own hyper connection, or as the    *)
(* proxy's byte pump.                                                      *)
Upgraded(c) ==
    /\ task[c] \in {"ws_upgrade", "h2_upgrade"}
    /\ phase[<<c, "tcp">>] \in {"select", "goaway", "graceful"} /\ flight[<<c, "tcp">>] = {}
    /\ tcpTokens' = tcpTokens \ {c}
    /\ IF task[c] = "ws_upgrade" \/ Proxy
         THEN /\ phase' = [phase EXCEPT ![<<c, "tcp">>] = "closed"]
              /\ task' = [task EXCEPT ![c] = IF @ = "ws_upgrade" THEN "idle" ELSE "bridge"]
         ELSE /\ phase' = [phase EXCEPT ![<<c, "tcp">>] = "closed", ![<<c, "tunnel">>] = "check"]
              /\ task' = [task EXCEPT ![c] = "tunnel"]
    /\ UNCHANGED <<run, version, seen, flight, runToken, reqTokens, taskTokens>>

(* A WebSocket's task, by what its read loop knows: `idle` and `live` have *)
(* no stream and one, and have not heard of the drain; `spared` and        *)
(* `stranded` likewise, with the drain arm spent.                          *)
SocketMoves(c, to) ==
    /\ task' = [task EXCEPT ![c] = to]
    /\ UNCHANGED <<run, version, phase, seen, flight, tokens>>
SocketCloses(c) ==
    /\ task' = [task EXCEPT ![c] = "closed"] /\ taskTokens' = taskTokens \ {c}
    /\ UNCHANGED <<run, version, phase, seen, flight, runToken, tcpTokens, reqTokens>>

(* A Subscribe opens the stream, also after the drain arm.                 *)
StreamOpens(c) ==
    \/ task[c] = "idle" /\ SocketMoves(c, "live")
    \/ task[c] = "stranded" /\ SocketMoves(c, "spared")

(* A client's Reset aborts the stream, which then sends no terminal frame. *)
ClientResets(c) ==
    \/ task[c] = "live" /\ SocketMoves(c, "idle")
    \/ task[c] = "spared" /\ SocketMoves(c, "stranded")

(* The drain arm: once, it closes a socket without a stream.               *)
DrainArm(c) ==
    /\ started
    /\ \/ task[c] = "idle" /\ SocketCloses(c)
       \/ task[c] = "live" /\ SocketMoves(c, "spared")

(* The stream's terminal frame closes the socket.                          *)
StreamEnds(c) == task[c] \in {"live", "spared"} /\ SocketCloses(c)

(* The peer is gone, and everything that served it ends.                   *)
PeerLost(c) ==
    /\ c \in tcpTokens \cup taskTokens
    /\ phase' = [phase EXCEPT ![<<c, "tcp">>] = "closed", ![<<c, "tunnel">>] = "closed"]
    /\ flight' = [flight EXCEPT ![<<c, "tcp">>] = {}, ![<<c, "tunnel">>] = {}]
    /\ task' = [task EXCEPT ![c] = "closed"]
    /\ tcpTokens' = tcpTokens \ {c} /\ taskTokens' = taskTokens \ {c}
    /\ reqTokens' = reqTokens \ ({c} \X Reqs)
    /\ UNCHANGED <<run, version, seen, runToken>>

-----------------------------------------------------------------------------
Next ==
    \/ StopAccepting \/ StartDrain \/ Finish
    \/ \E c \in Conns : \/ Accept(c) \/ Upgraded(c) \/ PeerLost(c)
                        \/ StreamOpens(c) \/ ClientResets(c) \/ DrainArm(c) \/ StreamEnds(c)
    \/ \E c \in Conns, r \in Reqs : Upgrade(c, r) \/ HandlerReturns(c, r)
    \/ \E c \in Conns, side \in Sides :
         \/ CheckStarted(<<c, side>>) \/ SubscribeDrain(<<c, side>>)
         \/ DrainNoticed(<<c, side>>) \/ GoawayEffective(<<c, side>>)
         \/ ConnectionEnds(c, side)
         \/ \E r \in Reqs : RequestArrives(c, side, r) \/ RequestEnds(c, side, r)

Spec == Init /\ [][Next]_vars

(* Fairness: tokio runs the tasks, requests end, a stream that nobody      *)
(* resets ends, peers answer a GOAWAY.  Whether anyone connects, resets,   *)
(* leaves or asks for a shutdown is open.                                  *)
Fairness ==
    /\ WF_vars(StartDrain) /\ WF_vars(Finish)
    /\ \A c \in Conns : WF_vars(Upgraded(c)) /\ WF_vars(DrainArm(c)) /\ WF_vars(StreamEnds(c))
    /\ \A c \in Conns, r \in Reqs : WF_vars(HandlerReturns(c, r))
    /\ \A c \in Conns, side \in Sides :
         /\ WF_vars(CheckStarted(<<c, side>>)) /\ WF_vars(SubscribeDrain(<<c, side>>))
         /\ WF_vars(DrainNoticed(<<c, side>>)) /\ WF_vars(GoawayEffective(<<c, side>>))
         /\ WF_vars(ConnectionEnds(c, side))
         /\ \A r \in Reqs : WF_vars(RequestEnds(c, side, r))

FairSpec == Spec /\ Fairness

-----------------------------------------------------------------------------
(* Properties.                                                             *)

(* Work the drain must not abandon: a connection being served, a request   *)
(* in flight, an upgraded connection (even one still upgrading).           *)
Serving(c) ==
    \/ \E side \in Sides : phase[<<c, side>>] \notin {"none", "closed"} \/ flight[<<c, side>>] # {}
    \/ task[c] \notin {"none", "closed"}

(* When finish returns, and run with it, nothing is being served any more: *)
(* no request, tunnel or WebSocket is cut by the end of the server.        *)
DoneMeansQuiet == run = "done" => \A c \in Conns : ~Serving(c)

Held(c) ==
    /\ phase[<<c, "tcp">>] \notin {"none", "closed"} => c \in tcpTokens
    /\ flight[<<c, "tcp">>] # {} => phase[<<c, "tcp">>] \notin {"none", "closed"}
    /\ \A r \in Reqs : <<c, r>> \in reqTokens => r \in flight[<<c, "tcp">>]
    /\ task[c] \notin {"none", "closed"} => c \in taskTokens
    /\ phase[<<c, "tunnel">>] \notin {"none", "closed"} => task[c] = "tunnel"
    /\ flight[<<c, "tunnel">>] # {} => phase[<<c, "tunnel">>] \notin {"none", "closed"}

(* Every task that serves someone holds a token, and a request's token     *)
(* does not outlive the request; after the end no token is left.           *)
TokensHeld ==
    /\ \A c \in Conns : Held(c)
    /\ run = "done" => tcpTokens = {} /\ reqTokens = {} /\ taskTokens = {}

(* A socket without a stream whose drain arm is spent: nothing the server  *)
(* does closes it.                                                         *)
Stranded == \E c \in Conns : task[c] = "stranded"

(* The drain reaches every connection, whatever it was doing when the      *)
(* signal was sent (between started() and subscribe(), mid-upgrade, inside *)
(* a tunnel, with a stream or without), and the server ends; unless, again *)
(* and again, a client has reset a stream that the drain arm had spared:   *)
(* such a socket holds the drain until its peer leaves or opens anew.      *)
DrainCompletes == []<>Stranded \/ ((run = "stopping") ~> (run = "done"))
=============================================================================
