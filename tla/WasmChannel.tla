---------------------------- MODULE WasmChannel ----------------------------
(* The channel of the Rust/WASM client (grpc-webnext-client: client.rs and  *)
(* state.rs): calls that share one tunnel, one dial slot and one watched    *)
(* connectivity state.                                                      *)
(*                                                                          *)
(* An action is what a call runs between two awaits.  A future runs only    *)
(* when its owner polls it, so a call may resume long after the dial it     *)
(* waits for has settled, and a dial goes on only while a call waits for    *)
(* it.  The connection a dial opens has the number of that dial.            *)
EXTENDS Integers

CONSTANTS
    Calls,     \* the calls, each made again and again
    Timed,     \* those with CallOptions.timeout
    MaxDials   \* bound: sockets opened

ASSUME ChannelAssumption == Timed \subseteq Calls /\ MaxDials \in Nat \ {0}

Nothing == 0
Dials == 1..MaxDials
States == {"Idle", "Connecting", "Ready", "TransientFailure"}

VARIABLES
    redial,   \* the client has a connector
    tunnel,   \* Inner.tunnel, the cached connection
    slot,     \* Inner.dialing
    state,    \* Inner.state
    told,     \* the transitions a watcher has been told of
    begun,    \* the newest dial
    dial,     \* how far each dial is
    alive,    \* the connections that are open
    pc,       \* what each call awaits
    on,       \* the dial it awaits, then the connection it uses
    late      \* a call resumed from a dial that a newer one had replaced

vars == <<redial, tunnel, slot, state, told, begun, dial, alive, pc, on, late>>
shared == <<redial, tunnel, slot, state, told, begun, late>>

TypeOK ==
    /\ redial \in BOOLEAN /\ late \in BOOLEAN
    /\ tunnel \in Dials \cup {Nothing} /\ slot \in Dials \cup {Nothing}
    /\ state \in States /\ told \subseteq States \X States
    /\ begun \in 0..MaxDials
    /\ dial \in [Dials -> {"none", "open", "ok", "failed"}]
    /\ alive \subseteq Dials
    /\ pc \in [Calls -> {"idle", "dialing", "sent"}]
    /\ on \in [Calls -> Dials \cup {Nothing}]

(* with_connector starts with nothing, from_connection with a tunnel and   *)
(* no way to open another.                                                 *)
Init ==
    /\ redial \in BOOLEAN
    /\ IF redial
       THEN tunnel = Nothing /\ begun = 0 /\ alive = {} /\ state = "Idle"
       ELSE tunnel = 1 /\ begun = 1 /\ alive = {1} /\ state = "Ready"
    /\ dial = [d \in Dials |-> IF d = begun THEN "ok" ELSE "none"]
    /\ slot = Nothing /\ told = {} /\ late = FALSE
    /\ pc = [c \in Calls |-> "idle"]
    /\ on = [c \in Calls |-> Nothing]

-----------------------------------------------------------------------------
(* StateWatch.set: a repeat tells a watcher nothing.                       *)
Set(s) == state' = s /\ told' = told \cup ({<<state, s>>} \ {<<s, s>>})

(* Two of them in a row, with no await between.                            *)
SetBoth(s, t) ==
    /\ state' = t
    /\ told' = told \cup ({<<state, s>>, <<s, t>>} \ {<<s, s>>, <<t, t>>})

Await(c, what, d) == pc' = [pc EXCEPT ![c] = what] /\ on' = [on EXCEPT ![c] = d]
Return(c) == Await(c, "idle", Nothing)

(* tunnel, when it finds a live one; send puts the request on it.          *)
FastPath(c) ==
    /\ pc[c] = "idle"
    /\ tunnel \in alive
    /\ Await(c, "sent", tunnel)
    /\ UNCHANGED <<shared, dial, alive>>

(* A dead tunnel is dropped, and its loss told, before anything else.      *)
Drop == tunnel' = Nothing /\ (IF tunnel # Nothing THEN Set("Idle") ELSE UNCHANGED <<state, told>>)

(* tunnel, without a connector.                                            *)
CannotRedial(c) ==
    /\ pc[c] = "idle"
    /\ tunnel \notin alive /\ ~redial
    /\ Drop
    /\ UNCHANGED <<redial, slot, begun, dial, alive, pc, on, late>>

(* tunnel: a dial is in flight already.                                    *)
JoinDial(c) ==
    /\ pc[c] = "idle"
    /\ tunnel \notin alive /\ redial /\ slot # Nothing
    /\ Drop
    /\ Await(c, "dialing", slot)
    /\ UNCHANGED <<redial, slot, begun, dial, alive, late>>

(* Mutation: the loss of the tunnel is not told before the redial.         *)
BeginDialQuietly(c) ==
    /\ pc[c] = "idle"
    /\ tunnel \notin alive /\ redial /\ slot = Nothing
    /\ begun < MaxDials
    /\ tunnel' = Nothing
    /\ Set("Connecting")
    /\ begun' = begun + 1 /\ slot' = begun' /\ dial' = [dial EXCEPT ![begun'] = "open"]
    /\ Await(c, "dialing", begun')
    /\ UNCHANGED <<redial, alive, late>>

(* Mutation: the dial is not shared.                                       *)
BeginDialAlone(c) ==
    /\ pc[c] = "idle"
    /\ tunnel \notin alive /\ redial /\ slot = Nothing
    /\ begun < MaxDials
    /\ tunnel' = Nothing
    /\ Set("Connecting")
    /\ begun' = begun + 1 /\ dial' = [dial EXCEPT ![begun'] = "open"]
    /\ Await(c, "dialing", begun')
    /\ UNCHANGED <<redial, slot, alive, late>>

(* tunnel: no dial is in flight.                                           *)
BeginDial(c) ==
    /\ pc[c] = "idle"
    /\ tunnel \notin alive /\ redial /\ slot = Nothing
    /\ begun < MaxDials
    /\ tunnel' = Nothing
    /\ IF tunnel # Nothing THEN SetBoth("Idle", "Connecting") ELSE Set("Connecting")
    /\ begun' = begun + 1 /\ slot' = begun' /\ dial' = [dial EXCEPT ![begun'] = "open"]
    /\ Await(c, "dialing", begun')
    /\ UNCHANGED <<redial, alive, late>>

(* The connector's future resolves, polled by a call that awaits it.       *)
(* External.                                                               *)
DialSettles(d, r) ==
    /\ dial[d] = "open"
    /\ \E c \in Calls : pc[c] = "dialing" /\ on[c] = d
    /\ dial' = [dial EXCEPT ![d] = r]
    /\ alive' = IF r = "ok" THEN alive \cup {d} ELSE alive
    /\ UNCHANGED <<shared, pc, on>>

(* tunnel, after dial.await: whatever the slot holds now is taken out.     *)
Resume(c) ==
    /\ pc[c] = "dialing" /\ dial[on[c]] \in {"ok", "failed"}
    /\ slot' = Nothing
    /\ late' = (late \/ on[c] # begun)
    /\ IF dial[on[c]] = "ok"
       THEN Set("Ready") /\ tunnel' = on[c] /\ Await(c, "sent", on[c])
       ELSE Set("TransientFailure") /\ Return(c) /\ UNCHANGED tunnel
    /\ UNCHANGED <<redial, begun, dial, alive>>

-----------------------------------------------------------------------------
(* send: the response's headers arrive.                                    *)
Answered(c) ==
    /\ pc[c] = "sent" /\ on[c] \in alive
    /\ Return(c)
    /\ UNCHANGED <<shared, dial, alive>>

(* forget: the tunnel is dropped if it is still the one that was used.     *)
forget(d) == IF tunnel = d THEN Drop ELSE UNCHANGED <<tunnel, state, told>>

(* Mutation: whatever tunnel is cached is forgotten.                       *)
RequestFailsForgetsAll(c) ==
    /\ pc[c] = "sent"
    /\ IF on[c] \notin alive THEN Drop ELSE UNCHANGED <<tunnel, state, told>>
    /\ Return(c)
    /\ UNCHANGED <<redial, slot, begun, late, dial, alive>>

(* send: the request fails, and with it the tunnel or its stream alone.    *)
RequestFails(c) ==
    /\ pc[c] = "sent"
    /\ IF on[c] \notin alive THEN forget(on[c]) ELSE UNCHANGED <<tunnel, state, told>>
    /\ Return(c)
    /\ UNCHANGED <<redial, slot, begun, late, dial, alive>>

(* Mutation: the deadline covers the dial and not the request.             *)
GiveUpDialing(c) ==
    /\ pc[c] = "dialing"
    /\ Return(c)
    /\ UNCHANGED <<shared, dial, alive>>

(* Mutation: the dial is dropped with the call that gives up.              *)
GiveUpWithDial(c) ==
    /\ pc[c] \in {"dialing", "sent"}
    /\ Return(c)
    /\ dial' = [d \in Dials |-> IF d = on[c] /\ dial[d] = "open" THEN "none" ELSE dial[d]]
    /\ UNCHANGED <<shared, alive>>

(* deadline, or a caller that drops the call: the future ends where it is, *)
(* the dial stays in its slot.                                             *)
GiveUp(c) ==
    /\ pc[c] \in {"dialing", "sent"}
    /\ Return(c)
    /\ UNCHANGED <<shared, dial, alive>>

(* state: asked for, it notices that the tunnel has died.                  *)
AskState ==
    /\ state = "Ready" /\ tunnel \notin alive
    /\ Set("Idle")
    /\ UNCHANGED <<redial, tunnel, slot, begun, dial, alive, pc, on, late>>

(* A tunnel dies.  External.                                               *)
TunnelDies(d) ==
    /\ d \in alive
    /\ alive' = alive \ {d}
    /\ UNCHANGED <<shared, dial, pc, on>>

Next ==
    \/ \E c \in Calls :
        \/ FastPath(c) \/ CannotRedial(c) \/ JoinDial(c) \/ BeginDial(c)
        \/ Resume(c) \/ Answered(c) \/ RequestFails(c) \/ GiveUp(c)
    \/ \E d \in Dials : \E r \in {"ok", "failed"} : DialSettles(d, r)
    \/ AskState
    \/ \E d \in Dials : TunnelDies(d)

Spec == Init /\ [][Next]_vars

(* The executor polls what was woken and timers fire.  Nothing is asked of *)
(* the network or the server.                                              *)
FairSpec ==
    /\ Spec
    /\ \A c \in Timed : WF_vars(GiveUp(c))
    /\ \A c \in Calls : WF_vars(Resume(c))

-----------------------------------------------------------------------------
(* A watcher can tell a reconnect from a first connect: it is never told   *)
(* Connecting straight after Ready, however the calls are interleaved.     *)
DropIsSeen == <<"Ready", "Connecting">> \notin told

(* Concurrent calls open one socket: two dials are under way at once only  *)
(* after some call resumed from a dial that a newer one had replaced, and  *)
(* so took the newer one out of the slot.                                  *)
OneSocket ==
    late \/ \A d, e \in Dials : dial[d] = "open" /\ dial[e] = "open" => d = e

(* A tunnel in use is not lost: while it lives nothing takes it out of the *)
(* cache, a failing call's forget included, under the same proviso.        *)
LiveTunnelKept == [][(tunnel \in alive /\ ~late') => tunnel' = tunnel]_vars

(* When sockets open or fail in the end, a call that waits for one is      *)
(* served, though the call that began the dial has given up.               *)
DialsSettle == \A d \in Dials : WF_vars(\E r \in {"ok", "failed"} : DialSettles(d, r))
WaitersServed == DialsSettle => \A c \in Calls : pc[c] = "dialing" ~> pc[c] # "dialing"

(* A call with a deadline returns though no socket opens and no server     *)
(* answers.                                                                *)
TimedCallsEnd == \A c \in Timed : pc[c] # "idle" ~> pc[c] = "idle"
=============================================================================
