------------------------- MODULE DrainServerProofs -------------------------
(***************************************************************************)
(* For any number of connections and requests: when `run` returns, nothing *)
(* is being served.  DoneMeansQuiet is not inductive: that finish sees no  *)
(* token says something only because every serving task holds one, which   *)
(* is TokensHeld, and TokensHeld is inductive together with TypeOK.        *)
(***************************************************************************)
EXTENDS DrainServer, TLAPS

IInv == TypeOK /\ TokensHeld

(* Every variable keeps its type, for all sets of connections and requests. *)
LEMMA TypeStep == TypeOK /\ [Next]_vars => TypeOK'
<1> SUFFICES ASSUME TypeOK, [Next]_vars PROVE TypeOK'
  OBVIOUS
<1> USE DEF TypeOK, Phases, Tasks, Sides, tokens
<1>1. CASE UNCHANGED vars
  BY <1>1 DEF vars
<1>2. CASE StopAccepting \/ StartDrain \/ Finish
  BY <1>2 DEF StopAccepting, StartDrain, Finish
<1>3. ASSUME NEW c \in Conns,
             \/ Accept(c) \/ Upgraded(c) \/ PeerLost(c)
             \/ StreamOpens(c) \/ ClientResets(c) \/ DrainArm(c) \/ StreamEnds(c)
      PROVE  TypeOK'
  <2>1. CASE Accept(c)
    BY <2>1 DEF Accept
  <2>2. CASE Upgraded(c)
    BY <2>2 DEF Upgraded
  <2>3. CASE StreamOpens(c) \/ ClientResets(c) \/ DrainArm(c) \/ StreamEnds(c)
    BY <2>3 DEF StreamOpens, ClientResets, DrainArm, StreamEnds, SocketMoves, SocketCloses
  <2>4. CASE PeerLost(c)
    BY <2>4 DEF PeerLost
  <2>5. QED
    BY <1>3, <2>1, <2>2, <2>3, <2>4
<1>4. ASSUME NEW c \in Conns, NEW r \in Reqs, Upgrade(c, r) \/ HandlerReturns(c, r)
      PROVE  TypeOK'
  <2>1. CASE Upgrade(c, r)
    BY <2>1 DEF Upgrade
  <2>2. CASE HandlerReturns(c, r)
    BY <2>2 DEF HandlerReturns
  <2>3. QED
    BY <1>4, <2>1, <2>2
<1>5. ASSUME NEW c \in Conns, NEW side \in Sides,
             \/ CheckStarted(<<c, side>>) \/ SubscribeDrain(<<c, side>>)
             \/ DrainNoticed(<<c, side>>) \/ GoawayEffective(<<c, side>>)
      PROVE  TypeOK'
  BY <1>5 DEF CheckStarted, SubscribeDrain, DrainNoticed, GoawayEffective, Moves, started
<1>6. ASSUME NEW c \in Conns, NEW side \in Sides, ConnectionEnds(c, side) PROVE TypeOK'
  BY <1>6 DEF ConnectionEnds
<1>7. ASSUME NEW c \in Conns, NEW side \in Sides, NEW r \in Reqs,
             RequestArrives(c, side, r) \/ RequestEnds(c, side, r)
      PROVE  TypeOK'
  <2>1. CASE RequestArrives(c, side, r)
    BY <2>1, SMTT(30) DEF RequestArrives
  <2>2. CASE RequestEnds(c, side, r)
    BY <2>2, SMTT(30) DEF RequestEnds
  <2>3. QED
    BY <1>7, <2>1, <2>2
<1>8. QED
  BY <1>1, <1>2, <1>3, <1>4, <1>5, <1>6, <1>7 DEF Next

(* What a step that concerns connection c leaves alone: every other one.   *)
Untouched(d) ==
    /\ \A side \in Sides : /\ phase'[<<d, side>>] = phase[<<d, side>>]
                           /\ flight'[<<d, side>>] = flight[<<d, side>>]
    /\ task'[d] = task[d]
    /\ (d \in tcpTokens') = (d \in tcpTokens) /\ (d \in taskTokens') = (d \in taskTokens)
    /\ \A r \in Reqs : (<<d, r>> \in reqTokens') = (<<d, r>> \in reqTokens)

LEMMA UntouchedHeld ==
    ASSUME NEW d \in Conns, Untouched(d), Held(d)
    PROVE  Held(d)'
BY DEF Untouched, Held, Sides

(* A step of c that adds no token once run is done keeps TokensHeld when   *)
(* it keeps Held(c).                                                       *)
LEMMA OneConnection ==
    ASSUME TokensHeld, NEW c \in Conns, \A d \in Conns \ {c} : Untouched(d), Held(c)',
           run' = run,
           run = "done" => /\ tcpTokens' \subseteq tcpTokens /\ reqTokens' \subseteq reqTokens
                           /\ taskTokens' \subseteq taskTokens
    PROVE  TokensHeld'
BY UntouchedHeld DEF TokensHeld

(* Every serving task holds a token, whichever way it came to serve.       *)
LEMMA TokensStep == IInv /\ [Next]_vars => TokensHeld'
<1> SUFFICES ASSUME TypeOK, TokensHeld, [Next]_vars PROVE TokensHeld'
  BY DEF IInv
<1> USE DEF Sides, tokens
<1>0. \A c \in Conns : Held(c)
  BY DEF TokensHeld
<1>t. /\ phase \in [Conns \X Sides -> Phases] /\ flight \in [Conns \X Sides -> SUBSET Reqs]
      /\ task \in [Conns -> Tasks]
  BY DEF TypeOK
<1>1. CASE UNCHANGED vars
  BY <1>1 DEF vars, TokensHeld, Held
<1>2. CASE StopAccepting \/ StartDrain \/ Finish
  BY <1>2 DEF StopAccepting, StartDrain, Finish, TokensHeld, Held
<1>3. ASSUME NEW c \in Conns, Accept(c) PROVE TokensHeld'
  <2>1. \A d \in Conns \ {c} : Untouched(d)
    BY <1>3, <1>t DEF Accept, Untouched
  <2>2. Held(c)'
    BY <1>0, <1>3, <1>t DEF Accept, Held
  <2>3. QED
    BY <1>3, <2>1, <2>2, OneConnection DEF Accept
<1>4. ASSUME NEW c \in Conns, Upgraded(c) PROVE TokensHeld'
  <2>1. \A d \in Conns \ {c} : Untouched(d)
    <3>1. CASE task[c] = "ws_upgrade" \/ Proxy
      BY <1>4, <1>t, <3>1 DEF Upgraded, Untouched
    <3>2. CASE ~(task[c] = "ws_upgrade" \/ Proxy)
      BY <1>4, <1>t, <3>2 DEF Upgraded, Untouched
    <3>3. QED
      BY <3>1, <3>2
  <2>2. Held(c)'
    <3>0. /\ task[c] \in {"ws_upgrade", "h2_upgrade"} /\ taskTokens' = taskTokens /\ Held(c)
      BY <1>0, <1>4 DEF Upgraded
    <3>1. /\ phase'[<<c, "tcp">>] = "closed" /\ c \in taskTokens'
      <4>1. c \in taskTokens'
        BY <3>0 DEF Held
      <4>2. phase'[<<c, "tcp">>] = "closed"
        BY <1>4, <1>t DEF Upgraded
      <4>3. QED
        BY <4>1, <4>2
    <3>2. phase[<<c, "tunnel">>] \in {"none", "closed"}
      BY <1>t, <3>0 DEF Held
    <3>3. phase'[<<c, "tunnel">>] \notin {"none", "closed"} => task'[c] = "tunnel"
      BY <1>4, <1>t, <3>2 DEF Upgraded
    <3>4. flight' = flight /\ reqTokens' = reqTokens /\ flight[<<c, "tcp">>] = {}
      BY <1>4 DEF Upgraded
    <3>5. Held(c)
      BY <1>0
    <3>6. flight[<<c, "tunnel">>] = {}
      BY <3>2, <3>5 DEF Held
    <3>7. QED
      BY <3>1, <3>3, <3>4, <3>5, <3>6 DEF Held
  <2>3. QED
    BY <1>4, <2>1, <2>2, OneConnection DEF Upgraded
<1>5. ASSUME NEW c \in Conns, StreamOpens(c) \/ ClientResets(c) \/ DrainArm(c) \/ StreamEnds(c)
      PROVE  TokensHeld'
  <2>1. /\ task[c] \in {"idle", "live", "spared", "stranded"}
        /\ \/ SocketCloses(c)
           \/ \E to \in {"idle", "live", "spared", "stranded"} : SocketMoves(c, to)
    BY <1>5 DEF StreamOpens, ClientResets, DrainArm, StreamEnds
  <2>2. \A d \in Conns \ {c} : Untouched(d)
    BY <1>t, <2>1 DEF SocketMoves, SocketCloses, Untouched
  <2>3. Held(c)'
    BY <1>0, <1>t, <2>1 DEF SocketMoves, SocketCloses, Held
  <2>4. QED
    BY <2>1, <2>2, <2>3, OneConnection DEF SocketMoves, SocketCloses
<1>6. ASSUME NEW c \in Conns, PeerLost(c) PROVE TokensHeld'
  <2>1. \A d \in Conns \ {c} : Untouched(d)
    BY <1>6, <1>t DEF PeerLost, Untouched
  <2>2. Held(c)'
    BY <1>6, <1>t DEF PeerLost, Held
  <2>3. QED
    BY <1>6, <2>1, <2>2, OneConnection DEF PeerLost
<1>7. ASSUME NEW c \in Conns, NEW r \in Reqs, Upgrade(c, r) \/ HandlerReturns(c, r)
      PROVE  TokensHeld'
  <2>1. \A d \in Conns \ {c} : Untouched(d)
    BY <1>7, <1>t DEF Upgrade, HandlerReturns, Untouched
  <2>2. Held(c)'
    <3>1. Held(c)
      BY <1>0
    <3>2. CASE HandlerReturns(c, r)
      BY <3>1, <3>2 DEF HandlerReturns, Held
    <3>3. CASE Upgrade(c, r)
      <4>1. /\ flight'[<<c, "tcp">>] = flight[<<c, "tcp">>] \ {r} /\ phase' = phase
            /\ flight'[<<c, "tunnel">>] = flight[<<c, "tunnel">>]
        BY <1>t, <3>3 DEF Upgrade
      <4>2. /\ task[c] = "none" /\ c \in taskTokens' /\ tcpTokens' = tcpTokens
            /\ reqTokens' = reqTokens \ {<<c, r>>}
        BY <3>3 DEF Upgrade
      <4>3. \A q \in Reqs : <<c, q>> \in reqTokens' => q \in flight'[<<c, "tcp">>]
        BY <3>1, <4>1, <4>2 DEF Held
      <4>4. QED
        BY <3>1, <4>1, <4>2, <4>3 DEF Held
    <3>4. QED
      BY <1>7, <3>2, <3>3
  <2>3. run = "done" => <<c, r>> \notin reqTokens
    BY DEF TokensHeld
  <2>4. QED
    BY <1>7, <2>1, <2>2, <2>3, OneConnection DEF Upgrade, HandlerReturns
<1>8. ASSUME NEW c \in Conns, NEW side \in Sides,
             \/ CheckStarted(<<c, side>>) \/ SubscribeDrain(<<c, side>>)
             \/ DrainNoticed(<<c, side>>) \/ GoawayEffective(<<c, side>>)
      PROVE  TokensHeld'
  <2>1. PICK to \in Phases \ {"none", "closed"} :
          /\ phase[<<c, side>>] \notin {"none", "closed"}
          /\ phase' = [phase EXCEPT ![<<c, side>>] = to]
          /\ UNCHANGED <<run, flight, task, tokens>>
    BY <1>8 DEF CheckStarted, SubscribeDrain, DrainNoticed, GoawayEffective, Moves, Phases
  <2>2. \A d \in Conns \ {c} : Untouched(d)
    BY <1>t, <2>1 DEF Untouched
  <2>3. Held(c)'
    BY <1>0, <1>t, <2>1 DEF Held
  <2>4. QED
    BY <2>1, <2>2, <2>3, OneConnection
<1>9. ASSUME NEW c \in Conns, NEW side \in Sides, ConnectionEnds(c, side) PROVE TokensHeld'
  <2>1. \A d \in Conns \ {c} : Untouched(d)
    BY <1>9, <1>t DEF ConnectionEnds, Untouched
  <2>2. Held(c)'
    BY <1>0, <1>9, <1>t DEF ConnectionEnds, Held
  <2>3. QED
    BY <1>9, <2>1, <2>2, OneConnection DEF ConnectionEnds
<1>10. ASSUME NEW c \in Conns, NEW side \in Sides, NEW r \in Reqs,
              RequestArrives(c, side, r) \/ RequestEnds(c, side, r)
       PROVE  TokensHeld'
  <2>1. \A d \in Conns \ {c} : Untouched(d)
    BY <1>10, <1>t DEF RequestArrives, RequestEnds, Untouched
  <2>2. Held(c)'
    <3>1. Held(c) /\ phase' = phase /\ task' = task /\ UNCHANGED <<tcpTokens, taskTokens>>
      BY <1>0, <1>10 DEF RequestArrives, RequestEnds
    <3>2. \A z \in Sides \ {side} : flight'[<<c, z>>] = flight[<<c, z>>]
      BY <1>10, <1>t DEF RequestArrives, RequestEnds
    <3>3. CASE RequestArrives(c, side, r)
      <4>1. /\ flight'[<<c, side>>] = flight[<<c, side>>] \cup {r}
            /\ phase[<<c, side>>] \in {"select", "goaway"}
            /\ reqTokens' = IF side = "tcp" THEN reqTokens \cup {<<c, r>>} ELSE reqTokens
        BY <1>t, <3>3 DEF RequestArrives
      <4>2. CASE side = "tcp"
        BY <3>1, <3>2, <4>1, <4>2 DEF Held
      <4>3. CASE side = "tunnel"
        BY <3>1, <3>2, <4>1, <4>3 DEF Held
      <4>4. QED
        BY <4>2, <4>3
    <3>4. CASE RequestEnds(c, side, r)
      <4>1. /\ flight'[<<c, side>>] = flight[<<c, side>>] \ {r} /\ reqTokens' = reqTokens
            /\ side = "tcp" => <<c, r>> \notin reqTokens
        BY <1>t, <3>4 DEF RequestEnds
      <4>2. CASE side = "tcp"
        BY <3>1, <3>2, <4>1, <4>2 DEF Held
      <4>3. CASE side = "tunnel"
        BY <3>1, <3>2, <4>1, <4>3 DEF Held
      <4>4. QED
        BY <4>2, <4>3
    <3>5. QED
      BY <1>10, <3>3, <3>4
  <2>3. run = "done" /\ side = "tcp" => phase[<<c, side>>] \in {"none", "closed"}
    BY <1>0 DEF Held, TokensHeld
  <2>4. QED
    BY <1>10, <2>1, <2>2, <2>3, OneConnection DEF RequestArrives, RequestEnds
<1>11. QED
  BY <1>1, <1>2, <1>3, <1>4, <1>5, <1>6, <1>7, <1>8, <1>9, <1>10 DEF Next

(* In every reachable state each task of the server that serves someone    *)
(* holds a token of the drain.                                             *)
THEOREM TokensInvariant == Spec => [](TypeOK /\ TokensHeld)
<1>1. Init => IInv
  BY DEF Init, IInv, TypeOK, TokensHeld, Held, Sides, Phases, Tasks
<1>2. IInv /\ [Next]_vars => IInv'
  BY TypeStep, TokensStep DEF IInv
<1>3. QED
  BY <1>1, <1>2, PTL DEF Spec, IInv

(* When run returns, no request, tunnel or WebSocket is still being served: *)
(* the token the drain waits for is never dropped too early.               *)
THEOREM DrainWaitsForAll == Spec => []DoneMeansQuiet
<1>1. TypeOK /\ TokensHeld => DoneMeansQuiet
  BY DEF TypeOK, TokensHeld, Held, DoneMeansQuiet, Serving, Sides
<1>2. QED
  BY <1>1, TokensInvariant, PTL
=============================================================================
