------------------------- MODULE WasmChannelProofs -------------------------
(* The safety of WasmChannel for any set of calls and any number of dials. *)
EXTENDS WasmChannel, TLAPS

(* The slot holds the newest dial or nothing; and until some call resumes  *)
(* late, so does the cache, and no dial is under way outside the slot.     *)
IInv ==
    /\ TypeOK
    /\ state = "Ready" => tunnel # Nothing
    /\ DropIsSeen
    /\ slot \in {Nothing, begun}
    /\ \A c \in Calls : pc[c] = "dialing" => on[c] \in Dials
    /\ ~late => /\ tunnel \in {Nothing, begun}
                /\ \A d \in Dials : dial[d] = "open" => slot = d

(* What StateWatch.set tells is a transition from the old state.           *)
LEMMA SetTells ==
    ASSUME NEW s \in States, Set(s), DropIsSeen, state # "Ready" \/ s # "Connecting"
    PROVE  DropIsSeen'
  BY DEF Set, DropIsSeen

LEMMA SetBothTells ==
    ASSUME SetBoth("Idle", "Connecting"), DropIsSeen
    PROVE  DropIsSeen'
  BY DEF SetBoth, DropIsSeen

(* The type of what Set and SetBoth assign.                                *)
LEMMA SetTyped ==
    ASSUME NEW s \in States, Set(s), TypeOK
    PROVE  state' = s /\ told' \subseteq States \X States
  BY DEF Set, TypeOK

LEMMA SetBothTyped ==
    ASSUME SetBoth("Idle", "Connecting"), TypeOK
    PROVE  state' = "Connecting" /\ told' \subseteq States \X States
  BY DEF SetBoth, TypeOK, States

(* Await keeps the program counters typed, and a waiting call on a dial.   *)
LEMMA AwaitTyped ==
    ASSUME TypeOK, NEW c \in Calls, NEW what \in {"idle", "dialing", "sent"},
           NEW d \in Dials \cup {Nothing}, Await(c, what, d),
           \A x \in Calls : pc[x] = "dialing" => on[x] \in Dials,
           what = "dialing" => d \in Dials
    PROVE  /\ pc' \in [Calls -> {"idle", "dialing", "sent"}]
           /\ on' \in [Calls -> Dials \cup {Nothing}]
           /\ \A x \in Calls : pc'[x] = "dialing" => on'[x] \in Dials
  BY DEF TypeOK, Await

(* Drop tells Idle of a tunnel that was cached, and leaves none.           *)
LEMMA DropKeeps ==
    ASSUME TypeOK, DropIsSeen, Drop, state = "Ready" => tunnel # Nothing
    PROVE  /\ tunnel' = Nothing /\ state' \in States /\ state' # "Ready"
           /\ told' \subseteq States \X States /\ DropIsSeen'
  <1>1. CASE tunnel # Nothing
    <2>1. Set("Idle") BY <1>1 DEF Drop
    <2>2. DropIsSeen' BY <2>1, SetTells DEF States
    <2>3. state' = "Idle" /\ told' \subseteq States \X States BY <2>1, SetTyped DEF States
    <2> QED BY <2>2, <2>3 DEF Drop, States
  <1>2. CASE tunnel = Nothing
    BY <1>2 DEF Drop, TypeOK, DropIsSeen
  <1> QED BY <1>1, <1>2

LEMMA Inductive == IInv /\ [Next]_vars => IInv'
  <1> SUFFICES ASSUME IInv, [Next]_vars PROVE IInv'
    OBVIOUS
  <1> USE ChannelAssumption DEF Nothing, Dials
  <1>1. ASSUME NEW c \in Calls, FastPath(c) PROVE IInv'
    <2>1. Await(c, "sent", tunnel) /\ tunnel \in Dials
      BY <1>1 DEF FastPath, IInv, TypeOK
    <2>2. /\ pc' \in [Calls -> {"idle", "dialing", "sent"}]
          /\ on' \in [Calls -> Dials \cup {Nothing}]
          /\ \A x \in Calls : pc'[x] = "dialing" => on'[x] \in Dials
      BY <2>1, AwaitTyped DEF IInv
    <2> QED BY <1>1, <2>2 DEF FastPath, IInv, TypeOK, DropIsSeen, shared
  <1>2. ASSUME NEW c \in Calls, CannotRedial(c) PROVE IInv'
    <2>1. /\ tunnel' = Nothing /\ state' \in States /\ state' # "Ready"
          /\ told' \subseteq States \X States /\ DropIsSeen'
      BY <1>2, DropKeeps DEF CannotRedial, IInv
    <2> QED BY <1>2, <2>1 DEF CannotRedial, IInv, TypeOK
  <1>3. ASSUME NEW c \in Calls, JoinDial(c) PROVE IInv'
    <2>1. /\ tunnel' = Nothing /\ state' \in States /\ state' # "Ready"
          /\ told' \subseteq States \X States /\ DropIsSeen'
      BY <1>3, DropKeeps DEF JoinDial, IInv
    <2>2. Await(c, "dialing", slot) /\ slot \in Dials
      BY <1>3 DEF JoinDial, IInv, TypeOK
    <2>3. /\ pc' \in [Calls -> {"idle", "dialing", "sent"}]
          /\ on' \in [Calls -> Dials \cup {Nothing}]
          /\ \A x \in Calls : pc'[x] = "dialing" => on'[x] \in Dials
      BY <2>2, AwaitTyped DEF IInv
    <2> QED BY <1>3, <2>1, <2>3 DEF JoinDial, IInv, TypeOK
  <1>4. ASSUME NEW c \in Calls, BeginDial(c) PROVE IInv'
    <2>1. begun' \in Dials /\ begun' = begun + 1 /\ slot' = begun' /\ tunnel' = Nothing
      BY <1>4 DEF BeginDial, IInv, TypeOK
    <2>2. state' = "Connecting" /\ told' \subseteq States \X States /\ DropIsSeen'
      <3>1. CASE tunnel # Nothing
        <4>1. SetBoth("Idle", "Connecting") BY <1>4, <3>1 DEF BeginDial
        <4> QED BY <4>1, SetBothTells, SetBothTyped DEF IInv
      <3>2. CASE tunnel = Nothing
        <4>1. Set("Connecting") /\ state # "Ready" BY <1>4, <3>2 DEF BeginDial, IInv
        <4>2. DropIsSeen' BY <4>1, SetTells DEF IInv, States
        <4> QED BY <4>1, <4>2, SetTyped DEF IInv, States
      <3> QED BY <3>1, <3>2
    <2>3. Await(c, "dialing", begun') BY <1>4 DEF BeginDial
    <2>4. /\ pc' \in [Calls -> {"idle", "dialing", "sent"}]
          /\ on' \in [Calls -> Dials \cup {Nothing}]
          /\ \A x \in Calls : pc'[x] = "dialing" => on'[x] \in Dials
      BY <2>1, <2>3, AwaitTyped DEF IInv
    <2>5. ~late => \A d \in Dials : dial'[d] = "open" => slot' = d
      BY <1>4, <2>1 DEF BeginDial, IInv, TypeOK
    <2> QED BY <1>4, <2>1, <2>2, <2>4, <2>5 DEF BeginDial, IInv, TypeOK, States
  <1>5. ASSUME NEW d \in Dials, NEW r \in {"ok", "failed"}, DialSettles(d, r) PROVE IInv'
    BY <1>5 DEF DialSettles, IInv, TypeOK, DropIsSeen, shared
  <1>6. ASSUME NEW c \in Calls, Resume(c) PROVE IInv'
    <2>1. on[c] \in Dials BY <1>6 DEF Resume, IInv
    <2>2. ~late' => ~late /\ on[c] = begun BY <1>6 DEF Resume, IInv, TypeOK
    <2>3. ~late' => \A d \in Dials : dial[d] # "open"
      BY <1>6, <2>1, <2>2 DEF Resume, IInv, TypeOK
    <2>4. CASE dial[on[c]] = "ok"
      <3>1. Set("Ready") /\ tunnel' = on[c] /\ Await(c, "sent", on[c])
        BY <1>6, <2>4 DEF Resume
      <3>2. DropIsSeen' BY <3>1, SetTells DEF IInv, States
      <3>3. state' = "Ready" /\ told' \subseteq States \X States
        BY <3>1, SetTyped DEF IInv, States
      <3>4. /\ pc' \in [Calls -> {"idle", "dialing", "sent"}]
            /\ on' \in [Calls -> Dials \cup {Nothing}]
            /\ \A x \in Calls : pc'[x] = "dialing" => on'[x] \in Dials
        BY <2>1, <3>1, AwaitTyped DEF IInv
      <3> QED
        BY <1>6, <2>1, <2>2, <2>3, <3>1, <3>2, <3>3, <3>4 DEF Resume, IInv, TypeOK, States
    <2>5. CASE dial[on[c]] # "ok"
      <3>1. Set("TransientFailure") /\ tunnel' = tunnel /\ Await(c, "idle", Nothing)
        BY <1>6, <2>5 DEF Resume, Return
      <3>2. DropIsSeen' BY <3>1, SetTells DEF IInv, States
      <3>3. state' = "TransientFailure" /\ told' \subseteq States \X States
        BY <3>1, SetTyped DEF IInv, States
      <3>4. /\ pc' \in [Calls -> {"idle", "dialing", "sent"}]
            /\ on' \in [Calls -> Dials \cup {Nothing}]
            /\ \A x \in Calls : pc'[x] = "dialing" => on'[x] \in Dials
        BY <3>1, AwaitTyped DEF IInv
      <3> QED
        BY <1>6, <2>2, <2>3, <3>1, <3>2, <3>3, <3>4 DEF Resume, IInv, TypeOK, States
    <2> QED BY <2>4, <2>5
  <1>7. ASSUME NEW c \in Calls, Answered(c) \/ GiveUp(c) PROVE IInv'
    <2>1. Await(c, "idle", Nothing) /\ UNCHANGED <<shared, dial, alive>>
      BY <1>7 DEF Answered, GiveUp, Return
    <2>2. /\ pc' \in [Calls -> {"idle", "dialing", "sent"}]
          /\ on' \in [Calls -> Dials \cup {Nothing}]
          /\ \A x \in Calls : pc'[x] = "dialing" => on'[x] \in Dials
      BY <2>1, AwaitTyped DEF IInv
    <2> QED BY <2>1, <2>2 DEF IInv, TypeOK, DropIsSeen, shared
  <1>8. ASSUME NEW c \in Calls, RequestFails(c) PROVE IInv'
    <2>1. Await(c, "idle", Nothing) BY <1>8 DEF RequestFails, Return
    <2>2. /\ pc' \in [Calls -> {"idle", "dialing", "sent"}]
          /\ on' \in [Calls -> Dials \cup {Nothing}]
          /\ \A x \in Calls : pc'[x] = "dialing" => on'[x] \in Dials
      BY <2>1, AwaitTyped DEF IInv
    <2>3. CASE Drop
      <3>1. /\ tunnel' = Nothing /\ state' \in States /\ state' # "Ready"
            /\ told' \subseteq States \X States /\ DropIsSeen'
        BY <2>3, DropKeeps DEF IInv
      <3> QED BY <1>8, <2>2, <3>1 DEF RequestFails, forget, IInv, TypeOK
    <2>4. CASE UNCHANGED <<tunnel, state, told>>
      BY <1>8, <2>2, <2>4 DEF RequestFails, forget, IInv, TypeOK, DropIsSeen
    <2> QED BY <1>8, <2>3, <2>4 DEF RequestFails, forget
  <1>9. ASSUME AskState PROVE IInv'
    <2>1. DropIsSeen' BY <1>9, SetTells DEF AskState, IInv, States
    <2>2. state' = "Idle" /\ told' \subseteq States \X States
      BY <1>9, SetTyped DEF AskState, IInv, States
    <2> QED BY <1>9, <2>1, <2>2 DEF AskState, IInv, TypeOK, States
  <1>10. ASSUME NEW d \in Dials, TunnelDies(d) PROVE IInv'
    BY <1>10 DEF TunnelDies, IInv, TypeOK, DropIsSeen, shared
  <1>11. ASSUME UNCHANGED vars PROVE IInv'
    BY <1>11 DEF IInv, TypeOK, DropIsSeen, vars
  <1> QED
    BY <1>1, <1>2, <1>3, <1>4, <1>5, <1>6, <1>7, <1>8, <1>9, <1>10, <1>11 DEF Next

LEMMA Initially == Init => IInv
  <1> SUFFICES ASSUME Init PROVE IInv
    OBVIOUS
  <1>1. 1 \in Dials /\ Nothing \notin Dials BY ChannelAssumption DEF Dials, Nothing
  <1>2. told \subseteq States \X States /\ DropIsSeen BY DEF Init, DropIsSeen
  <1>3. dial \in [Dials -> {"none", "open", "ok", "failed"}] /\ \A d \in Dials : dial[d] # "open"
    BY DEF Init
  <1>4. \/ tunnel = Nothing /\ begun = 0 /\ alive = {} /\ state = "Idle"
        \/ tunnel = 1 /\ begun = 1 /\ alive = {1} /\ state = "Ready"
    BY DEF Init
  <1>5. /\ tunnel \in Dials \cup {Nothing} /\ begun \in 0..MaxDials /\ alive \subseteq Dials
        /\ state \in States /\ (state = "Ready" => tunnel # Nothing)
        /\ tunnel \in {Nothing, begun}
    BY <1>1, <1>4, ChannelAssumption DEF Nothing, States, Dials
  <1>6. /\ redial \in BOOLEAN /\ late \in BOOLEAN /\ slot = Nothing
        /\ pc \in [Calls -> {"idle", "dialing", "sent"}] /\ on \in [Calls -> Dials \cup {Nothing}]
        /\ \A c \in Calls : pc[c] # "dialing"
    BY DEF Init
  <1> QED BY <1>2, <1>3, <1>5, <1>6 DEF IInv, TypeOK

(* However calls, dials, deadlines and losses interleave, a watcher of the *)
(* connectivity state is never told Connecting straight after Ready.       *)
THEOREM ReconnectIsTold == Spec => []DropIsSeen
  <1>1. IInv => DropIsSeen BY DEF IInv
  <1> QED BY <1>1, Initially, Inductive, PTL DEF Spec

(* Two dials are under way at once only after a call resumed late.         *)
THEOREM DialIsShared == Spec => []OneSocket
  <1>1. IInv => OneSocket BY DEF IInv, OneSocket, TypeOK
  <1> QED BY <1>1, Initially, Inductive, PTL DEF Spec

(* Until then a live tunnel stays cached, whatever other calls do.         *)
THEOREM TunnelIsKept == Spec => LiveTunnelKept
  <1>1. IInv /\ [Next]_vars => [(tunnel \in alive /\ ~late') => tunnel' = tunnel]_vars
    <2> SUFFICES ASSUME IInv, Next, tunnel \in alive, ~late' PROVE tunnel' = tunnel
      OBVIOUS
    <2>1. tunnel \in Dials /\ tunnel # Nothing BY DEF IInv, TypeOK, Dials, Nothing
    <2>2. ASSUME NEW c \in Calls, Resume(c) PROVE tunnel' = tunnel
      <3>1. on[c] = begun /\ ~late BY <2>2 DEF Resume, IInv, TypeOK
      <3>2. tunnel = begun BY <2>1, <3>1 DEF IInv
      <3> QED BY <2>2, <3>1, <3>2 DEF Resume
    <2>3. ASSUME NEW c \in Calls, RequestFails(c) PROVE tunnel' = tunnel
      BY <2>3 DEF RequestFails, forget
    <2> QED
      BY <2>2, <2>3 DEF Next, FastPath, CannotRedial, JoinDial, BeginDial, Answered, GiveUp,
        DialSettles, AskState, TunnelDies, shared
  <1> QED BY <1>1, Initially, Inductive, PTL DEF Spec, LiveTunnelKept
=============================================================================
