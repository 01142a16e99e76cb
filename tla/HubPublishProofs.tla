-------------------------- MODULE HubPublishProofs --------------------------
(***************************************************************************)
(* Proofs about the /publish side of the hub, for every number of          *)
(* connections, agents, PINs and restarts of the test pattern.             *)
(***************************************************************************)
EXTENDS HubPublish, TLAPS

(* The channel pair in the fields of TestPattern exists, and a generator
   that passed its defer statement will close an existing one. *)
PairsExist ==
    /\ tpGen \in Gens
    /\ \A g \in Gens : loop[g].pc \in {"top", "select", "generate"} => loop[g].closes \in Gens

(* Only goroutines of the default session deal with the test pattern. *)
PatternIsDefaults ==
    \A c \in Conns : handler[c].pc \in {"tpStop", "tpWait", "tpStart"} => handler[c].sess = Default

(* The inductive invariant. *)
IInv ==
    /\ TypeOK
    /\ PairsExist
    /\ PatternIsDefaults
    /\ SinglePublisher
    /\ OnlineIffOwned
    /\ PatternNotLost

-----------------------------------------------------------------------------
(* The state NewHub and Hub.Run leave behind satisfies the invariant. *)
LEMMA InitIInv == Init => IInv
  <1> SUFFICES ASSUME Init PROVE IInv
    OBVIOUS
  <1> USE PublishAssumption, MaxStartsAssumption DEF Init, TPInit
  <1>1. TypeOK
    <2>1. TPTypeOK
      <3>1. NoLoop \in LoopStates /\ [NoLoop EXCEPT !.pc = "spawned"] \in LoopStates
        BY DEF LoopStates, LoopPCs, NoLoop
      <3>2. loop \in [Gens -> LoopStates]
        BY <3>1
      <3>3. tpGen \in 0 .. MaxStarts
        OBVIOUS
      <3>4. QED
        BY <3>2, <3>3 DEF TPTypeOK
    <2>2. handler \in [Conns -> Handlers]
      BY DEF Handlers, Returned, PCs, Agents, SessionIds
    <2>3. sender \in [Senders -> SenderStates]
      BY DEF SenderStates, IdleSender, Agents, SessionIds
    <2>4. QED
      BY <2>1, <2>2, <2>3 DEF TypeOK, Agents, SessionIds
  <1>2. PairsExist
    BY DEF PairsExist, NoLoop, Gens
  <1>3. PatternIsDefaults
    BY DEF PatternIsDefaults, Returned
  <1>4. SinglePublisher
    BY DEF SinglePublisher, Returned, OwnerPCs
  <1>5. OnlineIffOwned
    BY DEF OnlineIffOwned, Owns, Returned, OwnerPCs
  <1>6. PatternNotLost
    BY DEF PatternNotLost
  <1>7. QED
    BY <1>1, <1>2, <1>3, <1>4, <1>5, <1>6 DEF IInv

-----------------------------------------------------------------------------
(* Start, Stop and the generator keep the pattern's own part of the state
   well formed, whoever calls them. *)
LEMMA PatternSteps ==
  ASSUME TPTypeOK, PairsExist,
         \/ TPStart
         \/ TPStopRunning
         \/ TPStopIdle
         \/ \E g \in Gens : LoopStep(g)
         \/ UNCHANGED tpVars
  PROVE  TPTypeOK' /\ PairsExist'
  <1> USE MaxStartsAssumption DEF TPTypeOK, PairsExist, Gens
  <1>1. CASE TPStart
    <2>1. CASE tpRunning
      BY <1>1, <2>1 DEF TPStart
    <2>2. CASE ~tpRunning
      <3>1. tpGen + 1 \in Gens /\ loop[tpGen + 1] \in LoopStates
        BY <1>1, <2>2 DEF TPStart
      <3>2. loop' = [loop EXCEPT ![tpGen + 1] = [loop[tpGen + 1] EXCEPT !.pc = "spawned"]]
        BY <1>1, <2>2, <3>1 DEF TPStart
      <3>3. [loop[tpGen + 1] EXCEPT !.pc = "spawned"] \in LoopStates
        BY <3>1 DEF LoopStates, LoopPCs
      <3>4. loop' \in [Gens -> LoopStates]
        BY <3>1, <3>2, <3>3
      <3>5. TPTypeOK'
        <4>1. tpGen' \in 0 .. MaxStarts /\ UNCHANGED <<stopClosed, stoppedClosed, crashed>>
          BY <1>1, <2>2, <3>1 DEF TPStart
        <4>2. tpRunning' \in BOOLEAN
          BY <1>1, <2>2 DEF TPStart
        <4>3. QED
          BY <3>4, <4>1, <4>2
      <3>6. PairsExist'
        <4> SUFFICES ASSUME NEW h \in Gens, loop'[h].pc \in {"top", "select", "generate"}
                     PROVE  loop'[h].closes \in Gens
          BY <1>1, <2>2, <3>1 DEF TPStart
        <4>1. h # tpGen + 1
          BY <3>1, <3>2 DEF LoopStates
        <4>2. loop'[h] = loop[h]
          BY <3>2, <4>1
        <4>3. QED
          BY <4>2
      <3>7. QED
        BY <3>5, <3>6
    <2>3. QED
      BY <2>1, <2>2
  <1>2. CASE TPStopRunning
    BY <1>2 DEF TPStopRunning
  <1>3. CASE TPStopIdle \/ UNCHANGED tpVars
    BY <1>3 DEF TPStopIdle, tpVars
  <1>4. CASE \E g \in Gens : LoopStep(g)
    <2> PICK g \in Gens : LoopStep(g)
      BY <1>4
    <2>1. CASE LoopEnter(g)
      <3>1. [loop[g] EXCEPT !.pc = "top", !.closes = tpGen] \in LoopStates
        BY DEF LoopStates, LoopPCs
      <3>2. loop' = [loop EXCEPT ![g] = [loop[g] EXCEPT !.pc = "top", !.closes = tpGen]]
        BY <2>1 DEF LoopEnter
      <3>3. TPTypeOK'
        BY <2>1, <3>1, <3>2 DEF LoopEnter
      <3>4. PairsExist'
        BY <2>1, <3>2 DEF LoopEnter, LoopStates
      <3>5. QED
        BY <3>3, <3>4
    <2>2. CASE LoopSelect(g)
      <3>1. [loop[g] EXCEPT !.pc = "select", !.selects = tpGen] \in LoopStates
        BY DEF LoopStates, LoopPCs
      <3>2. loop' = [loop EXCEPT ![g] = [loop[g] EXCEPT !.pc = "select", !.selects = tpGen]]
        BY <2>2 DEF LoopSelect
      <3>3. TPTypeOK'
        BY <2>2, <3>1, <3>2 DEF LoopSelect
      <3>4. PairsExist'
        BY <2>2, <3>2 DEF LoopSelect, LoopStates
      <3>5. QED
        BY <3>3, <3>4
    <2>3. CASE LoopTick(g)
      <3>1. [loop[g] EXCEPT !.pc = "generate", !.selects = 0] \in LoopStates
        <4>1. loop[g] \in LoopStates /\ 0 \in 0 .. MaxStarts
          OBVIOUS
        <4>2. QED
          BY <4>1 DEF LoopStates, LoopPCs
      <3>2. loop' = [loop EXCEPT ![g] = [loop[g] EXCEPT !.pc = "generate", !.selects = 0]]
        BY <2>3 DEF LoopTick
      <3>3. TPTypeOK'
        BY <2>3, <3>1, <3>2 DEF LoopTick
      <3>4. PairsExist'
        BY <2>3, <3>2 DEF LoopTick, LoopStates
      <3>5. QED
        BY <3>3, <3>4
    <2>4. CASE LoopBroadcast(g)
      BY <2>4 DEF LoopBroadcast, LoopStates, LoopPCs
    <2>5. CASE LoopExit(g)
      <3>0. [NoLoop EXCEPT !.pc = "ended"] \in LoopStates
        <4>1. [NoLoop EXCEPT !.pc = "ended"] = [pc |-> "ended", closes |-> 0, selects |-> 0]
          BY DEF NoLoop
        <4>2. 0 \in 0 .. MaxStarts
          BY MaxStartsAssumption
        <4>3. QED
          BY <4>1, <4>2 DEF LoopStates, LoopPCs
      <3>1. loop' \in [Gens -> LoopStates]
        BY <2>5, <3>0 DEF LoopExit
      <3>2. crashed' \in BOOLEAN
        <4>1. crashed' = (loop[g].closes \in stoppedClosed)
          BY <2>5 DEF LoopExit
        <4>2. QED
          BY <4>1
      <3>3. TPTypeOK'
        BY <2>5, <3>1, <3>2 DEF LoopExit
      <3>4. PairsExist'
        BY <2>5 DEF LoopExit, NoLoop
      <3>5. QED
        BY <3>3, <3>4
    <2>6. QED
      BY <2>1, <2>2, <2>3, <2>4, <2>5 DEF LoopStep
  <1>5. QED
    BY <1>1, <1>2, <1>3, <1>4
-----------------------------------------------------------------------------
(* What a jump of a HandlePublish goroutine leaves alone. *)
LEMMA GotoFacts ==
  ASSUME handler \in [Conns -> Handlers], NEW c \in Conns, NEW label \in PCs, Goto(c, label)
  PROVE  /\ handler' \in [Conns -> Handlers]
         /\ handler'[c].pc = label /\ handler'[c].sess = handler[c].sess
         /\ handler'[c].pin = handler[c].pin
         /\ \A d \in Conns \ {c} : handler'[d] = handler[d]
  <1>1. handler' = [handler EXCEPT ![c] = [handler[c] EXCEPT !.pc = label]]
    BY DEF Goto
  <1>2. [handler[c] EXCEPT !.pc = label] \in Handlers
    BY DEF Handlers
  <1>3. QED
    BY <1>1, <1>2 DEF Handlers

(* ... and its return. *)
LEMMA ReturnFacts ==
  ASSUME handler \in [Conns -> Handlers], NEW c \in Conns, Return(c)
  PROVE  /\ handler' \in [Conns -> Handlers]
         /\ handler'[c] = Returned
         /\ \A d \in Conns \ {c} : handler'[d] = handler[d]
  <1>1. Returned \in Handlers
    BY PublishAssumption, MaxStartsAssumption DEF Returned, Handlers, PCs, Agents, SessionIds
  <1>2. QED
    BY <1>1 DEF Return

(* A goroutine that does not own a session, and moves to a place where it
   still does not, disturbs none of the properties of the slots; neither
   does an owner that goes on owning. *)
LEMMA SlotsUntouched ==
  ASSUME TypeOK, SinglePublisher, OnlineIffOwned, UNCHANGED <<publisher, pin>>,
         NEW c \in Conns,
         \A d \in Conns \ {c} : handler'[d] = handler[d],
         \/ handler[c].pc \notin OwnerPCs /\ handler'[c].pc \notin OwnerPCs
         \/ /\ handler[c].pc \in OwnerPCs /\ handler'[c].pc \in OwnerPCs
            /\ handler'[c].sess = handler[c].sess /\ handler'[c].pin = handler[c].pin
  PROVE  SinglePublisher' /\ OnlineIffOwned'
  <1>1. SinglePublisher'
    BY DEF SinglePublisher
  <1>2. OnlineIffOwned'
    <2> SUFFICES ASSUME NEW s \in SessionIds
                 PROVE  IF publisher[s] = NoConn
                        THEN pin[s] = NoPin /\ \A d \in Conns : ~Owns(d, s)'
                        ELSE Owns(publisher[s], s)' /\ pin[s] = handler'[publisher[s]].pin
      BY DEF OnlineIffOwned
    <2>1. publisher[s] # NoConn => publisher[s] \in Conns
      BY DEF TypeOK
    <2>2. QED
      BY <2>1 DEF OnlineIffOwned, Owns
  <1>3. QED
    BY <1>1, <1>2
-----------------------------------------------------------------------------
(* Every step preserves the invariant. *)
LEMMA NextIInv == IInv /\ [Next]_vars => IInv'
  <1> SUFFICES ASSUME IInv, [Next]_vars PROVE IInv'
    OBVIOUS
  <1> USE PublishAssumption DEF IInv
  <1>1. CASE ReloadRegistry
    <2>1. TPTypeOK' /\ PairsExist'
      BY <1>1, PatternSteps DEF ReloadRegistry, TypeOK
    <2>2. QED
      BY <1>1, <2>1 DEF ReloadRegistry, TypeOK, PatternIsDefaults, SinglePublisher,
         OnlineIffOwned, Owns, PatternNotLost, PatternPending, tpVars
  <1>2. ASSUME NEW c \in Conns, AuthenticatePublisher(c) PROVE IInv'
    <2>1. PICK a \in registry \cup {Default}, p \in Pins :
             handler' = [handler EXCEPT ![c] = [handler[c] EXCEPT !.pc = "entry", !.hello = a, !.pin = p]]
      <3>1. PICK a \in registry \cup {Default}, p \in Pins :
               handler' = [handler EXCEPT ![c].pc = "entry", ![c].hello = a, ![c].pin = p]
        BY <1>2, Zenon DEF AuthenticatePublisher
      <3>2. handler' = [handler EXCEPT ![c] = [handler[c] EXCEPT !.pc = "entry", !.hello = a, !.pin = p]]
        BY <3>1 DEF TypeOK, Handlers
      <3>3. QED
        BY <3>2, Zenon
    <2>2. [handler[c] EXCEPT !.pc = "entry", !.hello = a, !.pin = p] \in Handlers
      <3>1. handler[c] \in Handlers /\ a \in Agents
        BY DEF TypeOK, Agents
      <3>2. QED
        BY <3>1 DEF Handlers, PCs
    <2>3. handler' \in [Conns -> Handlers]
      BY <2>1, <2>2 DEF TypeOK
    <2>4. handler'[c].pc = "entry" /\ \A d \in Conns \ {c} : handler'[d] = handler[d]
      BY <2>1 DEF TypeOK, Handlers
    <2>5. TPTypeOK' /\ PairsExist'
      BY <1>2, PatternSteps DEF AuthenticatePublisher, TypeOK
    <2>6. TypeOK'
      <3>1. publishes' \in 0 .. MaxPublishes
        BY <1>2 DEF AuthenticatePublisher, TypeOK
      <3>2. QED
        BY <1>2, <2>3, <2>5, <3>1 DEF AuthenticatePublisher, TypeOK
    <2>7. SinglePublisher' /\ OnlineIffOwned'
      BY <1>2, <2>4, SlotsUntouched DEF AuthenticatePublisher, OwnerPCs
    <2>8. PatternIsDefaults'
      BY <2>4 DEF PatternIsDefaults
    <2>9. PatternNotLost'
      BY <1>2, <2>4 DEF AuthenticatePublisher, PatternNotLost, PatternPending, tpVars
    <2>10. QED
      BY <2>5, <2>6, <2>7, <2>8, <2>9
  <1>3. ASSUME NEW c \in Conns, LookupSession(c) PROVE IInv'
    <2>1. PICK id \in SessionIds :
             /\ handler' = [handler EXCEPT ![c] = [handler[c] EXCEPT !.pc = "checkPIN", !.sess = id]]
             /\ sessions' = sessions \cup {id}
      BY <1>3 DEF LookupSession, TypeOK, Handlers, SessionIds
    <2>2. [handler[c] EXCEPT !.pc = "checkPIN", !.sess = id] \in Handlers
      BY DEF TypeOK, Handlers, PCs
    <2>3. handler' \in [Conns -> Handlers]
      BY <2>1, <2>2 DEF TypeOK
    <2>4. handler'[c].pc = "checkPIN" /\ \A d \in Conns \ {c} : handler'[d] = handler[d]
      BY <2>1 DEF TypeOK, Handlers
    <2>5. TPTypeOK' /\ PairsExist'
      BY <1>3, PatternSteps DEF LookupSession, TypeOK
    <2>6. TypeOK'
      BY <1>3, <2>1, <2>3, <2>5 DEF LookupSession, TypeOK
    <2>7. SinglePublisher' /\ OnlineIffOwned'
      BY <1>3, <2>4, SlotsUntouched DEF LookupSession, OwnerPCs
    <2>8. PatternIsDefaults'
      BY <2>4 DEF PatternIsDefaults
    <2>9. PatternNotLost'
      BY <1>3, <2>4 DEF LookupSession, PatternNotLost, PatternPending, tpVars
    <2>10. QED
      BY <2>5, <2>6, <2>7, <2>8, <2>9
  <1>4. ASSUME NEW c \in Conns, CheckPIN(c) PROVE IInv'
    <2>1. /\ handler' \in [Conns -> Handlers]
          /\ handler'[c].pc \in {"idle", "claim"}
          /\ \A d \in Conns \ {c} : handler'[d] = handler[d]
      <3>1. CASE Return(c)
        BY <3>1, ReturnFacts DEF TypeOK, Returned
      <3>2. CASE Goto(c, "claim")
        BY <3>2, GotoFacts DEF TypeOK, PCs
      <3>3. QED
        BY <1>4, <3>1, <3>2 DEF CheckPIN
    <2>2. TPTypeOK' /\ PairsExist'
      BY <1>4, PatternSteps DEF CheckPIN, TypeOK
    <2>3. TypeOK'
      BY <1>4, <2>1, <2>2 DEF CheckPIN, TypeOK
    <2>4. SinglePublisher' /\ OnlineIffOwned'
      BY <1>4, <2>1, SlotsUntouched DEF CheckPIN, OwnerPCs
    <2>5. PatternIsDefaults'
      BY <2>1 DEF PatternIsDefaults
    <2>6. PatternNotLost'
      BY <1>4, <2>1 DEF CheckPIN, PatternNotLost, PatternPending, tpVars
    <2>7. QED
      BY <2>2, <2>3, <2>4, <2>5, <2>6
  <1>5. ASSUME NEW c \in Conns, ClaimSession(c) PROVE IInv'
    <2> DEFINE s == handler[c].sess
    <2>0. s \in SessionIds /\ TPTypeOK' /\ PairsExist' /\ UNCHANGED <<tpRunning, hubPC>>
      BY <1>5, PatternSteps DEF ClaimSession, TypeOK, Handlers, tpVars
    <2>1. CASE publisher[s] # NoConn
      <3>1. Return(c) /\ UNCHANGED <<publisher, pin>>
        BY <1>5, <2>1 DEF ClaimSession
      <3>2. /\ handler' \in [Conns -> Handlers] /\ handler'[c].pc = "idle"
            /\ \A d \in Conns \ {c} : handler'[d] = handler[d]
        BY <3>1, ReturnFacts DEF TypeOK, Returned
      <3>3. TypeOK'
        BY <1>5, <2>0, <3>1, <3>2 DEF ClaimSession, TypeOK
      <3>4. SinglePublisher' /\ OnlineIffOwned'
        BY <1>5, <3>1, <3>2, SlotsUntouched DEF ClaimSession, OwnerPCs
      <3>5. PatternIsDefaults' /\ PatternNotLost'
        BY <1>5, <2>0, <3>2 DEF ClaimSession, PatternIsDefaults, PatternNotLost, PatternPending
      <3>6. QED
        BY <2>0, <3>3, <3>4, <3>5
    <2>2. CASE publisher[s] = NoConn
      <3> DEFINE label == IF s = Default THEN "tpStop" ELSE "ready"
      <3>1. /\ publisher' = [publisher EXCEPT ![s] = c]
            /\ pin' = [pin EXCEPT ![s] = handler[c].pin]
            /\ Goto(c, label)
        BY <1>5, <2>2 DEF ClaimSession
      <3>2. label \in PCs /\ label \in OwnerPCs
        BY DEF PCs, OwnerPCs
      <3>3. /\ handler' \in [Conns -> Handlers]
            /\ handler'[c].pc = label /\ handler'[c].sess = s /\ handler'[c].pin = handler[c].pin
            /\ \A d \in Conns \ {c} : handler'[d] = handler[d]
        <4> HIDE DEF label
        <4>1. QED
          BY <3>1, <3>2, GotoFacts DEF TypeOK
      <3>4. /\ publisher' \in [SessionIds -> Conns \cup {NoConn}]
            /\ pin' \in [SessionIds -> Pins \cup {NoPin}]
        BY <2>0, <3>1 DEF TypeOK, Handlers
      <3>5. TypeOK'
        BY <1>5, <2>0, <3>3, <3>4 DEF ClaimSession, TypeOK
      <3>6. \A d \in Conns : ~Owns(d, s)
        BY <2>0, <2>2 DEF OnlineIffOwned
      <3>7. SinglePublisher'
        <4> SUFFICES ASSUME NEW d \in Conns, handler'[d].pc \in OwnerPCs
                     PROVE  publisher'[handler'[d].sess] = d
          BY DEF SinglePublisher
        <4>1. CASE d = c
          BY <2>0, <3>1, <3>3, <4>1 DEF TypeOK
        <4>2. CASE d # c
          <5>1. handler[d].sess # s /\ publisher[handler[d].sess] = d /\ handler'[d] = handler[d]
            BY <3>3, <3>6, <4>2 DEF Owns, SinglePublisher
          <5>2. handler[d].sess \in SessionIds
            BY DEF TypeOK, Handlers
          <5>3. QED
            BY <2>0, <3>1, <5>1, <5>2 DEF TypeOK
        <4>3. QED
          BY <4>1, <4>2
      <3>8. OnlineIffOwned'
        <4> SUFFICES ASSUME NEW t \in SessionIds
                     PROVE  IF publisher'[t] = NoConn
                            THEN pin'[t] = NoPin /\ \A d \in Conns : ~Owns(d, t)'
                            ELSE Owns(publisher[t], t)' /\ pin'[t] = handler'[publisher'[t]].pin
          BY DEF OnlineIffOwned
        <4>1. CASE t = s
          BY <2>0, <3>1, <3>2, <3>3, <4>1 DEF TypeOK, Owns
        <4>2. CASE t # s
          <5>1. publisher'[t] = publisher[t] /\ pin'[t] = pin[t]
            BY <2>0, <3>1, <4>2 DEF TypeOK
          <5>2. \A d \in Conns : Owns(d, t)' <=> Owns(d, t)
            BY <1>5, <3>3, <4>2 DEF Owns, ClaimSession, OwnerPCs
          <5>3. publisher[t] # NoConn => publisher[t] \in Conns /\ publisher[t] # c
            BY <1>5 DEF TypeOK, OnlineIffOwned, Owns, ClaimSession, OwnerPCs
          <5>4. publisher[t] # NoConn => Owns(publisher[t], t)' /\ handler'[publisher[t]] = handler[publisher[t]]
            BY <3>3, <5>1, <5>2, <5>3 DEF OnlineIffOwned
          <5>5. QED
            BY <5>1, <5>2, <5>4 DEF OnlineIffOwned
        <4>3. QED
          BY <4>1, <4>2
      <3>9. PatternIsDefaults'
        BY <3>3 DEF PatternIsDefaults
      <3>10. PatternNotLost'
        BY <1>5, <2>0, <3>3 DEF ClaimSession, PatternNotLost, PatternPending
      <3>11. QED
        BY <2>0, <3>5, <3>7, <3>8, <3>9, <3>10
    <2>3. QED
      BY <2>1, <2>2
  <1>6. ASSUME NEW c \in Conns, StopPattern(c) PROVE IInv'
    <2>1. handler[c].sess = Default /\ handler[c].pc \in OwnerPCs
      BY <1>6 DEF StopPattern, PatternIsDefaults, OwnerPCs
    <2>2. TPTypeOK' /\ PairsExist'
      BY <1>6, PatternSteps DEF StopPattern, TypeOK
    <2>3. /\ handler' \in [Conns -> Handlers]
          /\ handler'[c].pc \in {"tpWait", "ready"}
          /\ handler'[c].sess = Default /\ handler'[c].pin = handler[c].pin
          /\ \A d \in Conns \ {c} : handler'[d] = handler[d]
      <3>1. CASE Goto(c, "ready")
        BY <2>1, <3>1, GotoFacts DEF TypeOK, PCs
      <3>2. CASE handler' = [handler EXCEPT ![c].pc = "tpWait", ![c].awaits = tpGen]
        <4>1. handler' = [handler EXCEPT ![c] = [handler[c] EXCEPT !.pc = "tpWait", !.awaits = tpGen]]
          BY <3>2
        <4>2. handler[c] \in Handlers /\ tpGen \in 0 .. MaxStarts
          BY DEF TypeOK, TPTypeOK
        <4>3. [handler[c] EXCEPT !.pc = "tpWait", !.awaits = tpGen] \in Handlers
          BY <4>2 DEF Handlers, PCs
        <4>4. QED
          BY <2>1, <4>1, <4>2, <4>3 DEF TypeOK, Handlers
      <3>3. QED
        BY <1>6, <3>1, <3>2 DEF StopPattern
    <2>4. TypeOK'
      BY <1>6, <2>2, <2>3 DEF StopPattern, TypeOK
    <2>5. SinglePublisher' /\ OnlineIffOwned'
      BY <1>6, <2>1, <2>3, SlotsUntouched DEF StopPattern, OwnerPCs
    <2>6. PatternIsDefaults'
      BY <2>3 DEF PatternIsDefaults
    <2>7. PatternNotLost'
      BY <2>3 DEF PatternNotLost, PatternPending
    <2>8. QED
      BY <2>2, <2>4, <2>5, <2>6, <2>7
  <1>7. ASSUME NEW c \in Conns, PatternStopped(c) PROVE IInv'
    <2>1. /\ handler' \in [Conns -> Handlers]
          /\ handler[c].pc \in OwnerPCs /\ handler'[c].pc \in OwnerPCs
          /\ handler'[c].sess = handler[c].sess /\ handler'[c].pin = handler[c].pin
          /\ \A d \in Conns \ {c} : handler'[d] = handler[d]
      BY <1>7, GotoFacts DEF PatternStopped, TypeOK, PCs, OwnerPCs
    <2>2. TPTypeOK' /\ PairsExist'
      BY <1>7, PatternSteps DEF PatternStopped, TypeOK
    <2>3. TypeOK'
      BY <1>7, <2>1, <2>2 DEF PatternStopped, TypeOK
    <2>4. SinglePublisher' /\ OnlineIffOwned'
      BY <1>7, <2>1, SlotsUntouched DEF PatternStopped
    <2>5. handler'[c].pc \in {"ready", "readying", "serving", "clear"}
      BY <1>7, GotoFacts DEF PatternStopped, TypeOK, PCs
    <2>6. PatternIsDefaults'
      BY <2>1, <2>5 DEF PatternIsDefaults
    <2>7. PatternNotLost'
      BY <1>7, <2>1, <2>5 DEF PatternStopped, PatternNotLost, PatternPending, tpVars
    <2>8. QED
      BY <2>2, <2>3, <2>4, <2>6, <2>7
  <1>8. ASSUME NEW c \in Conns, WriteReady(c) PROVE IInv'
    <2>1. /\ handler' \in [Conns -> Handlers]
          /\ handler[c].pc \in OwnerPCs /\ handler'[c].pc \in OwnerPCs
          /\ handler'[c].sess = handler[c].sess /\ handler'[c].pin = handler[c].pin
          /\ \A d \in Conns \ {c} : handler'[d] = handler[d]
      BY <1>8, GotoFacts DEF WriteReady, TypeOK, PCs, OwnerPCs
    <2>2. TPTypeOK' /\ PairsExist'
      BY <1>8, PatternSteps DEF WriteReady, TypeOK
    <2>3. TypeOK'
      BY <1>8, <2>1, <2>2 DEF WriteReady, TypeOK
    <2>4. SinglePublisher' /\ OnlineIffOwned'
      BY <1>8, <2>1, SlotsUntouched DEF WriteReady
    <2>5. handler'[c].pc \in {"ready", "readying", "serving", "clear"}
      BY <1>8, GotoFacts DEF WriteReady, TypeOK, PCs
    <2>6. PatternIsDefaults'
      BY <2>1, <2>5 DEF PatternIsDefaults
    <2>7. PatternNotLost'
      BY <1>8, <2>1, <2>5 DEF WriteReady, PatternNotLost, PatternPending, tpVars
    <2>8. QED
      BY <2>2, <2>3, <2>4, <2>6, <2>7
  <1>9. ASSUME NEW c \in Conns, Disconnect(c) PROVE IInv'
    <2>1. /\ handler' \in [Conns -> Handlers]
          /\ handler[c].pc \in OwnerPCs /\ handler'[c].pc \in OwnerPCs
          /\ handler'[c].sess = handler[c].sess /\ handler'[c].pin = handler[c].pin
          /\ \A d \in Conns \ {c} : handler'[d] = handler[d]
      BY <1>9, GotoFacts DEF Disconnect, TypeOK, PCs, OwnerPCs
    <2>2. TPTypeOK' /\ PairsExist'
      BY <1>9, PatternSteps DEF Disconnect, TypeOK
    <2>3. TypeOK'
      BY <1>9, <2>1, <2>2 DEF Disconnect, TypeOK
    <2>4. SinglePublisher' /\ OnlineIffOwned'
      BY <1>9, <2>1, SlotsUntouched DEF Disconnect
    <2>5. handler'[c].pc \in {"ready", "readying", "serving", "clear"}
      BY <1>9, GotoFacts DEF Disconnect, TypeOK, PCs
    <2>6. PatternIsDefaults'
      BY <2>1, <2>5 DEF PatternIsDefaults
    <2>7. PatternNotLost'
      BY <1>9, <2>1, <2>5 DEF Disconnect, PatternNotLost, PatternPending, tpVars
    <2>8. QED
      BY <2>2, <2>3, <2>4, <2>6, <2>7
  <1>10. ASSUME NEW c \in Conns, ReleaseSession(c) PROVE IInv'
    <2> DEFINE s == handler[c].sess
    <2>0. s \in SessionIds /\ publisher[s] = c /\ TPTypeOK' /\ PairsExist' /\ UNCHANGED <<tpRunning, hubPC>>
      BY <1>10, PatternSteps DEF ReleaseSession, TypeOK, Handlers, SinglePublisher, OwnerPCs, tpVars
    <2>1. /\ publisher' = [publisher EXCEPT ![s] = NoConn]
          /\ pin' = [pin EXCEPT ![s] = NoPin]
      BY <1>10, <2>0 DEF ReleaseSession
    <2>2. /\ handler' \in [Conns -> Handlers]
          /\ \/ s = Default /\ handler'[c].pc = "tpStart" /\ handler'[c].sess = Default
             \/ s # Default /\ handler'[c].pc = "idle"
          /\ \A d \in Conns \ {c} : handler'[d] = handler[d]
      <3>1. CASE s = Default
        BY <1>10, <3>1, GotoFacts DEF ReleaseSession, TypeOK, PCs
      <3>2. CASE s # Default
        BY <1>10, <3>2, ReturnFacts DEF ReleaseSession, TypeOK, Returned
      <3>3. QED
        BY <3>1, <3>2
    <2>3. TypeOK'
      <3>1. /\ publisher' \in [SessionIds -> Conns \cup {NoConn}]
            /\ pin' \in [SessionIds -> Pins \cup {NoPin}]
        BY <2>0, <2>1 DEF TypeOK
      <3>2. QED
        BY <1>10, <2>0, <2>2, <3>1 DEF ReleaseSession, TypeOK
    <2>4. \A d \in Conns : handler'[d].pc \in OwnerPCs =>
             d # c /\ handler'[d] = handler[d] /\ handler[d].sess # s
      BY <2>0, <2>2 DEF SinglePublisher, OwnerPCs
    <2>5. SinglePublisher'
      <3> SUFFICES ASSUME NEW d \in Conns, handler'[d].pc \in OwnerPCs
                   PROVE  publisher'[handler'[d].sess] = d
        BY DEF SinglePublisher
      <3>1. handler[d].sess \in SessionIds /\ publisher[handler[d].sess] = d
        BY <2>4 DEF TypeOK, Handlers, SinglePublisher
      <3>2. QED
        BY <2>1, <2>4, <3>1 DEF TypeOK
    <2>6. OnlineIffOwned'
      <3> SUFFICES ASSUME NEW t \in SessionIds
                   PROVE  IF publisher'[t] = NoConn
                          THEN pin'[t] = NoPin /\ \A d \in Conns : ~Owns(d, t)'
                          ELSE Owns(publisher[t], t)' /\ pin'[t] = handler'[publisher'[t]].pin
        BY DEF OnlineIffOwned
      <3>1. CASE t = s
        BY <2>0, <2>1, <2>4, <3>1 DEF TypeOK, Owns
      <3>2. CASE t # s
        <4>1. publisher'[t] = publisher[t] /\ pin'[t] = pin[t]
          BY <2>0, <2>1, <3>2 DEF TypeOK
        <4>2. publisher[t] # NoConn => publisher[t] \in Conns /\ publisher[t] # c
          BY <3>2 DEF TypeOK, OnlineIffOwned, Owns
        <4>3. QED
          BY <2>2, <2>4, <4>1, <4>2 DEF OnlineIffOwned, Owns
      <3>3. QED
        BY <3>1, <3>2
    <2>7. PatternIsDefaults'
      BY <2>2 DEF PatternIsDefaults
    <2>8. PatternNotLost'
      BY <2>0, <2>2 DEF PatternNotLost, PatternPending
    <2>9. QED
      BY <2>0, <2>3, <2>5, <2>6, <2>7, <2>8
  <1>11. ASSUME NEW c \in Conns, RestartPattern(c) PROVE IInv'
    <2>1. TPTypeOK' /\ PairsExist'
      BY <1>11, PatternSteps DEF RestartPattern, TypeOK
    <2>2. /\ handler' \in [Conns -> Handlers]
          /\ handler'[c].pc = "idle"
          /\ \A d \in Conns \ {c} : handler'[d] = handler[d]
      BY <1>11, ReturnFacts DEF RestartPattern, TypeOK, Returned
    <2>3. TypeOK'
      BY <1>11, <2>1, <2>2 DEF RestartPattern, TypeOK
    <2>4. SinglePublisher' /\ OnlineIffOwned'
      BY <1>11, <2>2, SlotsUntouched DEF RestartPattern, OwnerPCs
    <2>5. PatternIsDefaults'
      BY <2>2 DEF PatternIsDefaults
    <2>6. PatternNotLost'
      BY <1>11 DEF RestartPattern, TPStart, PatternNotLost
    <2>7. QED
      BY <2>1, <2>3, <2>4, <2>5, <2>6
  <1>12. ASSUME NEW d \in Senders, CapturePublisher(d) \/ SenderWrite(d) PROVE IInv'
    <2>1. TPTypeOK' /\ PairsExist'
      BY <1>12, PatternSteps DEF CapturePublisher, SenderWrite, TypeOK
    <2>2. sender' \in [Senders -> SenderStates]
      <3>1. CASE CapturePublisher(d)
        <4>1. PICK s \in sessions : /\ publisher[s] # NoConn
                                    /\ sender' = [sender EXCEPT ![d] = [pc |-> "captured", sess |-> s, conn |-> publisher[s]]]
          BY <3>1 DEF CapturePublisher
        <4>2. [pc |-> "captured", sess |-> s, conn |-> publisher[s]] \in SenderStates
          BY DEF TypeOK, SenderStates
        <4>3. QED
          BY <4>1, <4>2 DEF TypeOK
      <3>2. CASE SenderWrite(d)
        <4>1. [sender[d] EXCEPT !.pc = "writing"] \in SenderStates /\ IdleSender \in SenderStates
          BY DEF TypeOK, SenderStates, IdleSender, SessionIds, Agents
        <4>2. QED
          BY <3>2, <4>1 DEF SenderWrite, TypeOK
      <3>3. QED
        BY <1>12, <3>1, <3>2
    <2>3. TypeOK'
      BY <1>12, <2>1, <2>2 DEF CapturePublisher, SenderWrite, TypeOK
    <2>4. QED
      BY <1>12, <2>1, <2>3 DEF CapturePublisher, SenderWrite, PatternIsDefaults, SinglePublisher,
         OnlineIffOwned, Owns, PatternNotLost, PatternPending, tpVars
  <1>13. ASSUME NEW g \in Gens, GeneratorStep(g) PROVE IInv'
    <2>1. TPTypeOK' /\ PairsExist' /\ UNCHANGED tpRunning
      BY <1>13, PatternSteps DEF GeneratorStep, LoopStep, LoopEnter, LoopSelect, LoopTick,
         LoopBroadcast, LoopExit, TypeOK
    <2>2. QED
      BY <1>13, <2>1 DEF GeneratorStep, hubVars, TypeOK, PatternIsDefaults, SinglePublisher,
         OnlineIffOwned, Owns, PatternNotLost, PatternPending
  <1>14. CASE HubStop
    <2>1. TPTypeOK' /\ PairsExist'
      BY <1>14, PatternSteps DEF HubStop, TypeOK
    <2>2. TypeOK' /\ PatternNotLost'
      BY <1>14, <2>1 DEF HubStop, TypeOK, TPTypeOK, PatternNotLost
    <2>3. QED
      BY <1>14, <2>1, <2>2 DEF HubStop, PatternIsDefaults, SinglePublisher, OnlineIffOwned, Owns
  <1>15. CASE HubStopped
    <2>1. TPTypeOK' /\ PairsExist'
      BY <1>15, PatternSteps DEF HubStopped, TypeOK
    <2>2. QED
      BY <1>15, <2>1 DEF HubStopped, TypeOK, PatternIsDefaults, SinglePublisher,
         OnlineIffOwned, Owns, PatternNotLost
  <1>16. CASE UNCHANGED vars
    <2>1. TPTypeOK' /\ PairsExist'
      BY <1>16, PatternSteps DEF vars, TypeOK
    <2>2. QED
      BY <1>16, <2>1 DEF vars, hubVars, tpVars, TypeOK, PatternIsDefaults, SinglePublisher,
         OnlineIffOwned, Owns, PatternNotLost, PatternPending
  <1>17. QED
    BY <1>1, <1>2, <1>3, <1>4, <1>5, <1>6, <1>7, <1>8, <1>9, <1>10, <1>11, <1>12, <1>13,
       <1>14, <1>15, <1>16 DEF Next, PublisherStep

-----------------------------------------------------------------------------
(* HandlePublish, TestPattern and Hub.Stop keep the type invariant. *)
THEOREM TypeCorrect == Spec => []TypeOK
  <1>1. IInv => TypeOK
    BY DEF IInv
  <1>2. QED
    BY InitIInv, NextIInv, <1>1, PTL DEF Spec

(* However many connections authenticate as the same agent, and whenever the
   registry is reloaded between the lookups of HandlePublish, the check and
   the claim under sess.mu leave a session at most one publisher goroutine. *)
THEOREM SinglePublisherHolds == Spec => []SinglePublisher
  <1>1. IInv => SinglePublisher
    BY DEF IInv
  <1>2. QED
    BY InitIInv, NextIInv, <1>1, PTL DEF Spec

(* No exit path of HandlePublish leaks a slot or leaves a PIN behind. *)
THEOREM OnlineIffOwnedHolds == Spec => []OnlineIffOwned
  <1>1. IInv => OnlineIffOwned
    BY DEF IInv
  <1>2. QED
    BY InitIInv, NextIInv, <1>1, PTL DEF Spec

(* The Stop of one default publisher and the Start of another never leave
   the default session with nobody left to restart the pattern. *)
THEOREM PatternNotLostHolds == Spec => []PatternNotLost
  <1>1. IInv => PatternNotLost
    BY DEF IInv
  <1>2. QED
    BY InitIInv, NextIInv, <1>1, PTL DEF Spec

-----------------------------------------------------------------------------
(* A goroutine that routes a message to a connection it read from a session
   (and a connection nobody writes to is not one of these). *)
Sending(d) == sender[d].pc # "idle"

(* The connection a sender holds is still served under the session it was
   read from, or its HandlePublish goroutine has returned. *)
HeldIsOfSession ==
    \A d \in Senders : Sending(d) =>
        /\ sender[d].conn \in Conns
        /\ \/ handler[sender[d].conn].pc = "idle"
           \/ /\ handler[sender[d].conn].pc \in OwnerPCs \cup {"tpStart"}
              /\ handler[sender[d].conn].sess = sender[d].sess

(* pubWriteMu belongs to a session, but two senders that hold the same
   connection read it from the same one. *)
OneMutexPerConn ==
    \A d, e \in Senders :
        Sending(d) /\ Sending(e) /\ sender[d].conn = sender[e].conn => sender[d].sess = sender[e].sess

(* pubWriteMu is a mutex. *)
MutexHeldOnce ==
    \A d, e \in Senders :
        sender[d].pc = "writing" /\ sender[e].pc = "writing" /\ sender[d].sess = sender[e].sess
            => d = e

SendersInv == HeldIsOfSession /\ OneMutexPerConn /\ MutexHeldOnce

(* A step of a HandlePublish goroutine that takes a connection nobody holds,
   returns, or goes on with its session leaves the senders right. *)
LEMMA HandlerKeepsSenders ==
  ASSUME SendersInv, UNCHANGED sender, NEW c \in Conns,
         \A b \in Conns \ {c} : handler'[b] = handler[b],
         \/ \A d \in Senders : sender[d].conn # c
         \/ handler[c].pc \notin {"idle", "tpStart"} \cup OwnerPCs
         \/ handler'[c].pc = "idle"
         \/ /\ handler[c].pc \in OwnerPCs \cup {"tpStart"}
            /\ handler'[c].pc \in OwnerPCs \cup {"tpStart"}
            /\ handler'[c].sess = handler[c].sess
  PROVE  SendersInv'
  <1>1. HeldIsOfSession'
    <2> SUFFICES ASSUME NEW d \in Senders, Sending(d)
                 PROVE  /\ sender[d].conn \in Conns
                        /\ \/ handler'[sender[d].conn].pc = "idle"
                           \/ /\ handler'[sender[d].conn].pc \in OwnerPCs \cup {"tpStart"}
                              /\ handler'[sender[d].conn].sess = sender[d].sess
      BY DEF HeldIsOfSession, Sending
    <2>1. CASE sender[d].conn # c
      BY <2>1 DEF SendersInv, HeldIsOfSession
    <2>2. CASE sender[d].conn = c
      BY <2>2 DEF SendersInv, HeldIsOfSession, OwnerPCs
    <2>3. QED
      BY <2>1, <2>2
  <1>2. QED
    BY <1>1 DEF SendersInv, OneMutexPerConn, MutexHeldOnce, Sending

(* Every step preserves it, where the slots are as proved above. *)
LEMMA NextSenders == IInv /\ SendersInv /\ [Next]_vars => SendersInv'
  <1> SUFFICES ASSUME IInv, SendersInv, [Next]_vars PROVE SendersInv'
    OBVIOUS
  <1>t. /\ handler \in [Conns -> Handlers] /\ sender \in [Senders -> SenderStates]
        /\ publisher \in [SessionIds -> Conns \cup {NoConn}] /\ sessions \subseteq SessionIds
    BY DEF IInv, TypeOK
  <1>1. CASE UNCHANGED <<handler, sender>>
    BY <1>1 DEF SendersInv, HeldIsOfSession, OneMutexPerConn, MutexHeldOnce, Sending
  <1>2. ASSUME NEW c \in Conns, AuthenticatePublisher(c) PROVE SendersInv'
    <2>1. PICK a \in registry \cup {Default}, p \in Pins :
             handler' = [handler EXCEPT ![c].pc = "entry", ![c].hello = a, ![c].pin = p]
      BY <1>2, Zenon DEF AuthenticatePublisher
    <2>2. \A b \in Conns \ {c} : handler'[b] = handler[b]
      BY <1>t, <2>1
    <2>3. QED
      BY <1>2, <2>2, HandlerKeepsSenders DEF AuthenticatePublisher
  <1>3. ASSUME NEW c \in Conns, LookupSession(c) PROVE SendersInv'
    <2>1. PICK id \in SessionIds :
             handler' = [handler EXCEPT ![c] = [handler[c] EXCEPT !.pc = "checkPIN", !.sess = id]]
      BY <1>3, <1>t DEF LookupSession, Handlers, SessionIds
    <2>2. \A b \in Conns \ {c} : handler'[b] = handler[b]
      BY <1>t, <2>1
    <2>3. handler[c].pc \notin {"idle", "tpStart"} \cup OwnerPCs
      BY <1>3 DEF LookupSession, OwnerPCs
    <2>4. QED
      BY <1>3, <2>2, <2>3, HandlerKeepsSenders DEF LookupSession
  <1>4. ASSUME NEW c \in Conns, Return(c), UNCHANGED sender PROVE SendersInv'
    BY <1>4, <1>t, ReturnFacts, HandlerKeepsSenders DEF Returned
  <1>5. ASSUME NEW c \in Conns, UNCHANGED sender, NEW l \in PCs,
               \/ Goto(c, l)
               \/ handler' = [handler EXCEPT ![c].pc = l, ![c].awaits = tpGen],
               \/ handler[c].pc = "claim"
               \/ handler[c].pc \in OwnerPCs /\ l \in OwnerPCs \cup {"tpStart"}
        PROVE  SendersInv'
    <2>1. /\ handler'[c].pc = l /\ handler'[c].sess = handler[c].sess
          /\ \A d \in Conns \ {c} : handler'[d] = handler[d]
      BY <1>5, <1>t DEF Goto, Handlers
    <2>2. "claim" \notin {"idle", "tpStart"} \cup OwnerPCs
      BY DEF OwnerPCs
    <2>3. QED
      BY <1>5, <2>1, <2>2, HandlerKeepsSenders
  <1>6. ASSUME NEW c \in Conns, PublisherStep(c) \/ Disconnect(c) PROVE SendersInv'
    <2> USE DEF PCs, OwnerPCs
    <2>1. CASE LookupSession(c)
      BY <1>3, <2>1
    <2>2. CASE CheckPIN(c)
      <3>1. UNCHANGED sender /\ (Return(c) \/ Goto(c, "claim")) /\ handler[c].pc = "checkPIN"
        BY <2>2 DEF CheckPIN
      <3>2. CASE Return(c)
        BY <1>4, <3>1, <3>2
      <3>3. CASE Goto(c, "claim")
        BY <1>t, <3>1, <3>3, GotoFacts, HandlerKeepsSenders
      <3>4. QED
        BY <3>1, <3>2, <3>3
    <2>3. CASE ClaimSession(c)
      BY <1>4, <1>5, <2>3 DEF ClaimSession
    <2>4. CASE StopPattern(c)
      BY <1>5, <2>4 DEF StopPattern
    <2>5. CASE PatternStopped(c)
      BY <1>5, <2>5 DEF PatternStopped
    <2>6. CASE WriteReady(c)
      BY <1>5, <2>6 DEF WriteReady
    <2>7. CASE Disconnect(c)
      BY <1>5, <2>7 DEF Disconnect
    <2>8. CASE ReleaseSession(c)
      BY <1>4, <1>5, <2>8 DEF ReleaseSession
    <2>9. CASE RestartPattern(c)
      BY <1>4, <2>9 DEF RestartPattern
    <2>10. QED
      BY <1>6, <2>1, <2>2, <2>3, <2>4, <2>5, <2>6, <2>7, <2>8, <2>9 DEF PublisherStep
  <1>7. ASSUME NEW d \in Senders, CapturePublisher(d) PROVE SendersInv'
    <2>1. PICK s \in sessions :
             /\ publisher[s] # NoConn
             /\ sender' = [sender EXCEPT ![d] = [pc |-> "captured", sess |-> s, conn |-> publisher[s]]]
      BY <1>7 DEF CapturePublisher
    <2>2. s \in SessionIds /\ publisher[s] \in Conns
      BY <1>t, <2>1
    <2>3. handler[publisher[s]].pc \in OwnerPCs /\ handler[publisher[s]].sess = s
      BY <2>1, <2>2 DEF IInv, OnlineIffOwned, Owns
    <2>4. UNCHANGED handler /\ \A e \in Senders \ {d} : sender'[e] = sender[e]
      BY <1>7, <1>t, <2>1 DEF CapturePublisher
    <2>5. sender'[d].pc = "captured" /\ sender'[d].sess = s /\ sender'[d].conn = publisher[s]
      BY <1>t, <2>1
    <2>6. HeldIsOfSession'
      BY <2>2, <2>3, <2>4, <2>5 DEF SendersInv, HeldIsOfSession, Sending
    <2>7. \A e \in Senders : Sending(e) /\ sender[e].conn = publisher[s] => sender[e].sess = s
      BY <2>3 DEF SendersInv, HeldIsOfSession, OwnerPCs
    <2>8. OneMutexPerConn'
      BY <2>4, <2>5, <2>7 DEF SendersInv, OneMutexPerConn, Sending
    <2>9. MutexHeldOnce'
      BY <2>4, <2>5 DEF SendersInv, MutexHeldOnce
    <2>10. QED
      BY <2>6, <2>8, <2>9 DEF SendersInv
  <1>8. ASSUME NEW d \in Senders, SenderWrite(d) PROVE SendersInv'
    <2>1. UNCHANGED handler
      BY <1>8 DEF SenderWrite
    <2>2. CASE sender[d].pc = "captured"
      <3>1. /\ \A e \in Senders : ~(sender[e].pc = "writing" /\ sender[e].sess = sender[d].sess)
            /\ sender' = [sender EXCEPT ![d].pc = "writing"]
        BY <1>8, <2>2 DEF SenderWrite
      <3>2. /\ sender'[d].pc = "writing"
            /\ sender'[d].sess = sender[d].sess /\ sender'[d].conn = sender[d].conn
            /\ \A e \in Senders \ {d} : sender'[e] = sender[e]
        BY <1>t, <3>1 DEF SenderStates
      <3>3. HeldIsOfSession' /\ OneMutexPerConn'
        BY <2>1, <2>2, <3>2 DEF SendersInv, HeldIsOfSession, OneMutexPerConn, Sending
      <3>4. MutexHeldOnce'
        BY <3>1, <3>2 DEF SendersInv, MutexHeldOnce
      <3>5. QED
        BY <3>3, <3>4 DEF SendersInv
    <2>3. CASE sender[d].pc = "writing"
      <3>1. sender'[d].pc = "idle" /\ \A e \in Senders \ {d} : sender'[e] = sender[e]
        BY <1>8, <1>t, <2>3 DEF SenderWrite, IdleSender
      <3>2. QED
        BY <2>1, <3>1 DEF SendersInv, HeldIsOfSession, OneMutexPerConn, MutexHeldOnce, Sending
    <2>4. QED
      BY <1>8, <2>2, <2>3 DEF SenderWrite
  <1>9. CASE \/ ReloadRegistry \/ HubStop \/ HubStopped \/ UNCHANGED vars
             \/ \E g \in Gens : GeneratorStep(g)
    BY <1>1, <1>9 DEF ReloadRegistry, HubStop, HubStopped, vars, hubVars, GeneratorStep
  <1>10. QED
    BY <1>2, <1>6, <1>7, <1>8, <1>9 DEF Next

(* sendToPublisher reads sess.publisher under one lock and writes under
   another; still no two routed messages are ever written to one connection
   at once, also when its session was released and taken by another
   connection in between.  It says nothing of READY, which is written
   without pubWriteMu. *)
THEOREM SendersExcludeHolds == Spec => []SendersExclude
  <1>1. Init => SendersInv
    BY DEF Init, SendersInv, HeldIsOfSession, OneMutexPerConn, MutexHeldOnce, Sending, IdleSender
  <1>2. SendersInv => SendersExclude
    BY DEF SendersInv, OneMutexPerConn, MutexHeldOnce, SendersExclude, Sending
  <1>3. QED
    BY <1>1, <1>2, InitIInv, NextIInv, NextSenders, PTL DEF Spec

-----------------------------------------------------------------------------
(* A goroutine past authenticatePublisher holds a PIN an agent may
   advertise, never "". *)
HasPIN == \A c \in Conns : handler[c].pc # "idle" => handler[c].pin \in Pins

(* A goroutine that moves neither into nor out of a session leaves the
   abstract slots alone. *)
LEMMA OwnersUntouched ==
  ASSUME UNCHANGED pin,
         NEW c \in Conns,
         \A d \in Conns \ {c} : handler'[d] = handler[d],
         \/ handler[c].pc \notin OwnerPCs /\ handler'[c].pc \notin OwnerPCs
         \/ /\ handler[c].pc \in OwnerPCs /\ handler'[c].pc \in OwnerPCs
            /\ handler'[c].sess = handler[c].sess
  PROVE  UNCHANGED Slot!slotVars
  <1>1. \A d \in Conns, s \in SessionIds : Owns(d, s)' <=> Owns(d, s)
    BY DEF Owns
  <1>2. Owners' = Owners
    BY <1>1 DEF Owners
  <1>3. QED
    BY <1>2 DEF Slot!slotVars

(* The claim of a free session is Enter. *)
LEMMA ClaimEnters ==
  ASSUME IInv, HasPIN, NEW c \in Conns, ClaimSession(c), publisher[handler[c].sess] = NoConn
  PROVE  Slot!SlotNext /\ HasPIN'
  <1>1. handler \in [Conns -> Handlers] /\ handler[c] \in Handlers /\ pin \in [SessionIds -> Pins \cup {NoPin}]
    BY DEF IInv, TypeOK
  <1>2. PICK s \in SessionIds, q \in Pins :
           s = handler[c].sess /\ q = handler[c].pin /\ handler[c].pc = "claim"
    BY <1>1 DEF Handlers, ClaimSession, HasPIN
  <1>3. /\ pin' = [pin EXCEPT ![s] = q]
        /\ handler' = [handler EXCEPT ![c].pc = IF s = Default THEN "tpStop" ELSE "ready"]
    BY <1>2 DEF ClaimSession, Goto
  <1>4. /\ handler'[c].pc \in OwnerPCs /\ handler'[c].sess = s /\ handler'[c].pin = q
        /\ \A d \in Conns \ {c} : handler'[d] = handler[d]
    BY <1>1, <1>2, <1>3 DEF Handlers, OwnerPCs
  <1>5. \A d \in Conns : ~Owns(d, s)
    BY <1>2 DEF IInv, OnlineIffOwned
  <1>6. \A t \in SessionIds : ~Owns(c, t)
    BY <1>2 DEF Owns, OwnerPCs
  <1>7. \A d \in Conns, t \in SessionIds :
           Owns(d, t)' <=> (Owns(d, t) \/ (d = c /\ t = s))
    BY <1>2, <1>4, <1>6 DEF Owns, OwnerPCs
  <1>8. Owners[s] = {} /\ \A t \in SessionIds : c \notin Owners[t]
    BY <1>2, <1>5, <1>6 DEF Owners
  <1>9. Owners' = [Owners EXCEPT ![s] = {c}]
    <2>1. Owners' = [t \in SessionIds |-> {d \in Conns : Owns(d, t)'}]
      BY DEF Owners
    <2>2. {d \in Conns : Owns(d, s)'} = {c}
      BY <1>2, <1>5, <1>7
    <2>3. \A t \in SessionIds \ {s} : {d \in Conns : Owns(d, t)'} = {d \in Conns : Owns(d, t)}
      BY <1>7
    <2>4. QED
      BY <1>2, <2>1, <2>2, <2>3 DEF Owners
  <1>10. Slot!Enter(c, s, q)
    BY <1>3, <1>8, <1>9 DEF Slot!Enter
  <1>11. Slot!SlotNext
    BY <1>2, <1>10 DEF Slot!SlotNext
  <1>12. HasPIN'
    BY <1>2, <1>4 DEF HasPIN
  <1>13. QED
    BY <1>11, <1>12

(* Giving the session back is Leave: the goroutine in the deferred function
   is the one sess.publisher names. *)
LEMMA ReleaseLeaves ==
  ASSUME IInv, HasPIN, NEW c \in Conns, ReleaseSession(c)
  PROVE  Slot!SlotNext /\ HasPIN'
  <1>1. handler \in [Conns -> Handlers] /\ handler[c] \in Handlers /\ pin \in [SessionIds -> Pins \cup {NoPin}]
    BY DEF IInv, TypeOK
  <1>2. PICK s \in SessionIds :
           s = handler[c].sess /\ handler[c].pc = "clear" /\ handler[c].pc \in OwnerPCs
    BY <1>1 DEF Handlers, ReleaseSession, OwnerPCs
  <1>3. publisher[s] = c
    BY <1>2 DEF IInv, SinglePublisher
  <1>4. pin' = [pin EXCEPT ![s] = NoPin]
    BY <1>2, <1>3 DEF ReleaseSession
  <1>5. Goto(c, "tpStart") \/ Return(c)
    BY DEF ReleaseSession
  <1>6. /\ handler'[c].pc \notin OwnerPCs
        /\ handler'[c].pc = "idle" \/ handler'[c].pin = handler[c].pin
        /\ \A d \in Conns \ {c} : handler'[d] = handler[d]
    BY <1>1, <1>5 DEF Goto, Return, Returned, Handlers, OwnerPCs
  <1>7. \A d \in Conns : Owns(d, s) <=> d = c
    BY <1>2, <1>3 DEF IInv, SinglePublisher, Owns
  <1>8. \A d \in Conns, t \in SessionIds : Owns(d, t)' <=> (Owns(d, t) /\ d # c)
    BY <1>6 DEF Owns
  <1>9. Owners[s] = {c}
    <2>1. {d \in Conns : Owns(d, s)} = {c}
      BY <1>7
    <2>2. QED
      BY <1>2, <2>1 DEF Owners
  <1>10. Owners' = [Owners EXCEPT ![s] = {}]
    <2>1. Owners' = [t \in SessionIds |-> {d \in Conns : Owns(d, t)'}]
      BY DEF Owners
    <2>2. {d \in Conns : Owns(d, s)'} = {}
      BY <1>2, <1>7, <1>8
    <2>3. \A t \in SessionIds \ {s} : ~Owns(c, t)
      BY <1>2 DEF Owns
    <2>4. \A t \in SessionIds \ {s} : {d \in Conns : Owns(d, t)'} = {d \in Conns : Owns(d, t)}
      BY <1>8, <2>3
    <2>5. QED
      BY <1>2, <2>1, <2>2, <2>4 DEF Owners
  <1>11. Slot!Leave(c, s)
    BY <1>4, <1>9, <1>10 DEF Slot!Leave
  <1>12. Slot!SlotNext
    BY <1>2, <1>11 DEF Slot!SlotNext
  <1>13. HasPIN'
    BY <1>2, <1>6 DEF HasPIN
  <1>14. QED
    BY <1>12, <1>13

(* Every step of /publish is a step of the abstract slots or leaves them
   alone. *)
LEMMA NextSlot ==
    IInv /\ HasPIN /\ [Next]_vars => [Slot!SlotNext]_(Slot!slotVars) /\ HasPIN'
  <1> SUFFICES ASSUME IInv, HasPIN, [Next]_vars
               PROVE  [Slot!SlotNext]_(Slot!slotVars) /\ HasPIN'
    OBVIOUS
  <1>t. handler \in [Conns -> Handlers] /\ \A c \in Conns : handler[c] \in Handlers
    BY DEF IInv, TypeOK
  <1>1. CASE UNCHANGED <<handler, pin>>
    <2>1. Owners' = Owners
      BY <1>1 DEF Owners, Owns
    <2>2. QED
      BY <1>1, <2>1 DEF Slot!slotVars, HasPIN
  <1>2. ASSUME NEW c \in Conns, AuthenticatePublisher(c)
        PROVE  UNCHANGED Slot!slotVars /\ HasPIN'
    <2>1. PICK a \in registry \cup {Default}, p \in Pins :
             handler' = [handler EXCEPT ![c].pc = "entry", ![c].hello = a, ![c].pin = p]
      BY <1>2, Zenon DEF AuthenticatePublisher
    <2>2. /\ handler'[c].pc = "entry" /\ handler'[c].pin = p
          /\ \A d \in Conns \ {c} : handler'[d] = handler[d]
      BY <1>t, <2>1 DEF Handlers
    <2>3. HasPIN'
      BY <2>2 DEF HasPIN
    <2>4. QED
      BY <1>2, <2>2, <2>3, OwnersUntouched DEF AuthenticatePublisher, OwnerPCs
  <1>3. ASSUME NEW c \in Conns, LookupSession(c) PROVE UNCHANGED Slot!slotVars /\ HasPIN'
    <2>1. PICK id \in SessionIds :
             handler' = [handler EXCEPT ![c] = [handler[c] EXCEPT !.pc = "checkPIN", !.sess = id]]
      BY <1>3, <1>t DEF LookupSession, Handlers, SessionIds
    <2>2. /\ handler'[c].pc = "checkPIN" /\ handler'[c].pin = handler[c].pin
          /\ \A d \in Conns \ {c} : handler'[d] = handler[d]
      BY <1>t, <2>1 DEF Handlers
    <2>3. HasPIN'
      BY <1>3, <2>2 DEF HasPIN, LookupSession
    <2>4. QED
      BY <1>3, <2>2, <2>3, OwnersUntouched DEF LookupSession, OwnerPCs
  <1>4. ASSUME NEW c \in Conns, Return(c), UNCHANGED pin, handler[c].pc \notin OwnerPCs
        PROVE  UNCHANGED Slot!slotVars /\ HasPIN'
    <2>1. handler'[c].pc = "idle" /\ \A d \in Conns \ {c} : handler'[d] = handler[d]
      BY <1>4, <1>t DEF Return, Returned
    <2>2. QED
      BY <1>4, <2>1, OwnersUntouched DEF OwnerPCs, HasPIN
  <1>5. ASSUME NEW c \in Conns, NEW l, UNCHANGED pin, handler[c].pc # "idle",
               \/ Goto(c, l)
               \/ handler' = [handler EXCEPT ![c].pc = l, ![c].awaits = tpGen],
               handler[c].pc \in OwnerPCs <=> l \in OwnerPCs
        PROVE  UNCHANGED Slot!slotVars /\ HasPIN'
    <2>1. /\ handler'[c].pc = l /\ handler'[c].pin = handler[c].pin /\ handler'[c].sess = handler[c].sess
          /\ \A d \in Conns \ {c} : handler'[d] = handler[d]
      BY <1>5, <1>t DEF Goto, Handlers
    <2>2. HasPIN'
      BY <1>5, <2>1 DEF HasPIN
    <2>3. QED
      BY <1>5, <2>1, <2>2, OwnersUntouched
  <1>6. ASSUME NEW c \in Conns, PublisherStep(c) \/ Disconnect(c)
        PROVE  [Slot!SlotNext]_(Slot!slotVars) /\ HasPIN'
    <2>1. CASE LookupSession(c)
      BY <1>3, <2>1
    <2>2. CASE CheckPIN(c)
      BY <1>4, <1>5, <2>2 DEF CheckPIN, OwnerPCs
    <2>3. CASE ClaimSession(c)
      <3>1. CASE publisher[handler[c].sess] = NoConn
        BY <2>3, <3>1, ClaimEnters
      <3>2. CASE publisher[handler[c].sess] # NoConn
        BY <1>4, <2>3, <3>2 DEF ClaimSession, OwnerPCs
      <3>3. QED
        BY <3>1, <3>2
    <2>4. CASE StopPattern(c)
      BY <1>5, <2>4 DEF StopPattern, OwnerPCs
    <2>5. CASE PatternStopped(c)
      BY <1>5, <2>5 DEF PatternStopped, OwnerPCs
    <2>6. CASE WriteReady(c)
      BY <1>5, <2>6 DEF WriteReady, OwnerPCs
    <2>7. CASE Disconnect(c)
      BY <1>5, <2>7 DEF Disconnect, OwnerPCs
    <2>8. CASE ReleaseSession(c)
      BY <2>8, ReleaseLeaves
    <2>9. CASE RestartPattern(c)
      BY <1>4, <2>9 DEF RestartPattern, OwnerPCs
    <2>10. QED
      BY <1>6, <2>1, <2>2, <2>3, <2>4, <2>5, <2>6, <2>7, <2>8, <2>9 DEF PublisherStep
  <1>7. CASE \/ ReloadRegistry \/ HubStop \/ HubStopped \/ UNCHANGED vars
             \/ \E d \in Senders : CapturePublisher(d) \/ SenderWrite(d)
             \/ \E g \in Gens : GeneratorStep(g)
    <2>1. UNCHANGED <<handler, pin>>
      BY <1>7 DEF ReloadRegistry, HubStop, HubStopped, vars, hubVars, CapturePublisher, SenderWrite,
         GeneratorStep
    <2>2. QED
      BY <1>1, <2>1
  <1>8. QED
    BY <1>2, <1>6, <1>7 DEF Next

(* /publish implements PublisherSlot: for any number of connections, agents
   and PINs, the goroutines HandlePublish lets between the claim and the
   release of a session are its tenants one at a time, and sess.pin is the
   tenant's. *)
THEOREM PublishImplementsSlot == Spec => ImplementsSlot
  <1>1. Init => Slot!SlotInit /\ HasPIN
    BY DEF Init, Slot!SlotInit, HasPIN, Owners, Owns, Returned, OwnerPCs
  <1>2. QED
    BY <1>1, InitIInv, NextIInv, NextSlot, PTL DEF Spec, ImplementsSlot, Slot!SlotSpec
=============================================================================
