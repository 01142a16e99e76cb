----------------------------- MODULE HubPublish -----------------------------
(***************************************************************************)
(* relay/hub.go: the /publish side of the hub.  One HandlePublish goroutine *)
(* per agent connection runs the handshake, claims the publisher slot of   *)
(* its agent's session, serves the connection and gives the slot back; the *)
(* default session shares the hub's TestPattern.  Goroutines of watchers   *)
(* and of the dashboard write to a session's publisher connection.         *)
(*                                                                         *)
(* Every unlock between two reads or writes of shared state in             *)
(* HandlePublish is a step boundary here.                                  *)
(***************************************************************************)
EXTENDS TestPattern

CONSTANTS
    Conns,        \* publisher connections that may exist at the same time
    Named,        \* agent ids the dashboard can put into the registry
    Default,      \* id of the default (legacy) agent, never removed
    NoAgent,      \* "", the ID of the zero agentEntry
    Pins,         \* viewer PINs an agent may advertise
    NoPin,        \* "", the PIN of an offline session
    NoConn,       \* nil
    Senders,      \* goroutines that may call sendToPublisher
    MaxPublishes  \* how many connections may pass authentication

Agents == Named \cup {Default}
SessionIds == Agents \cup {NoAgent}

ASSUME PublishAssumption ==
    /\ Default \notin Named /\ NoAgent \notin Agents
    /\ NoPin \notin Pins /\ NoConn \notin Conns
    /\ MaxPublishes \in Nat /\ MaxPublishes < MaxStarts

VARIABLES
    registry,    \* named agents in agentRegistry.byID (Default always is)
    sessions,    \* keys of h.sessions
    publisher,   \* sess.publisher
    pin,         \* sess.pin
    handler,     \* the HandlePublish goroutine of a connection (see Handlers)
    sender,      \* sendToPublisher goroutines
    publishes,   \* authentications so far (bounded)
    hubPC,       \* Hub.Run / Hub.Stop
    hubAwaits    \* the pair whose `stopped' Hub.Stop blocks on

hubVars == <<registry, sessions, publisher, pin, handler, sender, publishes, hubPC, hubAwaits>>
vars == <<hubVars, tpVars>>

PCs == {"idle", "entry", "checkPIN", "claim", "tpStop", "tpWait", "ready",
        "readying", "serving", "clear", "tpStart"}

(* A handler's locals: hello.AgentID, the session of the registry entry,
   auth.PIN, and the pair whose `stopped' TestPattern.Stop blocks on. *)
Handlers == [pc : PCs, hello : Agents, sess : SessionIds,
             pin : Pins \cup {NoPin}, awaits : 0 .. MaxStarts]

Returned == [pc |-> "idle", hello |-> Default, sess |-> Default, pin |-> NoPin, awaits |-> 0]

(* From the claim of the slot until it is given back. *)
OwnerPCs == {"tpStop", "tpWait", "ready", "readying", "serving", "clear"}
Owns(c, s) == handler[c].pc \in OwnerPCs /\ handler[c].sess = s

SenderStates == [pc : {"idle", "captured", "writing"},
                 sess : SessionIds, conn : Conns \cup {NoConn}]
IdleSender == [pc |-> "idle", sess |-> Default, conn |-> NoConn]

TypeOK ==
    /\ TPTypeOK
    /\ registry \in SUBSET Named
    /\ sessions \in SUBSET SessionIds
    /\ publisher \in [SessionIds -> Conns \cup {NoConn}]
    /\ pin \in [SessionIds -> Pins \cup {NoPin}]
    /\ handler \in [Conns -> Handlers]
    /\ sender \in [Senders -> SenderStates]
    /\ publishes \in 0 .. MaxPublishes
    /\ hubPC \in {"run", "stopWait", "stopped"}
    /\ hubAwaits \in 0 .. MaxStarts

Init ==
    /\ TPInit
    /\ registry = Named
    /\ sessions = {Default}
    /\ publisher = [s \in SessionIds |-> NoConn]
    /\ pin = [s \in SessionIds |-> NoPin]
    /\ handler = [c \in Conns |-> Returned]
    /\ sender = [d \in Senders |-> IdleSender]
    /\ publishes = 0
    /\ hubPC = "run"
    /\ hubAwaits = 0

Goto(c, label) == handler' = [handler EXCEPT ![c].pc = label]
Return(c) == handler' = [handler EXCEPT ![c] = Returned]

-----------------------------------------------------------------------------
(* A reload of the registry after a dashboard edit swaps in a new map. *)
ReloadRegistry ==
    /\ \E named \in SUBSET Named : registry' = named
    /\ UNCHANGED <<sessions, publisher, pin, handler, sender, publishes, hubPC, hubAwaits, tpVars>>

(* authenticatePublisher succeeds: role, registry entry, token and a
   non-empty PIN.  A failed handshake closes the connection and changes
   nothing.  The connection is a new object: nobody still holds it. *)
AuthenticatePublisher(c) ==
    /\ handler[c].pc = "idle"
    /\ publishes < MaxPublishes
    /\ \A d \in Senders : sender[d].conn # c
    /\ \E a \in registry \cup {Default}, p \in Pins :
          handler' = [handler EXCEPT ![c].pc = "entry", ![c].hello = a, ![c].pin = p]
    /\ publishes' = publishes + 1
    /\ UNCHANGED <<registry, sessions, publisher, pin, sender, hubPC, hubAwaits, tpVars>>

(* The second lookup, its `ok' result dropped, and getOrCreateSession. *)
LookupSession(c) ==
    /\ handler[c].pc = "entry"
    /\ LET id == IF handler[c].hello \in registry \cup {Default}
                 THEN handler[c].hello ELSE NoAgent
       IN  /\ handler' = [handler EXCEPT ![c].pc = "checkPIN", ![c].sess = id]
           /\ sessions' = sessions \cup {id}
    /\ UNCHANGED <<registry, publisher, pin, sender, publishes, hubPC, hubAwaits, tpVars>>

(* sessionByPIN: the online sessions that advertise p (the code returns one
   of them, in map order). *)
SessionsByPIN(p) == {s \in sessions : publisher[s] # NoConn /\ pin[s] = p}

(* The PIN check: 409 when the session found is another one. *)
CheckPIN(c) ==
    /\ handler[c].pc = "checkPIN"
    /\ LET found == SessionsByPIN(handler[c].pin)
       IN  \/ (\E s \in found : s # handler[c].sess) /\ Return(c)
           \/ (found = {} \/ handler[c].sess \in found) /\ Goto(c, "claim")
    /\ UNCHANGED <<registry, sessions, publisher, pin, sender, publishes, hubPC, hubAwaits, tpVars>>

(* Mutant: the slot is taken without looking whether it is free. *)
ClaimSession_NoCheck(c) ==
    /\ handler[c].pc = "claim"
    /\ LET s == handler[c].sess
       IN  /\ publisher' = [publisher EXCEPT ![s] = c]
           /\ pin' = [pin EXCEPT ![s] = handler[c].pin]
           /\ Goto(c, IF s = Default THEN "tpStop" ELSE "ready")
    /\ UNCHANGED <<registry, sessions, sender, publishes, hubPC, hubAwaits, tpVars>>

(* Under sess.mu: 409 when the slot is taken, else take it. *)
ClaimSession(c) ==
    /\ handler[c].pc = "claim"
    /\ LET s == handler[c].sess
       IN  \/ /\ publisher[s] # NoConn
              /\ Return(c)
              /\ UNCHANGED <<publisher, pin>>
           \/ /\ publisher[s] = NoConn
              /\ publisher' = [publisher EXCEPT ![s] = c]
              /\ pin' = [pin EXCEPT ![s] = handler[c].pin]
              /\ Goto(c, IF s = Default THEN "tpStop" ELSE "ready")
    /\ UNCHANGED <<registry, sessions, sender, publishes, hubPC, hubAwaits, tpVars>>

(* h.testPattern.Stop() of a default publisher, up to the unlock. *)
StopPattern(c) ==
    /\ handler[c].pc = "tpStop"
    /\ \/ TPStopIdle /\ Goto(c, "ready")
       \/ /\ TPStopRunning
          /\ handler' = [handler EXCEPT ![c].pc = "tpWait", ![c].awaits = tpGen]
    /\ UNCHANGED <<registry, sessions, publisher, pin, sender, publishes, hubPC, hubAwaits>>

(* ... and its blocking <-stopped. *)
PatternStopped(c) ==
    /\ handler[c].pc = "tpWait"
    /\ handler[c].awaits \in stoppedClosed
    /\ Goto(c, "ready")
    /\ UNCHANGED <<registry, sessions, publisher, pin, sender, publishes, hubPC, hubAwaits, tpVars>>

(* conn.WriteMessage(READY): under way in "readying", without pubWriteMu. *)
WriteReady(c) ==
    /\ \/ handler[c].pc = "ready" /\ Goto(c, "readying")
       \/ handler[c].pc = "readying" /\ Goto(c, "serving")
    /\ UNCHANGED <<registry, sessions, publisher, pin, sender, publishes, hubPC, hubAwaits, tpVars>>

(* conn.ReadMessage fails and the deferred function starts. *)
Disconnect(c) ==
    /\ handler[c].pc = "serving"
    /\ Goto(c, "clear")
    /\ UNCHANGED <<registry, sessions, publisher, pin, sender, publishes, hubPC, hubAwaits, tpVars>>

(* Mutant: the PIN survives its publisher. *)
ReleaseSession_KeepsPIN(c) ==
    /\ handler[c].pc = "clear"
    /\ LET s == handler[c].sess
       IN  /\ publisher' = [publisher EXCEPT ![s] = IF @ = c THEN NoConn ELSE @]
           /\ IF s = Default THEN Goto(c, "tpStart") ELSE Return(c)
    /\ UNCHANGED <<registry, sessions, pin, sender, publishes, hubPC, hubAwaits, tpVars>>

(* The deferred function under sess.mu. *)
ReleaseSession(c) ==
    /\ handler[c].pc = "clear"
    /\ LET s == handler[c].sess
       IN  /\ IF publisher[s] = c
              THEN /\ publisher' = [publisher EXCEPT ![s] = NoConn]
                   /\ pin' = [pin EXCEPT ![s] = NoPin]
              ELSE UNCHANGED <<publisher, pin>>
           /\ IF s = Default THEN Goto(c, "tpStart") ELSE Return(c)
    /\ UNCHANGED <<registry, sessions, sender, publishes, hubPC, hubAwaits, tpVars>>

(* Mutant: the pattern is restarted only if nobody publishes again yet. *)
RestartPattern_IfOffline(c) ==
    /\ handler[c].pc = "tpStart"
    /\ IF publisher[Default] = NoConn THEN TPStart ELSE UNCHANGED tpVars
    /\ Return(c)
    /\ UNCHANGED <<registry, sessions, publisher, pin, sender, publishes, hubPC, hubAwaits>>

(* ... and its trailing h.testPattern.Start(). *)
RestartPattern(c) ==
    /\ handler[c].pc = "tpStart"
    /\ TPStart
    /\ Return(c)
    /\ UNCHANGED <<registry, sessions, publisher, pin, sender, publishes, hubPC, hubAwaits>>

-----------------------------------------------------------------------------
(* sendToPublisher: read the connection under sess.mu, then write to it
   under the session's pubWriteMu. *)
CapturePublisher(d) ==
    /\ sender[d].pc = "idle"
    /\ \E s \in sessions :
          /\ publisher[s] # NoConn
          /\ sender' = [sender EXCEPT ![d] = [pc |-> "captured", sess |-> s, conn |-> publisher[s]]]
    /\ UNCHANGED <<registry, sessions, publisher, pin, handler, publishes, hubPC, hubAwaits, tpVars>>

(* Mutant: the write is not serialized. *)
SenderWrite_Unlocked(d) ==
    /\ \/ sender[d].pc = "captured" /\ sender' = [sender EXCEPT ![d].pc = "writing"]
       \/ sender[d].pc = "writing" /\ sender' = [sender EXCEPT ![d] = IdleSender]
    /\ UNCHANGED <<registry, sessions, publisher, pin, handler, publishes, hubPC, hubAwaits, tpVars>>

SenderWrite(d) ==
    /\ \/ /\ sender[d].pc = "captured"
          /\ \A e \in Senders : ~(sender[e].pc = "writing" /\ sender[e].sess = sender[d].sess)
          /\ sender' = [sender EXCEPT ![d].pc = "writing"]
       \/ /\ sender[d].pc = "writing"
          /\ sender' = [sender EXCEPT ![d] = IdleSender]
    /\ UNCHANGED <<registry, sessions, publisher, pin, handler, publishes, hubPC, hubAwaits, tpVars>>

-----------------------------------------------------------------------------
(* Hub.Stop at shutdown: TestPattern.Stop (stopping the streams and closing
   h.done follow, and touch nothing modelled here). *)
HubStop ==
    /\ hubPC = "run"
    /\ \/ TPStopIdle /\ hubPC' = "stopped" /\ UNCHANGED hubAwaits
       \/ TPStopRunning /\ hubPC' = "stopWait" /\ hubAwaits' = tpGen
    /\ UNCHANGED <<registry, sessions, publisher, pin, handler, sender, publishes>>

HubStopped ==
    /\ hubPC = "stopWait"
    /\ hubAwaits \in stoppedClosed
    /\ hubPC' = "stopped"
    /\ UNCHANGED <<registry, sessions, publisher, pin, handler, sender, publishes, hubAwaits, tpVars>>

-----------------------------------------------------------------------------
(* What the goroutine of a connection does by itself, without its peer. *)
PublisherStep(c) ==
    \/ LookupSession(c)
    \/ CheckPIN(c)
    \/ ClaimSession(c)
    \/ StopPattern(c)
    \/ PatternStopped(c)
    \/ WriteReady(c)
    \/ ReleaseSession(c)
    \/ RestartPattern(c)

(* The generator touches nothing of the hub but the broadcast channel. *)
GeneratorStep(g) == LoopStep(g) /\ UNCHANGED hubVars

Next ==
    /\ ~crashed
    /\ \/ ReloadRegistry
       \/ \E c \in Conns : AuthenticatePublisher(c) \/ PublisherStep(c) \/ Disconnect(c)
       \/ \E d \in Senders : CapturePublisher(d) \/ SenderWrite(d)
       \/ \E g \in Gens : GeneratorStep(g)
       \/ HubStop
       \/ HubStopped

(* Goroutines that can run do run; a select that keeps finding its stop
   channel closed cannot choose the ticker forever.  Agents, watchers and
   operators owe nothing. *)
Fairness ==
    /\ \A c \in Conns : WF_vars(~crashed /\ PublisherStep(c))
    /\ \A d \in Senders : WF_vars(~crashed /\ SenderWrite(d))
    /\ \A g \in Gens :
          /\ WF_vars(~crashed /\ GeneratorStep(g))
          /\ SF_vars(~crashed /\ LoopExit(g) /\ UNCHANGED hubVars)
    /\ WF_vars(~crashed /\ HubStopped)

Spec == Init /\ [][Next]_vars
FairSpec == Spec /\ Fairness

-----------------------------------------------------------------------------
(* HandlePublish enforces a single publisher per session: of the goroutines
   that have claimed a session and not yet released it there is at most one,
   and it is the one sess.publisher names. *)
SinglePublisher ==
    \A c \in Conns : handler[c].pc \in OwnerPCs => publisher[handler[c].sess] = c

(* A session is online exactly while a goroutine owns it, under the PIN
   that goroutine authenticated with: no slot is leaked by any exit path of
   HandlePublish and no PIN outlives its publisher. *)
OnlineIffOwned ==
    \A s \in SessionIds :
        IF publisher[s] = NoConn
        THEN pin[s] = NoPin /\ \A c \in Conns : ~Owns(c, s)
        ELSE Owns(publisher[s], s) /\ pin[s] = handler[publisher[s]].pin

(* The goroutines that own each session, whatever sess.publisher says. *)
Owners == [s \in SessionIds |-> {c \in Conns : Owns(c, s)}]

Slot == INSTANCE PublisherSlot WITH
            Tenants <- Conns, Slots <- SessionIds, PINs <- Pins, NoPIN <- NoPin,
            tenants <- Owners, advertised <- pin

(* HandlePublish implements PublisherSlot: the goroutines between the claim
   and the release of a session are its tenants, one after the other, and
   sess.pin is the tenant's PIN, through every exit path, handshake and
   reload in between. *)
ImplementsSlot == Slot!SlotSpec

(* The pattern is not running only while some default publisher goroutine,
   having stopped it, still has to start it again (or at shutdown): however
   the Stop and Start calls of overlapping connections interleave, the
   default session never ends up with neither a publisher nor a pattern. *)
PatternPending(c) ==
    /\ handler[c].pc \in {"tpWait", "ready", "readying", "serving", "clear", "tpStart"}
    /\ handler[c].sess = Default

PatternNotLost ==
    ~tpRunning => hubPC # "run" \/ \E c \in Conns : PatternPending(c)

(* pubWriteMu keeps the goroutines that route messages to a publisher from
   writing to the same connection at once, also when it was replaced since
   they read it.  Of routed messages only: READY is written without it. *)
SendersExclude ==
    \A d, e \in Senders :
        sender[d].pc = "writing" /\ sender[e].pc = "writing" /\ sender[d].conn = sender[e].conn
            => d = e

(* "gorilla/websocket permits only one concurrent writer" (agent.go): that
   nothing is routed to a connection while HandlePublish writes READY to it
   is false, for the connection is sess.publisher from the claim on. *)
ReadyIsWrittenAlone ==
    \A c \in Conns, d \in Senders :
        handler[c].pc = "readying" => ~(sender[d].pc = "writing" /\ sender[d].conn = c)

(* TestPattern.Stop "blocks until stopped", so a publisher that claimed the
   default session is eventually served, unless the hub shuts down. *)
ClaimedIsServed ==
    \A c \in Conns : handler[c].pc = "tpStop" ~> (handler[c].pc = "serving" \/ hubPC # "run")
=============================================================================
