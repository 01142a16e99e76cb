------------------------------ MODULE AgentLoop ------------------------------
(***************************************************************************)
(* agent/agent.go, Run and what it calls, and agent/tray.go: the agents    *)
(* that the tray menu and the web UI start, stop and restart in one        *)
(* process, each a loop that connects to the relay, captures until the     *)
(* connection fails and connects again.  The relay has one publisher slot  *)
(* for them (HubPublish).  Agents are numbered in the order of their       *)
(* start; a connection is a name that is used again once both ends are     *)
(* through with it.                                                        *)
(***************************************************************************)
EXTENDS Integers, FiniteSets

CONSTANTS
    MaxAgents,   \* agents started
    Links,       \* names for connections
    Callers,     \* the tray menu and web UI handlers
    Tray,        \* the one of the tray menu
    LastBackoff, \* len(backoffDurations) - 1
    MaxCalls,    \* calls of start, stop and restart
    MaxFaults    \* failures of the network, the relay or the capturer

ASSUME AgentLoopAssumption ==
    /\ Tray \in Callers
    /\ MaxAgents \in Nat \ {0} /\ LastBackoff \in Nat
    /\ MaxCalls \in Nat /\ MaxFaults \in Nat
    /\ "none" \notin Links

VARIABLES
    trayAgent,   \* the agent in trayAgent, 0 for nil
    caller,      \* what each caller is doing
    calls,
    agents,      \* agents started so far
    loop,        \* where Run of each agent is
    stopped,     \* agents whose stopped channel is closed
    aconn,       \* a.conn of each agent
    link,        \* the connections
    slot,        \* the connection that is the relay's publisher
    backoffIdx,  \* one variable for all agents of the process
    overlapped,  \* two loops advanced it at once (history)
    crashed,     \* a panic of Run ended the process
    faults

agVars == <<trayAgent, caller, calls, agents, loop, stopped, aconn, link, slot,
            backoffIdx, overlapped, crashed, faults>>

AgentNos == 1 .. MaxAgents
NoLink == "none"
Unused == [of |-> 0, open |-> FALSE, up |-> FALSE, relay |-> "gone"]

AgTypeOK ==
    /\ trayAgent \in 0 .. MaxAgents /\ agents \in 0 .. MaxAgents
    /\ caller \in [Callers -> {"idle", "stop", "restart", "start"}]
    /\ \A g \in AgentNos : loop[g] \in
           [pc : {"off", "top", "reply", "capturer", "capture", "backoff", "advance", "ended"}, link : Links \cup {NoLink}]
    /\ stopped \subseteq AgentNos
    /\ aconn \in [AgentNos -> Links \cup {NoLink}]
    /\ \A c \in Links : link[c] \in
           [of : 0 .. MaxAgents, open : BOOLEAN, up : BOOLEAN, relay : {"new", "busy", "owner", "gone"}]
    /\ slot \in Links \cup {NoLink}
    /\ backoffIdx \in Nat /\ faults \in 0 .. MaxFaults /\ calls \in 0 .. MaxCalls

AgInit ==
    /\ trayAgent = 0 /\ agents = 0
    /\ caller = [k \in Callers |-> "idle"] /\ calls = 0
    /\ loop = [g \in AgentNos |-> [pc |-> "off", link |-> NoLink]]
    /\ stopped = {}
    /\ aconn = [g \in AgentNos |-> NoLink]
    /\ link = [c \in Links |-> Unused]
    /\ slot = NoLink
    /\ backoffIdx = 0 /\ overlapped = FALSE /\ crashed = FALSE /\ faults = 0

-----------------------------------------------------------------------------
(* tray.go.  startAgent and stopAgent hold trayAgentMu; restartAgent lets  *)
(* it go between the two.                                                  *)
CallerTo(k, pc) == caller' = [caller EXCEPT ![k] = pc]

(* onTrayReady starts the first agent.                                     *)
OnTrayReady ==
    /\ agents = 0 /\ calls = 0
    /\ agents' = 1 /\ trayAgent' = 1
    /\ loop' = [loop EXCEPT ![1].pc = "top"]
    /\ UNCHANGED <<caller, calls, stopped, aconn, link, slot, backoffIdx, overlapped, crashed, faults>>

(* The tray menu calls any of them; a web UI handler that saved settings   *)
(* restarts an agent that runs when it looks (restartAgentIfRunning).      *)
Call(k, what) ==
    /\ ~ crashed /\ agents > 0
    /\ k = Tray \/ (what = "restart" /\ trayAgent # 0)
    /\ caller[k] = "idle" /\ CallerTo(k, what)
    /\ calls < MaxCalls /\ calls' = calls + 1
    /\ UNCHANGED <<trayAgent, agents, loop, stopped, aconn, link, slot, backoffIdx, overlapped,
                   crashed, faults>>

(* Mutant: an agent that is there is not looked for. *)
StartAgent_Always(k) ==
    /\ ~ crashed
    /\ caller[k] = "start" /\ CallerTo(k, "idle")
    /\ agents < MaxAgents
    /\ agents' = agents + 1
    /\ trayAgent' = agents + 1
    /\ loop' = [loop EXCEPT ![agents + 1].pc = "top"]
    /\ UNCHANGED <<calls, stopped, aconn, link, slot, backoffIdx, overlapped, crashed, faults>>

(* startAgent returns when there is an agent.                              *)
StartAgent(k) ==
    /\ ~ crashed
    /\ caller[k] = "start" /\ CallerTo(k, "idle")
    /\ IF trayAgent # 0 THEN UNCHANGED <<agents, trayAgent, loop>>
       ELSE /\ agents < MaxAgents
            /\ agents' = agents + 1
            /\ trayAgent' = agents + 1
            /\ loop' = [loop EXCEPT ![agents + 1].pc = "top"]
    /\ UNCHANGED <<calls, stopped, aconn, link, slot, backoffIdx, overlapped, crashed, faults>>

(* This end closes a connection; one the other end has left is forgotten.  *)
Closed(c) == IF link[c].relay = "gone" THEN Unused ELSE [link[c] EXCEPT !.open = FALSE]

(* closeConn                                                               *)
CloseConn(g) ==
    /\ aconn' = [aconn EXCEPT ![g] = NoLink]
    /\ link' = IF aconn[g] = NoLink THEN link ELSE [link EXCEPT ![aconn[g]] = Closed(aconn[g])]

(* stopAgent: Stop closes the channel and the connection there is.         *)
StopAgent(k) ==
    /\ ~ crashed
    /\ \/ caller[k] = "stop" /\ CallerTo(k, "idle")
       \/ caller[k] = "restart" /\ CallerTo(k, "start")
    /\ stopped' = stopped \cup ({trayAgent} \ {0})
    /\ IF trayAgent = 0 THEN UNCHANGED <<aconn, link>> ELSE CloseConn(trayAgent)
    /\ trayAgent' = 0
    /\ UNCHANGED <<calls, agents, loop, slot, backoffIdx, overlapped, crashed, faults>>

CallerStep(k) == StartAgent(k) \/ StopAgent(k)

-----------------------------------------------------------------------------
(* The network and the relay (external to the agent).                      *)
Fault == faults < MaxFaults /\ faults' = faults + 1

LinkDrops(c) ==
    /\ link[c].open /\ link[c].up /\ Fault
    /\ link' = [link EXCEPT ![c].up = FALSE]
    /\ UNCHANGED <<trayAgent, caller, calls, agents, loop, stopped, aconn, slot, backoffIdx,
                   overlapped, crashed>>

Dead(c) == ~ link[c].open \/ ~ link[c].up \/ crashed

(* HandlePublish claims the slot and answers, or answers 409.              *)
RelayAnswers(c) ==
    /\ link[c].relay = "new" /\ ~ Dead(c)
    /\ link' = [link EXCEPT ![c].relay = IF slot = NoLink THEN "owner" ELSE "busy"]
    /\ slot' = IF slot = NoLink THEN c ELSE slot
    /\ UNCHANGED <<trayAgent, caller, calls, agents, loop, stopped, aconn, backoffIdx, overlapped,
                   crashed, faults>>

(* Its read fails: the connection was closed, or keep-alive gave it up.    *)
RelayLeaves(c) ==
    /\ link[c].relay # "gone" /\ Dead(c)
    /\ link' = [link EXCEPT ![c] = IF @.open THEN [@ EXCEPT !.relay = "gone"] ELSE Unused]
    /\ slot' = IF slot = c THEN NoLink ELSE slot
    /\ UNCHANGED <<trayAgent, caller, calls, agents, loop, stopped, aconn, backoffIdx, overlapped,
                   crashed, faults>>

-----------------------------------------------------------------------------
(* Run.                                                                    *)
At(g, pc) == ~ crashed /\ loop[g].pc = pc

Goes(g, pc) == loop' = [loop EXCEPT ![g].pc = pc]

Around == <<trayAgent, caller, calls, agents, stopped, slot, crashed>>

LoopEnds(g) ==
    /\ At(g, "top") /\ g \in stopped
    /\ Goes(g, "ended")
    /\ UNCHANGED <<Around, aconn, link, backoffIdx, overlapped, faults>>

(* connect: dial, HELLO and AUTH.                                          *)
DialFails(g) ==
    /\ At(g, "top") /\ g \notin stopped /\ Fault
    /\ Goes(g, "backoff")
    /\ UNCHANGED <<Around, aconn, link, backoffIdx, overlapped>>

Dial(g) ==
    /\ At(g, "top") /\ g \notin stopped
    /\ \E c \in Links : link[c] = Unused
    /\ LET c == CHOOSE c \in Links : link[c] = Unused
       IN  /\ link' = [link EXCEPT ![c] = [of |-> g, open |-> TRUE, up |-> TRUE, relay |-> "new"]]
           /\ loop' = [loop EXCEPT ![g] = [pc |-> "reply", link |-> c]]
    /\ UNCHANGED <<Around, aconn, backoffIdx, overlapped, faults>>

(* The answer is an error, or does not come in ten seconds (of a           *)
(* connection that dropped): it is closed.                                 *)
DialRefused(g) ==
    LET c == loop[g].link
    IN  /\ At(g, "reply")
        /\ Dead(c) \/ link[c].relay \in {"busy", "gone"}
        /\ link' = [link EXCEPT ![c] = Closed(c)]
        /\ loop' = [loop EXCEPT ![g] = [pc |-> "backoff", link |-> NoLink]]
        /\ UNCHANGED <<Around, aconn, backoffIdx, overlapped, faults>>

(* a.conn = conn, also when Stop has been and gone; sendSurvConfig, whose  *)
(* errors are not looked at; backoffIdx = 0.                               *)
Accepted(g) ==
    LET c == loop[g].link
    IN  /\ At(g, "reply") /\ link[c].relay = "owner"
        /\ aconn' = [aconn EXCEPT ![g] = c]
        /\ loop' = [loop EXCEPT ![g] = [pc |-> "capturer", link |-> NoLink]]
        /\ backoffIdx' = 0
        /\ UNCHANGED <<Around, link, overlapped, faults>>

(* Mutant: the connection stays open. *)
CapturerFails_Keeps(g) ==
    /\ At(g, "capturer") /\ Fault
    /\ Goes(g, "backoff")
    /\ UNCHANGED <<Around, aconn, link, backoffIdx, overlapped>>

CapturerFails(g) ==
    /\ At(g, "capturer") /\ Fault
    /\ CloseConn(g)
    /\ Goes(g, "backoff")
    /\ UNCHANGED <<Around, backoffIdx, overlapped>>

CapturerReady(g) ==
    /\ At(g, "capturer")
    /\ Goes(g, "capture")
    /\ UNCHANGED <<Around, aconn, link, backoffIdx, overlapped, faults>>

(* Mutant: a stopped agent leaves its connection to Stop. *)
Cleanup_Stopped(g) ==
    /\ IF g \in stopped THEN UNCHANGED <<aconn, link>> ELSE CloseConn(g)
    /\ Goes(g, "top")
    /\ UNCHANGED <<Around, backoffIdx, overlapped>>

(* captureLoop has returned.                                               *)
Cleanup(g) ==
    /\ CloseConn(g)
    /\ Goes(g, "top")
    /\ UNCHANGED <<Around, backoffIdx, overlapped>>

(* Mutant: a frame that cannot be sent is dropped, like a heartbeat. *)
FrameFails_Dropped(g) ==
    /\ At(g, "capture") /\ aconn[g] = NoLink
    /\ Cleanup(g)
    /\ UNCHANGED faults

(* captureLoop: a frame of a screen that changed finds no connection, or   *)
(* cannot be sent.  (One that is sent and a heartbeat change nothing.)     *)
FrameFails(g) ==
    /\ At(g, "capture")
    /\ aconn[g] # NoLink => Dead(aconn[g]) \/ link[aconn[g]].relay = "gone"
    /\ Cleanup(g)
    /\ UNCHANGED faults

(* Too many capture errors in a row, or a panic that runGuarded catches.   *)
CaptureBreaks(g) == At(g, "capture") /\ Fault /\ Cleanup(g)

CaptureStopped(g) ==
    /\ At(g, "capture") /\ g \in stopped
    /\ Cleanup(g)
    /\ UNCHANGED faults

(* Mutant: the index is advanced whatever it is. *)
Advances_Always == TRUE

Advances == backoffIdx < LastBackoff

(* backoff: the index is read and compared, and advanced, by any of the    *)
(* loops of the process; an index past the end is a panic in Run, which    *)
(* nothing recovers.                                                       *)
Backoff(g) ==
    /\ At(g, "backoff")
    /\ crashed' = (backoffIdx > LastBackoff)
    /\ Goes(g, IF Advances THEN "advance" ELSE "top")
    /\ overlapped' = (overlapped \/ (Advances /\ \E h \in AgentNos : loop[h].pc = "advance"))
    /\ UNCHANGED <<trayAgent, caller, calls, agents, stopped, slot, aconn, link, backoffIdx, faults>>

(* Then it waits, until the time is over or the agent is stopped.          *)
BackoffAdvances(g) ==
    /\ At(g, "advance")
    /\ backoffIdx' = backoffIdx + 1
    /\ Goes(g, "top")
    /\ UNCHANGED <<Around, aconn, link, overlapped, faults>>

(* What a loop does by itself, whatever fails.                             *)
RunStep(g) ==
    \/ LoopEnds(g) \/ Dial(g) \/ DialRefused(g) \/ Accepted(g)
    \/ CapturerReady(g) \/ FrameFails(g) \/ CaptureStopped(g)
    \/ Backoff(g) \/ BackoffAdvances(g)

AgNext ==
    \/ OnTrayReady
    \/ \E k \in Callers :
          \/ \E what \in {"start", "stop", "restart"} : Call(k, what)
          \/ CallerStep(k)
    \/ \E c \in Links : LinkDrops(c) \/ RelayAnswers(c) \/ RelayLeaves(c)
    \/ \E g \in AgentNos : RunStep(g) \/ DialFails(g) \/ CapturerFails(g) \/ CaptureBreaks(g)

AgSpec == AgInit /\ [][AgNext]_agVars

(* The goroutines run; the relay answers, and notices a dead connection    *)
(* (TCP keep-alive); the screen goes on changing.  Nobody has to call, and *)
(* failures are bounded.                                                   *)
AgFairness ==
    /\ \A g \in AgentNos : WF_agVars(RunStep(g))
    /\ \A k \in Callers : WF_agVars(CallerStep(k))
    /\ \A c \in Links : WF_agVars(RelayAnswers(c)) /\ WF_agVars(RelayLeaves(c))

-----------------------------------------------------------------------------
(* However the tray menu and the web UI start, stop and restart at once,   *)
(* the agent that runs is the one they can stop: no other agent that was   *)
(* started is without its stop signal (tray.go, trayAgentMu).              *)
OneAgentRuns ==
    \A g \in 1 .. agents : g \in stopped \/ g = trayAgent

(* An agent has at most one open connection, and none that it forgot: the  *)
(* one it has is in a.conn or in the hands of connect (agent.go, Run).     *)
NoForgottenLink ==
    \A c \in Links :
        link[c].open /\ ~ crashed =>
            LET g == link[c].of
            IN  aconn[g] = c \/ (loop[g].pc = "reply" /\ loop[g].link = c)

(* The index into backoffDurations stays in range, unless the loop of an   *)
(* agent that is being stopped and that of its successor advance it at     *)
(* once: it is one variable for both (agent.go:676).                       *)
BackoffInRange == overlapped \/ (backoffIdx <= LastBackoff /\ ~ crashed)

(* An agent that was stopped ends and closes its connection, also when     *)
(* Stop came while connect was waiting and found nothing to close          *)
(* (agent.go, Stop and connect).                                           *)
StoppedIsGone ==
    \A g \in AgentNos :
        g \in stopped ~> (crashed \/ (loop[g].pc = "ended" /\ \A c \in Links : link[c].of = g => ~ link[c].open))

(* The agent that stays in the tray gets the publisher's slot and keeps    *)
(* it, whatever connections dropped or were refused while the relay held   *)
(* the slot for a dead one or for the agent's predecessor (agent.go, Run). *)
ServedAgain ==
    \A g \in AgentNos :
        <>[](trayAgent = g /\ ~ crashed)
            => <>[](slot # NoLink /\ aconn[g] = slot /\ loop[g].pc = "capture")

(* Whatever order tray and web UI call in: one agent at a time that was not
   stopped, no connection that nobody holds, and a stopped agent ends
   (tray.go, startAgent and stopAgent; agent.go, Stop). *)
AgentsAccounted == [](OneAgentRuns /\ NoForgottenLink) /\ StoppedIsGone

(* The retry loop: the backoff index stays in its table, and an agent that
   is not stopped is served again after any loss (agent.go, Run). *)
RunsOn == []BackoffInRange /\ ServedAgain
=============================================================================
