------------------------- MODULE SupervisionProofs --------------------------
(***************************************************************************)
(* Theorems about the four loops that keep something going, for every      *)
(* number of channels, sites, agents, connections and streams: a channel   *)
(* has one recorder (OneRecorder), alerts alternate (AlertsAlternate), an  *)
(* agent that runs can be stopped, forgets no connection and stays in its  *)
(* table of waits (OneAgentRuns, NoForgottenLink, BackoffInRange), and the *)
(* viewer loses no RTSP session (NoSessionLost).                           *)
(***************************************************************************)
EXTENDS MCSupervision, TLAPS

-----------------------------------------------------------------------------
(* Recorder.                                                               *)

RecIInv == RecTypeOK /\ OneRecorder

Sups == [pc : SupStates, src : {"sub", "main"}, cancelled : BOOLEAN, backoff : Backoffs]

LEMMA SupsTyped ==
  ASSUME RecTypeOK, NEW c \in Channels, NEW n \in 1 .. MaxStarts
  PROVE  /\ sup[c][n] \in Sups
         /\ [sup[c][n] EXCEPT !.cancelled = TRUE] \in Sups
         /\ \A pc \in SupStates : [sup[c][n] EXCEPT !.pc = pc] \in Sups
         /\ \A pc \in SupStates : [sup[c][n] EXCEPT !.pc = pc, !.backoff = IF @ < 30 THEN 2 * @ ELSE @] \in Sups
  <1>1. sup[c][n] \in Sups
    BY DEF RecTypeOK, Sups
  <1>2. PICK s : s = sup[c][n]
    OBVIOUS
  <1>3. s \in Sups
    BY <1>1, <1>2
  <1>4. [s EXCEPT !.cancelled = TRUE] \in Sups
    BY <1>3 DEF Sups
  <1>5. \A pc \in SupStates : [s EXCEPT !.pc = pc] \in Sups
    BY <1>3 DEF Sups
  <1>6. (IF s.backoff < 30 THEN 2 * s.backoff ELSE s.backoff) \in Backoffs
    BY <1>3 DEF Sups, Backoffs
  <1>7. \A pc \in SupStates : [s EXCEPT !.pc = pc, !.backoff = IF @ < 30 THEN 2 * @ ELSE @] \in Sups
    BY <1>3, <1>6 DEF Sups
  <1>8. QED
    BY <1>1, <1>2, <1>4, <1>5, <1>7

(* A supervisor that moves on leaves the map and the others alone; one that *)
(* was cancelled or has ended does not come back.                          *)
LEMMA SupMoves ==
  ASSUME RecIInv, NEW c \in Channels, NEW n \in 1 .. MaxStarts, NEW s \in Sups, SupTo(c, n, s),
         restarts' \in 0 .. MaxRestarts,
         sup[c][n].pc \notin {"none", "ended"}, s.cancelled = sup[c][n].cancelled
  PROVE  RecIInv'
  <1>1. /\ sup' = [sup EXCEPT ![c][n] = s]
        /\ UNCHANGED <<live, changes, run, recs, starts, hubDone>>
    BY DEF SupTo
  <1>2. sup \in [Channels -> [1 .. MaxStarts -> Sups]]
    BY DEF RecIInv, RecTypeOK, Sups
  <1>3. sup' \in [Channels -> [1 .. MaxStarts -> Sups]]
    BY <1>1, <1>2
  <1>4. RecTypeOK'
    BY <1>1, <1>3 DEF RecIInv, RecTypeOK, Sups
  <1>5. /\ sup'[c][n] = s
        /\ \A d \in Channels : \A m \in 1 .. MaxStarts :
              ~ (d = c /\ m = n) => sup'[d][m] = sup[d][m]
    BY <1>1, <1>2
  <1>6. OneRecorder'
    BY <1>1, <1>5 DEF RecIInv, OneRecorder
  <1>7. QED
    BY <1>4, <1>6 DEF RecIInv

LEMMA ReconcileKeeps ==
  ASSUME RecIInv, Reconcile
  PROVE  RecIInv'
  <1>1. PICK want : want = RecordTargets(live)
    OBVIOUS
  <1>2. PICK T : T = {c \in Channels : Starts(c, want)}
    OBVIOUS
  <1>3. PICK C : C = {c \in Channels : Cancels(c, want)}
    OBVIOUS
  <1>4. /\ \A c \in T : starts[c] + 1 <= MaxStarts
        /\ starts' = [c \in Channels |-> IF c \in T THEN starts[c] + 1 ELSE starts[c]]
        /\ recs' = [c \in Channels |-> IF c \in T THEN starts[c] + 1
                                       ELSE IF c \in C THEN 0 ELSE recs[c]]
        /\ sup' = [c \in Channels |-> [n \in 1 .. MaxStarts |->
                      IF c \in T /\ n = starts[c] + 1 THEN Started(want[c])
                      ELSE IF c \in C /\ n = recs[c]
                           THEN [sup[c][n] EXCEPT !.cancelled = TRUE]
                      ELSE sup[c][n]]]
        /\ UNCHANGED <<live, changes, run, restarts, hubDone>>
    BY <1>1, <1>2, <1>3 DEF Reconcile
  <1>5. \A c \in Channels : starts[c] \in 0 .. MaxStarts /\ recs[c] \in 0 .. MaxStarts
    BY DEF RecIInv, RecTypeOK
  <1>6. \A c \in T : starts[c] + 1 \in 1 .. MaxStarts
    BY <1>2, <1>4, <1>5, RecorderAssumption
  <1>7. starts' \in [Channels -> 0 .. MaxStarts]
    BY <1>4, <1>5, <1>6
  <1>8. recs' \in [Channels -> 0 .. MaxStarts]
    BY <1>4, <1>5, <1>6, RecorderAssumption
  <1>9. \A c \in T : want[c] \in {"sub", "main"}
    BY <1>1, <1>2 DEF Starts, RecordTargets
  <1>10. \A c \in T : Started(want[c]) \in Sups
    BY <1>9 DEF Started, Sups, SupStates, Backoffs
  <1>11. sup' \in [Channels -> [1 .. MaxStarts -> Sups]]
    <2>1. \A c \in Channels : \A n \in 1 .. MaxStarts : sup[c][n] \in Sups
      BY SupsTyped DEF RecIInv
    <2>2. \A c \in Channels : \A n \in 1 .. MaxStarts : [sup[c][n] EXCEPT !.cancelled = TRUE] \in Sups
      BY SupsTyped DEF RecIInv
    <2>3. QED
      BY <1>4, <1>10, <2>1, <2>2
  <1>12. RecTypeOK'
    BY <1>4, <1>7, <1>8, <1>11 DEF RecIInv, RecTypeOK, Sups
  <1>13. ASSUME NEW c \in Channels, NEW n \in 1 .. MaxStarts,
                sup'[c][n].pc \notin {"none", "ended"}, ~ sup'[c][n].cancelled
         PROVE  recs'[c] = n
    <2>1. CASE c \in T /\ n = starts[c] + 1
      BY <1>4, <2>1
    <2>2. CASE ~ (c \in T /\ n = starts[c] + 1) /\ c \in C /\ n = recs[c]
      <3>1. sup'[c][n] = [sup[c][n] EXCEPT !.cancelled = TRUE]
        BY <1>4, <2>2
      <3>2. sup[c][n] \in Sups
        BY SupsTyped DEF RecIInv
      <3>3. sup'[c][n].cancelled
        BY <3>1, <3>2 DEF Sups
      <3>4. QED
        BY <1>13, <3>3
    <2>3. CASE ~ (c \in T /\ n = starts[c] + 1) /\ ~ (c \in C /\ n = recs[c])
      <3>1. sup'[c][n] = sup[c][n]
        BY <1>4, <2>3
      <3>2. recs[c] = n
        BY <1>13, <3>1 DEF RecIInv, OneRecorder
      <3>3. c \notin C
        BY <2>3, <3>2
      <3>4. c \notin T
        BY <1>2, <1>3, <3>2, <3>3 DEF Starts, Cancels
      <3>5. QED
        BY <1>4, <3>2, <3>3, <3>4
    <2>4. QED
      BY <2>1, <2>2, <2>3
  <1>14. QED
    BY <1>12, <1>13 DEF RecIInv, OneRecorder

LEMMA RecNextKeeps == RecIInv /\ [RecNext]_recVars => RecIInv'
  <1> SUFFICES ASSUME RecIInv, [RecNext]_recVars
               PROVE  RecIInv'
    OBVIOUS
  <1>1. CASE StreamsChange
    <2>1. changes' \in 0 .. MaxChanges
      BY <1>1, RecorderAssumption DEF StreamsChange, RecIInv, RecTypeOK
    <2>2. live' \in SUBSET StreamIDs
      BY <1>1 DEF StreamsChange, RecIInv, RecTypeOK
    <2>3. QED
      BY <1>1, <2>1, <2>2 DEF StreamsChange, RecIInv, RecTypeOK, OneRecorder
  <1>2. CASE Reconcile
    BY <1>2, ReconcileKeeps
  <1>3. CASE HubStop
    BY <1>3 DEF HubStop, RecIInv, RecTypeOK, OneRecorder
  <1>4. CASE RunEnds
    <2>1. /\ run' = "ended" /\ recs' = [c \in Channels |-> 0]
          /\ sup' = [c \in Channels |-> [n \in 1 .. MaxStarts |->
                       IF n = recs[c] THEN [sup[c][n] EXCEPT !.cancelled = TRUE] ELSE sup[c][n]]]
          /\ UNCHANGED <<live, changes, starts, restarts, hubDone>>
      BY <1>4 DEF RunEnds
    <2>2. \A c \in Channels : \A n \in 1 .. MaxStarts :
             sup[c][n] \in Sups /\ [sup[c][n] EXCEPT !.cancelled = TRUE] \in Sups
      BY SupsTyped DEF RecIInv
    <2>3. sup' \in [Channels -> [1 .. MaxStarts -> Sups]]
      BY <2>1, <2>2
    <2>4. recs' \in [Channels -> 0 .. MaxStarts]
      BY <2>1, RecorderAssumption
    <2>5. RecTypeOK'
      BY <2>1, <2>3, <2>4 DEF RecIInv, RecTypeOK, Sups
    <2>6. ASSUME NEW c \in Channels, NEW n \in 1 .. MaxStarts, sup'[c][n].pc \notin {"none", "ended"}
          PROVE  sup'[c][n].cancelled
      <3>1. CASE n = recs[c]
        BY <2>1, <2>2, <3>1 DEF Sups
      <3>2. CASE n # recs[c]
        BY <2>1, <2>6, <3>2 DEF RecIInv, OneRecorder
      <3>3. QED
        BY <3>1, <3>2
    <2>7. QED
      BY <2>5, <2>6 DEF RecIInv, OneRecorder
  <1>5. ASSUME NEW c \in Channels, NEW n \in 1 .. MaxStarts, SupStep(c, n) \/ FfmpegExits(c, n)
        PROVE  RecIInv'
    <2>1. PICK s : s = sup[c][n]
      OBVIOUS
    <2>2. /\ s \in Sups /\ \A pc \in SupStates : [s EXCEPT !.pc = pc] \in Sups
          /\ \A pc \in SupStates : [s EXCEPT !.pc = pc, !.backoff = IF @ < 30 THEN 2 * @ ELSE @] \in Sups
      BY <2>1, SupsTyped DEF RecIInv
    <2>3. restarts' \in 0 .. MaxRestarts
      BY <1>5, RecorderAssumption DEF SupStep, SupLaunch, SupKilled, SupWaited, FfmpegExits, RecIInv, RecTypeOK
    <2>4. CASE SupLaunch(c, n)
      <3>1. PICK q : q = [s EXCEPT !.pc = IF s.cancelled THEN "ended" ELSE "running"]
        OBVIOUS
      <3>2. SupTo(c, n, q) /\ s.pc = "check"
        BY <2>1, <2>4, <3>1 DEF SupLaunch
      <3>3. q \in Sups /\ q.cancelled = s.cancelled
        BY <2>2, <3>1 DEF SupStates, Sups
      <3>4. QED
        BY <2>1, <2>3, <3>2, <3>3, SupMoves
    <2>5. CASE SupKilled(c, n)
      <3>1. PICK q : q = [s EXCEPT !.pc = "ended"]
        OBVIOUS
      <3>2. SupTo(c, n, q) /\ s.pc = "running"
        BY <2>1, <2>5, <3>1 DEF SupKilled
      <3>3. q \in Sups /\ q.cancelled = s.cancelled
        BY <2>2, <3>1 DEF SupStates, Sups
      <3>4. QED
        BY <2>1, <2>3, <3>2, <3>3, SupMoves
    <2>6. CASE FfmpegExits(c, n)
      <3>1. PICK q : q = [s EXCEPT !.pc = "backoff"]
        OBVIOUS
      <3>2. SupTo(c, n, q) /\ s.pc = "running"
        BY <2>1, <2>6, <3>1 DEF FfmpegExits
      <3>3. q \in Sups /\ q.cancelled = s.cancelled
        BY <2>2, <3>1 DEF SupStates, Sups
      <3>4. QED
        BY <2>1, <2>3, <3>2, <3>3, SupMoves
    <2>7. CASE SupWaited(c, n)
      <3>1. PICK q : q = [s EXCEPT !.pc = "ended"]
        OBVIOUS
      <3>2. PICK r : r = [s EXCEPT !.pc = "check", !.backoff = IF @ < 30 THEN 2 * @ ELSE @]
        OBVIOUS
      <3>3. (SupTo(c, n, q) \/ SupTo(c, n, r)) /\ s.pc = "backoff"
        BY <2>1, <2>7, <3>1, <3>2 DEF SupWaited
      <3>4. q \in Sups /\ q.cancelled = s.cancelled
        BY <2>2, <3>1 DEF SupStates, Sups
      <3>5. r \in Sups /\ r.cancelled = s.cancelled
        BY <2>2, <3>2 DEF SupStates, Sups
      <3>6. QED
        BY <2>1, <2>3, <3>3, <3>4, <3>5, SupMoves
    <2>8. QED
      BY <1>5, <2>4, <2>5, <2>6, <2>7 DEF SupStep
  <1>6. CASE UNCHANGED recVars
    BY <1>6 DEF recVars, RecIInv, RecTypeOK, OneRecorder
  <1>7. QED
    BY <1>1, <1>2, <1>3, <1>4, <1>5, <1>6 DEF RecNext

LEMMA RecInitKeeps == RecInit => RecIInv
  <1> SUFFICES ASSUME RecInit
               PROVE  RecIInv
    OBVIOUS
  <1>1. NoSup \in Sups
    BY DEF NoSup, Sups, SupStates, Backoffs
  <1>2. sup \in [Channels -> [1 .. MaxStarts -> Sups]]
    BY <1>1 DEF RecInit
  <1>3. recs \in [Channels -> 0 .. MaxStarts] /\ starts \in [Channels -> 0 .. MaxStarts]
    BY RecorderAssumption DEF RecInit
  <1>5. RecTypeOK
    <2>1. changes \in 0 .. MaxChanges /\ restarts \in 0 .. MaxRestarts
      BY RecorderAssumption DEF RecInit
    <2>2. live \in SUBSET StreamIDs /\ run \in {"select", "ended"} /\ hubDone \in BOOLEAN
      BY DEF RecInit
    <2>3. QED
      BY <1>2, <1>3, <2>1, <2>2 DEF RecTypeOK, Sups
  <1>4. OneRecorder
    BY DEF RecInit, OneRecorder, NoSup
  <1>6. QED
    BY <1>4, <1>5 DEF RecIInv

(* A channel never has two recorders that nobody cancelled, and the one it *)
(* has is in r.recs, where the next reconcile finds it (recorder.go,       *)
(* reconcile and supervise).                                               *)
THEOREM OneRecorderHolds == RecSpec => []OneRecorder
  <1>1. RecIInv => OneRecorder
    BY DEF RecIInv
  <1>2. QED
    BY <1>1, RecInitKeeps, RecNextKeeps, PTL DEF RecSpec

-----------------------------------------------------------------------------
(* Alerts.                                                                 *)

(* The monitor's map says which alerts are open.                           *)
DownIsOpen == \A s \in Sites : alOpen[s] = IF s \in alDown THEN 1 ELSE 0

AlIInv == AlTypeOK /\ DownIsOpen /\ DOMAIN alOpen = Sites

LEMMA AlInitKeeps == AlInit => AlIInv
  <1> SUFFICES ASSUME AlInit
               PROVE  AlIInv
    OBVIOUS
  <1>1. alAge \in [Sites -> NoMessage .. OfflineGrace]
    BY AlertsAssumption DEF AlInit, NoMessage
  <1>2. alLook \in [left : SUBSET Sites, offline : Sites \cup {NoSite}]
    BY DEF AlInit, NoSweep
  <1>3. AlTypeOK
    BY <1>1, <1>2 DEF AlInit, AlTypeOK
  <1>4. DownIsOpen /\ DOMAIN alOpen = Sites
    BY DEF AlInit, DownIsOpen
  <1>5. QED
    BY <1>3, <1>4 DEF AlIInv

LEMMA AlNextKeeps == AlIInv /\ [AlNext]_alVars => AlIInv'
  <1> SUFFICES ASSUME AlIInv, [AlNext]_alVars
               PROVE  AlIInv'
    OBVIOUS
  <1>1. CASE AlTick
    <2>1. alAge' \in [Sites -> NoMessage .. OfflineGrace]
      BY <1>1, AlertsAssumption DEF AlTick, AlIInv, AlTypeOK, NoMessage
    <2>2. QED
      BY <1>1, <2>1 DEF AlTick, AlIInv, AlTypeOK, DownIsOpen
  <1>2. CASE AlSwitch
    BY <1>2 DEF AlSwitch, AlIInv, AlTypeOK, DownIsOpen
  <1>3. ASSUME NEW s \in Sites, AlClaim(s) \/ AlLeave(s)
        PROVE  AlIInv'
    BY <1>3 DEF AlClaim, AlLeave, AlIInv, AlTypeOK, DownIsOpen
  <1>4. ASSUME NEW s \in Sites, AlMessage(s)
        PROVE  AlIInv'
    <2>1. alAge' \in [Sites -> NoMessage .. OfflineGrace]
      BY <1>4, AlertsAssumption DEF AlMessage, AlIInv, AlTypeOK, NoMessage
    <2>2. QED
      BY <1>4, <2>1 DEF AlMessage, AlIInv, AlTypeOK, DownIsOpen
  <1>5. ASSUME NEW s \in Sites, MonitorLooks(s)
        PROVE  AlIInv'
    <2>1. /\ alLook' = [left |-> alLook.left \ {s},
                        offline |-> IF s \in alConnected \ alOnline THEN s ELSE NoSite]
          /\ UNCHANGED <<alOnline, alConnected, alAge, alActive>>
      BY <1>5 DEF MonitorLooks
    <2>2. alLook' \in [left : SUBSET Sites, offline : Sites \cup {NoSite}]
      BY <2>1 DEF AlIInv, AlTypeOK
    <2>3. CASE s \in alConnected \cap alOnline \cap alDown
      <3>1. alDown' = alDown \ {s} /\ alOpen' = [alOpen EXCEPT ![s] = @ - 1]
        BY <1>5, <2>3 DEF MonitorLooks
      <3>2. AlTypeOK'
        BY <2>1, <2>2, <3>1 DEF AlIInv, AlTypeOK
      <3>3. DownIsOpen' /\ DOMAIN alOpen' = Sites
        BY <2>3, <3>1 DEF AlIInv, DownIsOpen
      <3>4. QED
        BY <3>2, <3>3 DEF AlIInv
    <2>4. CASE s \notin alConnected \cap alOnline \cap alDown
      BY <1>5, <2>1, <2>2, <2>4 DEF MonitorLooks, AlIInv, AlTypeOK, DownIsOpen
    <2>5. QED
      BY <2>3, <2>4
  <1>6. CASE MonitorJudges
    <2>1. PICK s : s = alLook.offline
      OBVIOUS
    <2>2. /\ s # NoSite
          /\ alLook' = [alLook EXCEPT !.offline = NoSite]
          /\ alDown' = IF Overdue(s) THEN alDown \cup {s} ELSE alDown
          /\ alOpen' = IF Overdue(s) THEN [alOpen EXCEPT ![s] = @ + 1] ELSE alOpen
          /\ UNCHANGED <<alOnline, alConnected, alAge, alActive>>
      BY <1>6, <2>1 DEF MonitorJudges
    <2>3. s \in Sites
      BY <2>1, <2>2 DEF AlIInv, AlTypeOK
    <2>4. AlTypeOK'
      BY <2>2, <2>3 DEF AlIInv, AlTypeOK
    <2>5. DownIsOpen' /\ DOMAIN alOpen' = Sites
      BY <2>2, <2>3 DEF AlIInv, DownIsOpen, Overdue
    <2>6. QED
      BY <2>4, <2>5 DEF AlIInv
  <1>7. CASE UNCHANGED alVars
    BY <1>7 DEF alVars, AlIInv, AlTypeOK, DownIsOpen
  <1>8. CASE MonitorSweeps
    <2>1. alLook' \in [left : SUBSET Sites, offline : Sites \cup {NoSite}]
      BY <1>8 DEF MonitorSweeps
    <2>2. QED
      BY <1>8, <2>1 DEF MonitorSweeps, AlIInv, AlTypeOK, DownIsOpen
  <1>9. QED
    BY <1>1, <1>2, <1>3, <1>4, <1>5, <1>6, <1>7, <1>8 DEF AlNext, AlMonitor

(* Down and up alerts of a site alternate, down first ("de-dupes so each   *)
(* transition alerts exactly once", alerts.go:126), whatever comes and     *)
(* goes while the monitor sweeps.                                          *)
THEOREM AlertsAlternateHolds == AlSpec => []AlertsAlternate
  <1>1. AlIInv => AlertsAlternate
    BY DEF AlIInv, DownIsOpen, AlertsAlternate
  <1>2. QED
    BY <1>1, AlInitKeeps, AlNextKeeps, PTL DEF AlSpec

-----------------------------------------------------------------------------
(* Agent connection loop.                                                  *)

LoopStates == [pc : {"off", "top", "reply", "capturer", "capture", "backoff", "advance", "ended"},
               link : Links \cup {NoLink}]
LinkStates == [of : 0 .. MaxAgents, open : BOOLEAN, up : BOOLEAN,
               relay : {"new", "busy", "owner", "gone"}]

AgTyped == AgTypeOK /\ loop \in [AgentNos -> LoopStates] /\ link \in [Links -> LinkStates]

(* The numbers are given in turn, and the one in trayAgent was given.      *)
AgNumbered ==
    /\ trayAgent <= agents
    /\ \A g \in AgentNos : g > agents => loop[g].pc = "off"
    /\ OneAgentRuns

(* An open connection is in a.conn of its agent or in the hands of its     *)
(* connect, and a.conn is set only while the agent captures.               *)
AgHeld ==
    /\ \A c \in Links : link[c].open =>
          LET g == link[c].of
          IN  g \in AgentNos /\ (aconn[g] = c \/ (loop[g].pc = "reply" /\ loop[g].link = c))
    /\ \A g \in AgentNos : loop[g].pc \in {"capturer", "capture"} \/ aconn[g] = NoLink

(* As long as no two loops advanced the index at once, a loop that is      *)
(* about to has found room for it.                                         *)
AgWaits ==
    overlapped \/
    /\ ~ crashed /\ backoffIdx <= LastBackoff
    /\ \A g \in AgentNos : loop[g].pc = "advance" =>
          backoffIdx < LastBackoff /\ \A h \in AgentNos : loop[h].pc = "advance" => h = g

AgIInv == AgTyped /\ AgNumbered /\ AgHeld /\ AgWaits

LoopMoves(g) == RunStep(g) \/ DialFails(g) \/ CapturerFails(g) \/ CaptureBreaks(g)

LEMMA LinksTyped ==
  ASSUME AgTyped, NEW c \in Links
  PROVE  /\ Unused \in LinkStates
         /\ Closed(c) \in LinkStates /\ ~ Closed(c).open
         /\ [link[c] EXCEPT !.up = FALSE] \in LinkStates
         /\ \A r \in {"busy", "owner", "gone"} : [link[c] EXCEPT !.relay = r] \in LinkStates
  <1>1. PICK l : l = link[c]
    OBVIOUS
  <1>2. l \in LinkStates
    BY <1>1 DEF AgTyped
  <1>3. Unused \in LinkStates
    BY AgentLoopAssumption DEF Unused, LinkStates
  <1>4. [l EXCEPT !.open = FALSE] \in LinkStates /\ ~ [l EXCEPT !.open = FALSE].open
    BY <1>2 DEF LinkStates
  <1>5. [l EXCEPT !.up = FALSE] \in LinkStates
    BY <1>2 DEF LinkStates
  <1>6. \A r \in {"busy", "owner", "gone"} : [l EXCEPT !.relay = r] \in LinkStates
    BY <1>2 DEF LinkStates
  <1>7. ~ Unused.open
    BY DEF Unused
  <1>8. QED
    BY <1>1, <1>3, <1>4, <1>5, <1>6, <1>7 DEF Closed

(* What closing a connection leaves open was open, and is not that one.    *)
LEMMA CloseConnLeaves ==
  ASSUME AgTyped, NEW g \in AgentNos, CloseConn(g)
  PROVE  /\ aconn' = [aconn EXCEPT ![g] = NoLink]
         /\ aconn' \in [AgentNos -> Links \cup {NoLink}]
         /\ link' \in [Links -> LinkStates]
         /\ \A c \in Links : link'[c].open => link'[c] = link[c] /\ c # aconn[g]
  <1>1. PICK d : d = aconn[g]
    OBVIOUS
  <1>2. d \in Links \cup {NoLink}
    BY <1>1 DEF AgTyped, AgTypeOK
  <1>3. /\ aconn' = [aconn EXCEPT ![g] = NoLink]
        /\ link' = IF d = NoLink THEN link ELSE [link EXCEPT ![d] = Closed(d)]
    BY <1>1 DEF CloseConn
  <1>4. aconn' \in [AgentNos -> Links \cup {NoLink}]
    BY <1>3 DEF AgTyped, AgTypeOK
  <1>5. CASE d = NoLink
    BY <1>1, <1>3, <1>4, <1>5, AgentLoopAssumption DEF AgTyped, NoLink
  <1>6. CASE d # NoLink
    <2>1. d \in Links
      BY <1>2, <1>6
    <2>2. Closed(d) \in LinkStates /\ ~ Closed(d).open
      BY <2>1, LinksTyped
    <2>3. link' = [link EXCEPT ![d] = Closed(d)]
      BY <1>3, <1>6
    <2>4. link' \in [Links -> LinkStates]
      BY <2>1, <2>2, <2>3 DEF AgTyped
    <2>5. \A c \in Links : link'[c] = IF c = d THEN Closed(d) ELSE link[c]
      BY <2>1, <2>3 DEF AgTyped
    <2>6. QED
      BY <1>1, <1>3, <1>4, <2>2, <2>4, <2>5
  <1>7. QED
    BY <1>5, <1>6

(* A step of a loop changes its own place only.                            *)
LEMMA LoopSteps ==
  ASSUME AgTyped, NEW g \in AgentNos, LoopMoves(g)
  PROVE  /\ \E l \in LoopStates : l.pc # "off" /\ loop' = [loop EXCEPT ![g] = l]
         /\ loop[g].pc # "off"
         /\ faults' \in 0 .. MaxFaults
         /\ UNCHANGED <<trayAgent, caller, calls, agents, stopped, slot>>
  <1>1. loop[g] \in LoopStates /\ loop \in [AgentNos -> LoopStates]
    BY DEF AgTyped
  <1>2. ASSUME NEW pc \in {"top", "capture", "backoff", "advance", "ended"}, Goes(g, pc)
        PROVE  \E l \in LoopStates : l.pc # "off" /\ loop' = [loop EXCEPT ![g] = l]
    <2>1. PICK l : l = [loop[g] EXCEPT !.pc = pc]
      OBVIOUS
    <2>2. l \in LoopStates /\ l.pc # "off"
      BY <1>1, <2>1 DEF LoopStates
    <2>3. loop' = [loop EXCEPT ![g] = l]
      BY <1>1, <1>2, <2>1 DEF Goes
    <2>4. QED
      BY <2>2, <2>3
  <1>3. faults \in 0 .. MaxFaults
    BY DEF AgTyped, AgTypeOK
  <1>4. ASSUME Fault
        PROVE  faults' \in 0 .. MaxFaults
    BY <1>3, <1>4, AgentLoopAssumption DEF Fault
  <1>5. CASE Dial(g)
    <2>1. PICK c \in Links : loop' = [loop EXCEPT ![g] = [pc |-> "reply", link |-> c]]
      BY <1>5 DEF Dial
    <2>2. PICK l : l = [pc |-> "reply", link |-> c]
      OBVIOUS
    <2>3. l \in LoopStates /\ l.pc # "off" /\ loop' = [loop EXCEPT ![g] = l]
      BY <2>1, <2>2 DEF LoopStates
    <2>4. QED
      BY <1>3, <1>5, <2>3 DEF Dial, At, Around
  <1>6. CASE DialRefused(g)
    <2>1. PICK l : l = [pc |-> "backoff", link |-> NoLink]
      OBVIOUS
    <2>2. l \in LoopStates /\ l.pc # "off"
      BY <2>1 DEF LoopStates
    <2>3. loop' = [loop EXCEPT ![g] = l]
      BY <1>6, <2>1 DEF DialRefused
    <2>4. QED
      BY <1>3, <1>6, <2>2, <2>3 DEF DialRefused, At, Around
  <1>7. CASE Accepted(g)
    <2>1. PICK l : l = [pc |-> "capturer", link |-> NoLink]
      OBVIOUS
    <2>2. l \in LoopStates /\ l.pc # "off"
      BY <2>1 DEF LoopStates
    <2>3. loop' = [loop EXCEPT ![g] = l]
      BY <1>7, <2>1 DEF Accepted
    <2>4. QED
      BY <1>3, <1>7, <2>2, <2>3 DEF Accepted, At, Around
  <1>8. CASE LoopEnds(g) \/ CapturerReady(g)
    BY <1>2, <1>3, <1>8 DEF LoopEnds, CapturerReady, At, Around
  <1>9. CASE DialFails(g) \/ CapturerFails(g)
    BY <1>2, <1>4, <1>9 DEF DialFails, CapturerFails, At, Around
  <1>10. CASE FrameFails(g) \/ CaptureStopped(g)
    BY <1>2, <1>3, <1>10 DEF FrameFails, CaptureStopped, Cleanup, At, Around
  <1>11. CASE CaptureBreaks(g)
    BY <1>2, <1>4, <1>11 DEF CaptureBreaks, Cleanup, At, Around
  <1>12. CASE Backoff(g)
    <2>1. Goes(g, "advance") \/ Goes(g, "top")
      BY <1>12 DEF Backoff
    <2>2. QED
      BY <1>2, <1>3, <1>12, <2>1 DEF Backoff, At
  <1>13. CASE BackoffAdvances(g)
    BY <1>2, <1>3, <1>13 DEF BackoffAdvances, At, Around
  <1>14. QED
    BY <1>5, <1>6, <1>7, <1>8, <1>9, <1>10, <1>11, <1>12, <1>13 DEF LoopMoves, RunStep

LEMMA AgTypedKeeps == AgTyped /\ [AgNext]_agVars => AgTyped'
  <1> SUFFICES ASSUME AgTyped, [AgNext]_agVars
               PROVE  AgTyped'
    OBVIOUS
  <1>types. /\ trayAgent \in 0 .. MaxAgents /\ agents \in 0 .. MaxAgents
        /\ caller \in [Callers -> {"idle", "stop", "restart", "start"}]
        /\ stopped \subseteq AgentNos
        /\ aconn \in [AgentNos -> Links \cup {NoLink}]
        /\ slot \in Links \cup {NoLink}
        /\ backoffIdx \in Nat /\ faults \in 0 .. MaxFaults /\ calls \in 0 .. MaxCalls
        /\ loop \in [AgentNos -> LoopStates] /\ link \in [Links -> LinkStates]
    BY DEF AgTyped, AgTypeOK
  <1>typed. ASSUME /\ trayAgent' \in 0 .. MaxAgents /\ agents' \in 0 .. MaxAgents
               /\ caller' \in [Callers -> {"idle", "stop", "restart", "start"}]
               /\ stopped' \subseteq AgentNos
               /\ aconn' \in [AgentNos -> Links \cup {NoLink}]
               /\ slot' \in Links \cup {NoLink}
               /\ backoffIdx' \in Nat /\ faults' \in 0 .. MaxFaults /\ calls' \in 0 .. MaxCalls
               /\ loop' \in [AgentNos -> LoopStates] /\ link' \in [Links -> LinkStates]
        PROVE  AgTyped'
    <2>1. \A g \in AgentNos : loop'[g] \in LoopStates
      BY <1>typed
    <2>2. \A c \in Links : link'[c] \in LinkStates
      BY <1>typed
    <2>3. QED
      BY <1>typed, <2>1, <2>2 DEF AgTyped, AgTypeOK, LoopStates, LinkStates
  <1>starts. ASSUME NEW g \in AgentNos
        PROVE  [loop EXCEPT ![g].pc = "top"] \in [AgentNos -> LoopStates]
    <2>1. PICK l : l = [loop[g] EXCEPT !.pc = "top"]
      OBVIOUS
    <2>2. l \in LoopStates
      BY <1>types, <2>1 DEF LoopStates
    <2>3. [loop EXCEPT ![g].pc = "top"] = [loop EXCEPT ![g] = l]
      BY <1>types, <2>1
    <2>4. QED
      BY <1>types, <2>2, <2>3
  <1>1. CASE OnTrayReady
    <2>1. 1 \in AgentNos /\ 1 \in 0 .. MaxAgents
      BY AgentLoopAssumption DEF AgentNos
    <2>2. loop' \in [AgentNos -> LoopStates]
      BY <1>1, <1>starts, <2>1 DEF OnTrayReady
    <2>3. QED
      BY <1>1, <1>types, <1>typed, <2>1, <2>2 DEF OnTrayReady
  <1>2. ASSUME NEW k \in Callers, NEW what \in {"start", "stop", "restart"}, Call(k, what)
        PROVE  AgTyped'
    <2>1. calls' \in 0 .. MaxCalls
      BY <1>2, <1>types, AgentLoopAssumption DEF Call
    <2>2. caller' \in [Callers -> {"idle", "stop", "restart", "start"}]
      BY <1>2, <1>types DEF Call, CallerTo
    <2>3. QED
      BY <1>2, <1>types, <1>typed, <2>1, <2>2 DEF Call
  <1>3. ASSUME NEW k \in Callers, StartAgent(k)
        PROVE  AgTyped'
    <2>1. caller' \in [Callers -> {"idle", "stop", "restart", "start"}]
      BY <1>3, <1>types DEF StartAgent, CallerTo
    <2>2. UNCHANGED <<calls, stopped, aconn, link, slot, backoffIdx, overlapped, crashed, faults>>
      BY <1>3 DEF StartAgent
    <2>3. CASE trayAgent # 0
      BY <1>3, <1>types, <1>typed, <2>1, <2>2, <2>3 DEF StartAgent
    <2>4. CASE trayAgent = 0
      <3>1. /\ agents < MaxAgents /\ agents' = agents + 1 /\ trayAgent' = agents + 1
            /\ loop' = [loop EXCEPT ![agents + 1].pc = "top"]
        BY <1>3, <2>4 DEF StartAgent
      <3>2. agents + 1 \in AgentNos /\ agents + 1 \in 0 .. MaxAgents
        BY <1>types, <3>1, AgentLoopAssumption DEF AgentNos
      <3>3. loop' \in [AgentNos -> LoopStates]
        BY <1>starts, <3>1, <3>2
      <3>4. QED
        BY <1>types, <1>typed, <2>1, <2>2, <3>1, <3>2, <3>3
    <2>5. QED
      BY <2>3, <2>4
  <1>4. ASSUME NEW k \in Callers, StopAgent(k)
        PROVE  AgTyped'
    <2>1. caller' \in [Callers -> {"idle", "stop", "restart", "start"}]
      BY <1>4, <1>types DEF StopAgent, CallerTo
    <2>2. /\ stopped' = stopped \cup ({trayAgent} \ {0}) /\ trayAgent' = 0
          /\ UNCHANGED <<calls, agents, loop, slot, backoffIdx, overlapped, crashed, faults>>
      BY <1>4 DEF StopAgent
    <2>3. stopped' \subseteq AgentNos /\ trayAgent' \in 0 .. MaxAgents
      BY <1>types, <2>2, AgentLoopAssumption DEF AgentNos
    <2>4. CASE trayAgent = 0
      BY <1>4, <1>types, <1>typed, <2>1, <2>2, <2>3, <2>4 DEF StopAgent
    <2>5. CASE trayAgent # 0
      <3>1. trayAgent \in AgentNos /\ CloseConn(trayAgent)
        BY <1>4, <1>types, <2>5 DEF StopAgent, AgentNos
      <3>2. aconn' \in [AgentNos -> Links \cup {NoLink}] /\ link' \in [Links -> LinkStates]
        BY <3>1, CloseConnLeaves
      <3>3. QED
        BY <1>types, <1>typed, <2>1, <2>2, <2>3, <3>2
    <2>6. QED
      BY <2>4, <2>5
  <1>5. ASSUME NEW c \in Links, LinkDrops(c)
        PROVE  AgTyped'
    <2>1. link' \in [Links -> LinkStates]
      BY <1>5, <1>types, LinksTyped DEF LinkDrops
    <2>2. faults' \in 0 .. MaxFaults
      BY <1>5, <1>types, AgentLoopAssumption DEF LinkDrops, Fault
    <2>3. QED
      BY <1>5, <1>types, <1>typed, <2>1, <2>2 DEF LinkDrops
  <1>6. ASSUME NEW c \in Links, RelayAnswers(c)
        PROVE  AgTyped'
    <2>1. link' \in [Links -> LinkStates]
      BY <1>6, <1>types, LinksTyped DEF RelayAnswers
    <2>2. QED
      BY <1>6, <1>types, <1>typed, <2>1 DEF RelayAnswers
  <1>7. ASSUME NEW c \in Links, RelayLeaves(c)
        PROVE  AgTyped'
    <2>1. link' \in [Links -> LinkStates]
      BY <1>7, <1>types, LinksTyped DEF RelayLeaves
    <2>2. QED
      BY <1>7, <1>types, <1>typed, <2>1 DEF RelayLeaves
  <1>8. ASSUME NEW g \in AgentNos, LoopMoves(g)
        PROVE  AgTyped'
    <2>1. /\ loop' \in [AgentNos -> LoopStates] /\ faults' \in 0 .. MaxFaults
          /\ UNCHANGED <<trayAgent, caller, calls, agents, stopped, slot>>
      BY <1>8, <1>types, LoopSteps
    <2>2. ASSUME /\ aconn' \in [AgentNos -> Links \cup {NoLink}]
                 /\ link' \in [Links -> LinkStates] /\ backoffIdx' \in Nat
          PROVE  AgTyped'
      BY <1>types, <1>typed, <2>1, <2>2
    <2>3. CASE LoopEnds(g) \/ DialFails(g) \/ CapturerReady(g)
      BY <1>types, <2>2, <2>3 DEF LoopEnds, DialFails, CapturerReady
    <2>4. CASE Dial(g)
      <3>1. PICK c : link' = [link EXCEPT ![c] = [of |-> g, open |-> TRUE, up |-> TRUE, relay |-> "new"]]
        BY <2>4 DEF Dial
      <3>2. [of |-> g, open |-> TRUE, up |-> TRUE, relay |-> "new"] \in LinkStates
        BY DEF LinkStates, AgentNos
      <3>3. link' \in [Links -> LinkStates]
        BY <1>types, <3>1, <3>2
      <3>4. QED
        BY <1>types, <2>2, <2>4, <3>3 DEF Dial
    <2>5. CASE DialRefused(g)
      <3>1. link' \in [Links -> LinkStates]
        <4>1. PICK c : c = loop[g].link
          OBVIOUS
        <4>2. link' = [link EXCEPT ![c] = Closed(c)]
          BY <2>5, <4>1 DEF DialRefused
        <4>3. c \in Links => Closed(c) \in LinkStates
          BY LinksTyped
        <4>4. QED
          BY <1>types, <4>2, <4>3
      <3>2. QED
        BY <1>types, <2>2, <2>5, <3>1 DEF DialRefused
    <2>6. CASE Accepted(g)
      <3>1. loop[g].link \in Links \cup {NoLink}
        BY <1>types DEF LoopStates
      <3>2. aconn' \in [AgentNos -> Links \cup {NoLink}]
        BY <1>types, <2>6, <3>1 DEF Accepted
      <3>3. QED
        BY <1>types, <2>2, <2>6, <3>2 DEF Accepted
    <2>7. CASE CapturerFails(g) \/ FrameFails(g) \/ CaptureStopped(g) \/ CaptureBreaks(g)
      <3>1. CloseConn(g) /\ backoffIdx' = backoffIdx
        BY <2>7 DEF CapturerFails, FrameFails, CaptureStopped, CaptureBreaks, Cleanup
      <3>2. QED
        BY <1>types, <2>2, <3>1, CloseConnLeaves
    <2>8. CASE Backoff(g)
      BY <1>types, <2>2, <2>8 DEF Backoff
    <2>9. CASE BackoffAdvances(g)
      BY <1>types, <2>2, <2>9 DEF BackoffAdvances
    <2>10. QED
      BY <1>8, <2>3, <2>4, <2>5, <2>6, <2>7, <2>8, <2>9 DEF LoopMoves, RunStep
  <1>9. CASE UNCHANGED agVars
    BY <1>9, <1>types, <1>typed DEF agVars
  <1>10. QED
    BY <1>1, <1>2, <1>3, <1>4, <1>5, <1>6, <1>7, <1>8, <1>9 DEF AgNext, CallerStep, LoopMoves

LEMMA AgNumberedKeeps == AgTyped /\ AgNumbered /\ [AgNext]_agVars => AgNumbered'
  <1> SUFFICES ASSUME AgTyped, AgNumbered, [AgNext]_agVars
               PROVE  AgNumbered'
    OBVIOUS
  <1>1. /\ trayAgent \in 0 .. MaxAgents /\ agents \in 0 .. MaxAgents
        /\ loop \in [AgentNos -> LoopStates]
    BY DEF AgTyped, AgTypeOK
  <1>2. CASE OnTrayReady
    BY <1>1, <1>2, AgentLoopAssumption DEF OnTrayReady, AgNumbered, OneAgentRuns, AgentNos
  <1>3. ASSUME NEW k \in Callers, StartAgent(k)
        PROVE  AgNumbered'
    <2>1. CASE trayAgent # 0
      BY <1>3, <2>1 DEF StartAgent, AgNumbered, OneAgentRuns
    <2>2. CASE trayAgent = 0
      <3>1. /\ agents' = agents + 1 /\ trayAgent' = agents + 1
            /\ loop' = [loop EXCEPT ![agents + 1].pc = "top"] /\ stopped' = stopped
        BY <1>3, <2>2 DEF StartAgent
      <3>2. \A g \in AgentNos : g > agents + 1 => loop'[g] = loop[g]
        BY <1>1, <3>1
      <3>3. \A g \in 1 .. agents + 1 : g \in 1 .. agents \/ g = agents + 1
        BY <1>1
      <3>4. \A g \in 1 .. agents : g \in stopped
        BY <1>1, <2>2 DEF AgNumbered, OneAgentRuns
      <3>5. QED
        BY <1>1, <3>1, <3>2, <3>3, <3>4, AgentLoopAssumption DEF AgNumbered, OneAgentRuns, AgentNos
    <2>3. QED
      BY <2>1, <2>2
  <1>4. ASSUME NEW k \in Callers, StopAgent(k)
        PROVE  AgNumbered'
    BY <1>1, <1>4 DEF StopAgent, AgNumbered, OneAgentRuns
  <1>5. ASSUME NEW g \in AgentNos, LoopMoves(g)
        PROVE  AgNumbered'
    <2>1. PICK l \in LoopStates : l.pc # "off" /\ loop' = [loop EXCEPT ![g] = l]
      BY <1>5, LoopSteps
    <2>2. loop[g].pc # "off" /\ UNCHANGED <<trayAgent, agents, stopped>>
      BY <1>5, LoopSteps
    <2>3. QED
      BY <1>1, <2>1, <2>2 DEF AgNumbered, OneAgentRuns
  <1>6. ASSUME UNCHANGED <<trayAgent, agents, loop, stopped>>
        PROVE  AgNumbered'
    BY <1>6 DEF AgNumbered, OneAgentRuns
  <1>7. QED
    BY <1>2, <1>3, <1>4, <1>5, <1>6
       DEF AgNext, CallerStep, Call, LinkDrops, RelayAnswers, RelayLeaves, LoopMoves, agVars

LEMMA AgHeldKeeps == AgTyped /\ AgNumbered /\ AgHeld /\ [AgNext]_agVars => AgHeld'
  <1> SUFFICES ASSUME AgTyped, AgNumbered, AgHeld, [AgNext]_agVars
               PROVE  AgHeld'
    OBVIOUS
  <1>1. /\ trayAgent \in 0 .. MaxAgents /\ agents \in 0 .. MaxAgents
        /\ aconn \in [AgentNos -> Links \cup {NoLink}]
        /\ loop \in [AgentNos -> LoopStates] /\ link \in [Links -> LinkStates]
    BY DEF AgTyped, AgTypeOK
  <1>2. ASSUME NEW g \in AgentNos, loop[g].pc = "off",
               loop' = [loop EXCEPT ![g].pc = "top"], UNCHANGED <<aconn, link>>
        PROVE  AgHeld'
    <2>1. loop'[g].pc = "top" /\ \A h \in AgentNos : h # g => loop'[h] = loop[h]
      BY <1>1, <1>2 DEF LoopStates
    <2>2. QED
      BY <1>1, <1>2, <2>1 DEF AgHeld
  <1>3. CASE OnTrayReady
    <2>1. 1 \in AgentNos /\ 1 > agents
      BY <1>3, AgentLoopAssumption DEF OnTrayReady, AgentNos
    <2>2. loop[1].pc = "off"
      BY <2>1 DEF AgNumbered
    <2>3. QED
      BY <1>2, <1>3, <2>1, <2>2 DEF OnTrayReady
  <1>4. ASSUME NEW k \in Callers, StartAgent(k)
        PROVE  AgHeld'
    <2>1. CASE trayAgent # 0
      BY <1>4, <2>1 DEF StartAgent, AgHeld
    <2>2. CASE trayAgent = 0
      <3>1. /\ agents < MaxAgents /\ loop' = [loop EXCEPT ![agents + 1].pc = "top"]
            /\ UNCHANGED <<aconn, link>>
        BY <1>4, <2>2 DEF StartAgent
      <3>2. agents + 1 \in AgentNos /\ agents + 1 > agents
        BY <1>1, <3>1, AgentLoopAssumption DEF AgentNos
      <3>3. loop[agents + 1].pc = "off"
        BY <3>2 DEF AgNumbered
      <3>4. QED
        BY <1>2, <3>1, <3>2, <3>3
    <2>3. QED
      BY <2>1, <2>2
  <1>5. ASSUME NEW k \in Callers, StopAgent(k)
        PROVE  AgHeld'
    <2>1. loop' = loop
      BY <1>5 DEF StopAgent
    <2>2. CASE trayAgent = 0
      BY <1>5, <2>1, <2>2 DEF StopAgent, AgHeld
    <2>3. CASE trayAgent # 0
      <3>1. trayAgent \in AgentNos /\ CloseConn(trayAgent)
        BY <1>1, <1>5, <2>3 DEF StopAgent, AgentNos
      <3>2. /\ aconn' = [aconn EXCEPT ![trayAgent] = NoLink]
            /\ \A c \in Links : link'[c].open => link'[c] = link[c] /\ c # aconn[trayAgent]
        BY <3>1, CloseConnLeaves
      <3>3. QED
        BY <1>1, <2>1, <3>1, <3>2 DEF AgHeld
    <2>4. QED
      BY <2>2, <2>3
  <1>6. ASSUME NEW c \in Links, LinkDrops(c) \/ RelayAnswers(c) \/ RelayLeaves(c)
        PROVE  AgHeld'
    <2>1. UNCHANGED <<loop, aconn>>
      BY <1>6 DEF LinkDrops, RelayAnswers, RelayLeaves
    <2>2. \A d \in Links : d # c => link'[d] = link[d]
      BY <1>1, <1>6 DEF LinkDrops, RelayAnswers, RelayLeaves
    <2>3. link'[c].open => link[c].open /\ link'[c].of = link[c].of
      <3>1. PICK l : l = link[c]
        OBVIOUS
      <3>2. l \in LinkStates
        BY <1>1, <3>1
      <3>3. CASE LinkDrops(c)
        <4>1. link'[c] = [l EXCEPT !.up = FALSE]
          BY <1>1, <3>1, <3>3 DEF LinkDrops
        <4>2. QED
          BY <3>1, <3>2, <4>1 DEF LinkStates
      <3>4. CASE RelayAnswers(c)
        <4>1. PICK r : link'[c] = [l EXCEPT !.relay = r]
          BY <1>1, <3>1, <3>4 DEF RelayAnswers
        <4>2. QED
          BY <3>1, <3>2, <4>1 DEF LinkStates
      <3>5. CASE RelayLeaves(c)
        <4>1. link'[c] = IF l.open THEN [l EXCEPT !.relay = "gone"] ELSE Unused
          BY <1>1, <3>1, <3>5 DEF RelayLeaves
        <4>2. QED
          BY <3>1, <3>2, <4>1 DEF LinkStates, Unused
      <3>6. QED
        BY <1>6, <3>3, <3>4, <3>5
    <2>4. QED
      BY <1>1, <2>1, <2>2, <2>3 DEF AgHeld
  <1>7. ASSUME NEW g \in AgentNos, LoopMoves(g)
        PROVE  AgHeld'
    <2>1. PICK l \in LoopStates : l.pc # "off" /\ loop' = [loop EXCEPT ![g] = l]
      BY <1>7, LoopSteps
    <2>2. loop'[g] = l /\ \A h \in AgentNos : h # g => loop'[h] = loop[h]
      BY <1>1, <2>1
    <2>3. CASE \/ LoopEnds(g) \/ DialFails(g) \/ CapturerReady(g)
               \/ Backoff(g) \/ BackoffAdvances(g)
      <3>1. /\ UNCHANGED <<aconn, link>> /\ loop[g].pc # "reply"
            /\ loop'[g].pc \in {"capturer", "capture"} \/ loop[g].pc \notin {"capturer", "capture"}
        BY <1>1, <2>3 DEF LoopEnds, DialFails, CapturerReady, Backoff, BackoffAdvances, At, Goes, LoopStates
      <3>2. QED
        BY <1>1, <2>2, <3>1 DEF AgHeld
    <2>4. CASE Dial(g)
      <3>1. PICK c : c = CHOOSE d \in Links : link[d] = Unused
        OBVIOUS
      <3>2. c \in Links /\ link[c] = Unused
        BY <2>4, <3>1 DEF Dial
      <3>3. /\ loop[g].pc = "top" /\ loop'[g] = [pc |-> "reply", link |-> c] /\ aconn' = aconn
            /\ link' = [link EXCEPT ![c] = [of |-> g, open |-> TRUE, up |-> TRUE, relay |-> "new"]]
        BY <1>1, <2>4, <3>1 DEF Dial, At, Around
      <3>4. aconn[g] = NoLink
        BY <3>3 DEF AgHeld
      <3>5. link'[c].of = g /\ \A d \in Links : d # c => link'[d] = link[d]
        BY <1>1, <3>2, <3>3
      <3>6. loop'[g].pc = "reply" /\ loop'[g].link = c
        BY <3>3
      <3>7. \A h \in AgentNos : loop'[h].pc \in {"capturer", "capture"} \/ aconn'[h] = NoLink
        BY <2>2, <3>3, <3>4 DEF AgHeld
      <3>8. ASSUME NEW d \in Links, link'[d].open
            PROVE  LET h == link'[d].of
                   IN  h \in AgentNos /\ (aconn'[h] = d \/ (loop'[h].pc = "reply" /\ loop'[h].link = d))
        <4>1. CASE d = c
          BY <3>5, <3>6, <4>1
        <4>2. CASE d # c
          BY <2>2, <3>3, <3>5, <3>8, <4>2 DEF AgHeld
        <4>3. QED
          BY <4>1, <4>2
      <3>9. QED
        BY <3>7, <3>8 DEF AgHeld
    <2>5. CASE DialRefused(g)
      <3>1. PICK c : c = loop[g].link
        OBVIOUS
      <3>2. /\ loop[g].pc = "reply" /\ loop'[g].pc = "backoff" /\ aconn' = aconn
            /\ link' = [link EXCEPT ![c] = Closed(c)]
        BY <1>1, <2>5, <3>1 DEF DialRefused, At, Around
      <3>3. \A d \in Links : link'[d].open => link'[d] = link[d] /\ d # c
        BY <1>1, <3>2, LinksTyped
      <3>4. QED
        BY <1>1, <2>2, <3>1, <3>2, <3>3 DEF AgHeld
    <2>6. CASE Accepted(g)
      <3>1. PICK c : c = loop[g].link
        OBVIOUS
      <3>2. /\ loop[g].pc = "reply" /\ loop'[g].pc = "capturer" /\ link' = link
            /\ aconn' = [aconn EXCEPT ![g] = c]
        BY <1>1, <2>6, <3>1 DEF Accepted, At, Around
      <3>3. aconn[g] = NoLink
        BY <3>2 DEF AgHeld
      <3>4. aconn'[g] = c /\ \A h \in AgentNos : h # g => aconn'[h] = aconn[h]
        BY <1>1, <3>2
      <3>5. \A d \in Links : d # NoLink
        BY AgentLoopAssumption DEF NoLink
      <3>6. QED
        BY <2>2, <3>1, <3>2, <3>3, <3>4, <3>5 DEF AgHeld
    <2>7. CASE CapturerFails(g) \/ FrameFails(g) \/ CaptureStopped(g) \/ CaptureBreaks(g)
      <3>1. CloseConn(g) /\ loop[g].pc \in {"capturer", "capture"}
        BY <2>7 DEF CapturerFails, FrameFails, CaptureStopped, CaptureBreaks, Cleanup, At
      <3>2. /\ aconn' = [aconn EXCEPT ![g] = NoLink]
            /\ \A c \in Links : link'[c].open => link'[c] = link[c] /\ c # aconn[g]
        BY <3>1, CloseConnLeaves
      <3>3. QED
        BY <1>1, <2>2, <3>1, <3>2 DEF AgHeld
    <2>8. QED
      BY <1>7, <2>3, <2>4, <2>5, <2>6, <2>7 DEF LoopMoves, RunStep
  <1>8. ASSUME UNCHANGED <<loop, aconn, link>>
        PROVE  AgHeld'
    BY <1>8 DEF AgHeld
  <1>9. QED
    BY <1>3, <1>4, <1>5, <1>6, <1>7, <1>8 DEF AgNext, CallerStep, Call, LoopMoves, agVars

LEMMA AgWaitsKeeps == AgTyped /\ AgNumbered /\ AgWaits /\ [AgNext]_agVars => AgWaits'
  <1> SUFFICES ASSUME AgTyped, AgNumbered, AgWaits, [AgNext]_agVars, ~ overlapped'
               PROVE  AgWaits'
    BY DEF AgWaits
  <1>1. /\ trayAgent \in 0 .. MaxAgents /\ agents \in 0 .. MaxAgents
        /\ loop \in [AgentNos -> LoopStates] /\ backoffIdx \in Nat /\ LastBackoff \in Nat
    BY AgentLoopAssumption DEF AgTyped, AgTypeOK
  <1>2. ~ overlapped
    BY DEF AgNext, CallerStep, OnTrayReady, Call, StartAgent, StopAgent, LinkDrops, RelayAnswers,
           RelayLeaves, RunStep, LoopEnds, Dial, DialFails, DialRefused, Accepted, CapturerFails,
           CapturerReady, FrameFails, CaptureBreaks, CaptureStopped, Cleanup, Backoff, BackoffAdvances,
           agVars
  <1>3. /\ ~ crashed /\ backoffIdx <= LastBackoff
        /\ \A g \in AgentNos : loop[g].pc = "advance" =>
              backoffIdx < LastBackoff /\ \A h \in AgentNos : loop[h].pc = "advance" => h = g
    BY <1>2 DEF AgWaits
  <1>4. ASSUME NEW g \in AgentNos, NEW pc, pc # "advance", Goes(g, pc)
        PROVE  \A h \in AgentNos : loop'[h].pc = "advance" => loop[h].pc = "advance" /\ h # g
    BY <1>1, <1>4 DEF Goes, LoopStates
  <1>5. ASSUME ~ crashed', backoffIdx' = backoffIdx,
               \A h \in AgentNos : loop'[h].pc = "advance" => loop[h].pc = "advance"
        PROVE  AgWaits'
    BY <1>3, <1>5 DEF AgWaits
  <1>6. CASE OnTrayReady
    <2>1. 1 \in AgentNos
      BY AgentLoopAssumption DEF AgentNos
    <2>2. Goes(1, "top") /\ UNCHANGED <<crashed, backoffIdx>>
      BY <1>6 DEF OnTrayReady, Goes
    <2>3. QED
      BY <1>3, <1>4, <1>5, <2>1, <2>2
  <1>7. ASSUME NEW k \in Callers, StartAgent(k)
        PROVE  AgWaits'
    <2>1. UNCHANGED <<crashed, backoffIdx>>
      BY <1>7 DEF StartAgent
    <2>2. CASE trayAgent # 0
      BY <1>3, <1>5, <1>7, <2>1, <2>2 DEF StartAgent
    <2>3. CASE trayAgent = 0
      <3>1. agents < MaxAgents /\ Goes(agents + 1, "top")
        BY <1>7, <2>3 DEF StartAgent, Goes
      <3>2. agents + 1 \in AgentNos
        BY <1>1, <3>1, AgentLoopAssumption DEF AgentNos
      <3>3. QED
        BY <1>3, <1>4, <1>5, <2>1, <3>1, <3>2
    <2>4. QED
      BY <2>2, <2>3
  <1>8. ASSUME NEW g \in AgentNos, LoopMoves(g)
        PROVE  AgWaits'
    <2>1. PICK l \in LoopStates : l.pc # "off" /\ loop' = [loop EXCEPT ![g] = l]
      BY <1>8, LoopSteps
    <2>2. loop'[g] = l /\ \A h \in AgentNos : h # g => loop'[h] = loop[h]
      BY <1>1, <2>1
    <2>3. CASE Accepted(g)
      <3>1. loop'[g].pc = "capturer" /\ backoffIdx' = 0 /\ crashed' = crashed
        BY <1>1, <2>3 DEF Accepted, Around
      <3>2. QED
        BY <1>1, <1>3, <2>2, <3>1 DEF AgWaits
    <2>4. CASE Backoff(g)
      <3>1. ~ crashed' /\ backoffIdx' = backoffIdx
        <4>1. ~ (backoffIdx > LastBackoff)
          BY <1>1, <1>3
        <4>2. QED
          BY <2>4, <4>1, Zenon DEF Backoff
      <3>2. CASE Advances
        <4>1. backoffIdx < LastBackoff
          BY <3>2 DEF Advances
        <4>2. \A h \in AgentNos : loop[h].pc # "advance"
          BY <2>4, <3>2 DEF Backoff
        <4>3. \A h \in AgentNos : loop'[h].pc = "advance" => h = g
          BY <2>2, <4>2
        <4>4. QED
          BY <1>3, <3>1, <4>1, <4>3 DEF AgWaits
      <3>3. CASE ~ Advances
        <4>1. Goes(g, "top")
          BY <2>4, <3>3 DEF Backoff
        <4>2. QED
          BY <1>3, <1>4, <1>5, <3>1, <4>1
      <3>4. QED
        BY <3>2, <3>3
    <2>5. CASE BackoffAdvances(g)
      <3>1. /\ loop[g].pc = "advance" /\ Goes(g, "top")
            /\ backoffIdx' = backoffIdx + 1 /\ crashed' = crashed
        BY <2>5 DEF BackoffAdvances, At, Around
      <3>2. backoffIdx < LastBackoff /\ \A h \in AgentNos : loop[h].pc = "advance" => h = g
        BY <1>3, <3>1
      <3>3. \A h \in AgentNos : loop'[h].pc # "advance"
        BY <1>4, <3>1, <3>2
      <3>4. QED
        BY <1>1, <1>3, <3>1, <3>2, <3>3 DEF AgWaits
    <2>6. CASE ~ (Accepted(g) \/ Backoff(g) \/ BackoffAdvances(g))
      <3>1. UNCHANGED <<crashed, backoffIdx>>
        BY <1>8, <2>6 DEF LoopMoves, RunStep, LoopEnds, Dial, DialFails, DialRefused, CapturerFails,
                          CapturerReady, FrameFails, CaptureBreaks, CaptureStopped, Cleanup, Around
      <3>2. l.pc # "advance"
        BY <1>1, <1>8, <2>2, <2>6
           DEF LoopMoves, RunStep, LoopEnds, Dial, DialFails, DialRefused, CapturerFails,
               CapturerReady, FrameFails, CaptureBreaks, CaptureStopped, Cleanup, Goes, LoopStates
      <3>3. QED
        BY <1>3, <1>5, <2>2, <3>1, <3>2
    <2>7. QED
      BY <2>3, <2>4, <2>5, <2>6
  <1>9. ASSUME UNCHANGED <<crashed, backoffIdx, loop>>
        PROVE  AgWaits'
    BY <1>3, <1>5, <1>9
  <1>10. QED
    BY <1>6, <1>7, <1>8, <1>9
       DEF AgNext, CallerStep, Call, StopAgent, LinkDrops, RelayAnswers, RelayLeaves, LoopMoves, agVars

LEMMA AgInitKeeps == AgInit => AgIInv
  <1> SUFFICES ASSUME AgInit
               PROVE  AgIInv
    OBVIOUS
  <1>1. [pc |-> "off", link |-> NoLink] \in LoopStates /\ Unused \in LinkStates
    BY AgentLoopAssumption DEF LoopStates, LinkStates, Unused
  <1>2. loop \in [AgentNos -> LoopStates] /\ link \in [Links -> LinkStates]
    BY <1>1 DEF AgInit
  <1>3. \A g \in AgentNos : loop[g] \in LoopStates
    BY <1>2
  <1>4. \A c \in Links : link[c] \in LinkStates
    BY <1>2
  <1>5. /\ trayAgent \in 0 .. MaxAgents /\ agents \in 0 .. MaxAgents
        /\ faults \in 0 .. MaxFaults /\ calls \in 0 .. MaxCalls /\ backoffIdx \in Nat
    BY AgentLoopAssumption DEF AgInit
  <1>6. AgTyped
    BY <1>2, <1>3, <1>4, <1>5 DEF AgInit, AgTyped, AgTypeOK, LoopStates, LinkStates
  <1>7. AgNumbered
    BY DEF AgInit, AgNumbered, OneAgentRuns
  <1>8. AgHeld
    BY DEF AgInit, AgHeld, Unused
  <1>9. AgWaits
    BY AgentLoopAssumption DEF AgInit, AgWaits
  <1>10. QED
    BY <1>6, <1>7, <1>8, <1>9 DEF AgIInv

LEMMA AgNextKeeps == AgIInv /\ [AgNext]_agVars => AgIInv'
  BY AgTypedKeeps, AgNumberedKeeps, AgHeldKeeps, AgWaitsKeeps DEF AgIInv

(* However the tray menu and the web UI call at once, every agent that was *)
(* started has its stop signal or is the one they can stop (tray.go,       *)
(* startAgent, stopAgent and restartAgent).                                *)
THEOREM OneAgentRunsHolds == AgSpec => []OneAgentRuns
  <1>1. AgIInv => OneAgentRuns
    BY DEF AgIInv, AgNumbered
  <1>2. QED
    BY <1>1, AgInitKeeps, AgNextKeeps, PTL DEF AgSpec

(* No open connection is forgotten: it is in a.conn or in the hands of     *)
(* connect, also when Stop came while connect waited (agent.go, Run).      *)
THEOREM NoForgottenLinkHolds == AgSpec => []NoForgottenLink
  <1>1. AgIInv => NoForgottenLink
    BY DEF AgIInv, AgHeld, NoForgottenLink
  <1>2. QED
    BY <1>1, AgInitKeeps, AgNextKeeps, PTL DEF AgSpec

(* The wait is looked up within backoffDurations, unless two loops         *)
(* advanced the one index they share at once (agent.go, backoff).          *)
THEOREM BackoffInRangeHolds == AgSpec => []BackoffInRange
  <1>1. AgIInv => BackoffInRange
    BY DEF AgIInv, AgWaits, BackoffInRange
  <1>2. QED
    BY <1>1, AgInitKeeps, AgNextKeeps, PTL DEF AgSpec

-----------------------------------------------------------------------------
(* Viewer streams.                                                         *)

Calls == [pc : {"off", "connect", "setup", "insert", "done"}, client : Clients \cup {NoClient}]
StreamsOf == [client : Clients \cup {NoClient}, cancelled : BOOLEAN]
Loops == [pc : {"off", "wait", "attempt", "setup", "ended"},
          client : Clients \cup {NoClient}, attempt : 1 .. MaxAttempts]

(* A call has a client only while it sets it up, a loop while it connects, *)
(* and the loop of a stream starts when it plays.                          *)
VsHands ==
    \A n \in StreamNos :
        /\ vsCall[n].pc # "setup" => vsCall[n].client = NoClient
        /\ vsLoop[n].pc # "setup" => vsLoop[n].client = NoClient
        /\ vsCall[n].pc \in {"off", "connect", "setup"} => vsLoop[n].pc = "off"

(* As long as nothing met a start: one start at a time, and then no stream *)
(* is in the map; a stream with a client, or one that connects again, is   *)
(* in the map or about to be.                                              *)
VsOrdered ==
    vsMet \/
    /\ \A n \in Starting : vsMapped = 0 /\ \A m \in Starting : m = n
    /\ \A n \in StreamNos :
          vsStream[n].client # NoClient \/ vsLoop[n].pc \in {"attempt", "setup"}
              => vsMapped = n \/ vsCall[n].pc = "insert"

VsIInv == VsTypeOK /\ VsHands /\ VsOrdered /\ NoSessionLost

(* LoopNext moves the loop on, and may cancel the stream.                  *)
LEMMA LoopNextMoves ==
  ASSUME VsTypeOK, NEW n \in StreamNos, LoopNext(n)
  PROVE  /\ vsLoop' \in [StreamNos -> Loops]
         /\ vsLoop'[n].pc \in {"attempt", "ended"} /\ vsLoop'[n].client = NoClient
         /\ \A m \in StreamNos : m # n => vsLoop'[m] = vsLoop[m]
         /\ vsStream' \in [StreamNos -> StreamsOf]
         /\ \A m \in StreamNos : vsStream'[m].client = vsStream[m].client
  <1>1. vsLoop \in [StreamNos -> Loops] /\ vsStream \in [StreamNos -> StreamsOf]
    BY DEF VsTypeOK, Loops, StreamsOf
  <1>2. PICK a : a = vsLoop[n].attempt
    OBVIOUS
  <1>3. a \in 1 .. MaxAttempts
    BY <1>1, <1>2 DEF Loops
  <1>4. CASE a < MaxAttempts
    <2>1. PICK l : l = [pc |-> "attempt", client |-> NoClient, attempt |-> a + 1]
      OBVIOUS
    <2>2. vsLoop' = [vsLoop EXCEPT ![n] = l] /\ vsStream' = vsStream
      BY <1>2, <1>4, <2>1 DEF LoopNext, LoopTo
    <2>3. l \in Loops /\ l.pc = "attempt" /\ l.client = NoClient
      BY <1>3, <1>4, <2>1, ViewerStreamsAssumption DEF Loops
    <2>4. QED
      BY <1>1, <2>2, <2>3
  <1>5. CASE ~ (a < MaxAttempts)
    <2>1. PICK l : l = [pc |-> "ended", client |-> NoClient, attempt |-> 1]
      OBVIOUS
    <2>2. /\ vsLoop' = [vsLoop EXCEPT ![n] = l]
          /\ vsStream' = [vsStream EXCEPT ![n].cancelled = TRUE]
      BY <1>2, <1>5, <2>1 DEF LoopNext, LoopTo
    <2>3. l \in Loops /\ l.pc = "ended" /\ l.client = NoClient
      BY <2>1, ViewerStreamsAssumption DEF Loops
    <2>4. PICK s : s = [vsStream[n] EXCEPT !.cancelled = TRUE]
      OBVIOUS
    <2>5. s \in StreamsOf /\ s.client = vsStream[n].client
      BY <1>1, <2>4 DEF StreamsOf
    <2>6. vsStream' = [vsStream EXCEPT ![n] = s]
      BY <1>1, <2>2, <2>4
    <2>7. QED
      BY <1>1, <2>2, <2>3, <2>5, <2>6
  <1>6. QED
    BY <1>4, <1>5

(* StopMapped takes the stream out of the map and closes what it played.   *)
LEMMA StopMappedStops ==
  ASSUME VsTypeOK, StopMapped
  PROVE  /\ vsMapped' = 0 /\ vsMet' \in BOOLEAN
         /\ vsMet' \/ (~ vsMet /\ Starting = {} /\ ~ Reconnecting(vsMapped))
         /\ vsStream' \in [StreamNos -> StreamsOf]
         /\ vsClient' \in [Clients -> {"unused", "up", "dropped"}]
         /\ \A m \in StreamNos : m # vsMapped => vsStream'[m] = vsStream[m]
         /\ vsMapped # 0 => vsMapped \in StreamNos /\ vsStream'[vsMapped].client = NoClient
         /\ \A c \in Clients : vsClient'[c] # "unused" =>
               /\ vsClient[c] # "unused"
               /\ ~ (vsMapped # 0 /\ vsStream[vsMapped].client = c)
  <1>1. /\ vsMapped' = 0
        /\ vsMet' = (vsMet \/ Starting # {} \/ Reconnecting(vsMapped))
    BY DEF StopMapped
  <1>2. vsMet \in BOOLEAN /\ vsMapped \in 0 .. MaxStreams
    BY DEF VsTypeOK
  <1>3. vsMet' \in BOOLEAN
    BY <1>1, <1>2, Zenon DEF Reconnecting
  <1>4. vsMet' \/ (~ vsMet /\ Starting = {} /\ ~ Reconnecting(vsMapped))
    BY <1>1, Zenon
  <1>5. /\ vsStream \in [StreamNos -> StreamsOf]
        /\ vsClient \in [Clients -> {"unused", "up", "dropped"}]
    BY DEF VsTypeOK, StreamsOf
  <1>6. CASE vsMapped = 0
    <2>1. UNCHANGED <<vsStream, vsClient>>
      BY <1>6 DEF StopMapped
    <2>2. QED
      BY <1>1, <1>3, <1>4, <1>5, <1>6, <2>1
  <1>7. CASE vsMapped # 0
    <2>1. vsMapped \in StreamNos
      BY <1>2, <1>7, ViewerStreamsAssumption DEF StreamNos
    <2>2. PICK s : s = [client |-> NoClient, cancelled |-> TRUE]
      OBVIOUS
    <2>3. s \in StreamsOf /\ s.client = NoClient
      BY <2>2 DEF StreamsOf
    <2>4. vsStream' = [vsStream EXCEPT ![vsMapped] = s]
      BY <1>7, <2>2 DEF StopMapped
    <2>5. PICK d : d = vsStream[vsMapped].client
      OBVIOUS
    <2>6. vsClient' = [c \in Clients |-> IF c = d THEN "unused" ELSE vsClient[c]]
      BY <1>7, <2>5 DEF StopMapped, Close
    <2>7. QED
      BY <1>1, <1>3, <1>4, <1>5, <2>1, <2>3, <2>4, <2>5, <2>6
  <1>8. QED
    BY <1>6, <1>7

LEMMA VsNextKeeps == VsIInv /\ [VsNext]_vsVars => VsIInv'
  <1> SUFFICES ASSUME VsIInv, [VsNext]_vsVars
               PROVE  VsIInv'
    OBVIOUS
  <1>types. /\ vsMapped \in 0 .. MaxStreams
        /\ vsCall \in [StreamNos -> Calls] /\ vsStream \in [StreamNos -> StreamsOf]
        /\ vsLoop \in [StreamNos -> Loops]
        /\ vsClient \in [Clients -> {"unused", "up", "dropped"}]
        /\ vsDrops \in 0 .. MaxDrops /\ vsStops \in 0 .. MaxStops /\ vsMet \in BOOLEAN
    BY DEF VsIInv, VsTypeOK, Calls, StreamsOf, Loops
  <1>typed. ASSUME /\ vsMapped' \in 0 .. MaxStreams
               /\ vsCall' \in [StreamNos -> Calls] /\ vsStream' \in [StreamNos -> StreamsOf]
               /\ vsLoop' \in [StreamNos -> Loops]
               /\ vsClient' \in [Clients -> {"unused", "up", "dropped"}]
               /\ vsDrops' \in 0 .. MaxDrops /\ vsStops' \in 0 .. MaxStops /\ vsMet' \in BOOLEAN
        PROVE  VsTypeOK'
    BY <1>typed DEF VsTypeOK, Calls, StreamsOf, Loops
  <1>names. \A c \in Clients : c # NoClient
    BY ViewerStreamsAssumption DEF NoClient
  <1>callTo. ASSUME NEW n \in StreamNos, NEW p \in {"off", "connect", "setup", "insert", "done"},
               vsCall' = [vsCall EXCEPT ![n].pc = p]
        PROVE  /\ vsCall' \in [StreamNos -> Calls]
               /\ vsCall'[n].pc = p /\ vsCall'[n].client = vsCall[n].client
               /\ \A m \in StreamNos : m # n => vsCall'[m] = vsCall[m]
    <2>1. PICK r : r = [vsCall[n] EXCEPT !.pc = p]
      OBVIOUS
    <2>2. r \in Calls /\ r.pc = p /\ r.client = vsCall[n].client
      BY <1>types, <2>1 DEF Calls
    <2>3. vsCall' = [vsCall EXCEPT ![n] = r]
      BY <1>types, <1>callTo, <2>1
    <2>4. QED
      BY <1>types, <2>2, <2>3
  <1>callIs. ASSUME NEW n \in StreamNos, NEW p \in {"off", "connect", "setup", "insert", "done"},
               NEW c \in Clients \cup {NoClient},
               vsCall' = [vsCall EXCEPT ![n] = [pc |-> p, client |-> c]]
        PROVE  /\ vsCall' \in [StreamNos -> Calls]
               /\ vsCall'[n].pc = p /\ vsCall'[n].client = c
               /\ \A m \in StreamNos : m # n => vsCall'[m] = vsCall[m]
    <2>1. PICK r : r = [pc |-> p, client |-> c]
      OBVIOUS
    <2>2. r \in Calls /\ r.pc = p /\ r.client = c
      BY <2>1 DEF Calls
    <2>3. vsCall' = [vsCall EXCEPT ![n] = r]
      BY <1>callIs, <2>1
    <2>4. QED
      BY <1>types, <2>2, <2>3
  <1>loopTo. ASSUME NEW n \in StreamNos, NEW p \in {"wait", "attempt", "setup", "ended"},
               NEW c \in Clients \cup {NoClient}, NEW a \in 1 .. MaxAttempts, LoopTo(n, p, c, a)
        PROVE  /\ vsLoop' \in [StreamNos -> Loops]
               /\ vsLoop'[n].pc = p /\ vsLoop'[n].client = c
               /\ \A m \in StreamNos : m # n => vsLoop'[m] = vsLoop[m]
    <2>1. PICK r : r = [pc |-> p, client |-> c, attempt |-> a]
      OBVIOUS
    <2>2. r \in Loops /\ r.pc = p /\ r.client = c
      BY <2>1 DEF Loops
    <2>3. vsLoop' = [vsLoop EXCEPT ![n] = r]
      BY <1>loopTo, <2>1 DEF LoopTo
    <2>4. QED
      BY <1>types, <2>2, <2>3
  <1>opens. ASSUME NEW c \in Clients, ConnectH264(c)
        PROVE  /\ vsClient' \in [Clients -> {"unused", "up", "dropped"}]
               /\ \A d \in Clients : d # c => vsClient'[d] = vsClient[d]
    BY <1>types, <1>opens DEF ConnectH264
  <1>closes. ASSUME NEW d, vsClient' = Close({d})
        PROVE  /\ vsClient' \in [Clients -> {"unused", "up", "dropped"}]
               /\ \A c \in Clients : vsClient'[c] # "unused" => c # d /\ vsClient[c] # "unused"
    BY <1>types, <1>closes DEF Close
  <1>plays. ASSUME NEW n \in StreamNos, NEW c \in Clients \cup {NoClient},
               vsStream' = [vsStream EXCEPT ![n].client = c]
        PROVE  /\ vsStream' \in [StreamNos -> StreamsOf] /\ vsStream'[n].client = c
               /\ \A m \in StreamNos : m # n => vsStream'[m] = vsStream[m]
    <2>1. PICK s : s = [vsStream[n] EXCEPT !.client = c]
      OBVIOUS
    <2>2. s \in StreamsOf /\ s.client = c
      BY <1>types, <2>1 DEF StreamsOf
    <2>3. vsStream' = [vsStream EXCEPT ![n] = s]
      BY <1>types, <1>plays, <2>1
    <2>4. QED
      BY <1>types, <2>2, <2>3
  <1>cancels. ASSUME NEW n \in StreamNos, NEW b \in BOOLEAN,
               vsStream' = [vsStream EXCEPT ![n].cancelled = b]
        PROVE  /\ vsStream' \in [StreamNos -> StreamsOf]
               /\ \A m \in StreamNos : vsStream'[m].client = vsStream[m].client
    <2>1. PICK s : s = [vsStream[n] EXCEPT !.cancelled = b]
      OBVIOUS
    <2>2. s \in StreamsOf /\ s.client = vsStream[n].client
      BY <1>types, <2>1 DEF StreamsOf
    <2>3. vsStream' = [vsStream EXCEPT ![n] = s]
      BY <1>types, <1>cancels, <2>1
    <2>4. QED
      BY <1>types, <2>2, <2>3
  <1>mapped. vsMapped # 0 => vsMapped \in StreamNos
    BY <1>types, ViewerStreamsAssumption DEF StreamNos
  <1>1. ASSUME NEW n \in StreamNos, StartChannelStream(n)
        PROVE  VsIInv'
    <2>1. /\ vsCall[n].pc = "off" /\ vsCall' = [vsCall EXCEPT ![n].pc = "connect"]
          /\ StopMapped /\ UNCHANGED <<vsLoop, vsDrops, vsStops>>
      BY <1>1 DEF StartChannelStream
    <2>2. /\ vsCall' \in [StreamNos -> Calls]
          /\ vsCall'[n].pc = "connect" /\ vsCall'[n].client = vsCall[n].client
          /\ \A m \in StreamNos : m # n => vsCall'[m] = vsCall[m]
      BY <1>callTo, <2>1
    <2>3. /\ vsMapped' = 0 /\ vsMet' \in BOOLEAN
          /\ vsMet' \/ (~ vsMet /\ Starting = {} /\ ~ Reconnecting(vsMapped))
          /\ vsStream' \in [StreamNos -> StreamsOf]
          /\ vsClient' \in [Clients -> {"unused", "up", "dropped"}]
          /\ \A m \in StreamNos : m # vsMapped => vsStream'[m] = vsStream[m]
          /\ vsMapped # 0 => vsMapped \in StreamNos /\ vsStream'[vsMapped].client = NoClient
          /\ \A c \in Clients : vsClient'[c] # "unused" =>
                /\ vsClient[c] # "unused"
                /\ ~ (vsMapped # 0 /\ vsStream[vsMapped].client = c)
      BY <2>1, StopMappedStops DEF VsIInv
    <2>4. VsTypeOK'
      <3>1. vsMapped' \in 0 .. MaxStreams
        BY <2>3, ViewerStreamsAssumption
      <3>2. QED
        BY <1>types, <1>typed, <2>1, <2>2, <2>3, <3>1
    <2>5. VsHands'
      BY <2>1, <2>2 DEF VsIInv, VsHands
    <2>6. CASE vsMet'
      BY <2>4, <2>5, <2>6 DEF VsIInv, VsOrdered, NoSessionLost
    <2>7. CASE ~ vsMet'
      <3>1. ~ vsMet /\ Starting = {} /\ ~ Reconnecting(vsMapped)
        BY <2>3, <2>7
      <3>2. \A m \in StreamNos : vsCall[m].pc \notin {"connect", "setup", "insert"}
        BY <3>1 DEF Starting
      <3>3. \A m \in StreamNos : m # n => vsCall'[m].pc \notin {"connect", "setup", "insert"}
        BY <2>2, <3>2
      <3>4. \A m \in StreamNos : vsStream'[m].client # NoClient => m # vsMapped
        BY <1>types, <2>3, ViewerStreamsAssumption DEF StreamNos
      <3>5. \A m \in StreamNos : vsStream'[m].client = NoClient
        BY <2>3, <3>1, <3>2, <3>4 DEF VsIInv, VsOrdered
      <3>6. \A m \in StreamNos : vsLoop'[m].pc \notin {"attempt", "setup"}
        BY <2>1, <3>1, <3>2, ViewerStreamsAssumption DEF VsIInv, VsOrdered, Reconnecting, StreamNos
      <3>7. VsOrdered'
        BY <2>3, <3>3, <3>5, <3>6 DEF VsOrdered, Starting
      <3>8. NoSessionLost'
        BY <1>names, <2>1, <2>2, <2>3, <3>1, <3>2 DEF VsIInv, NoSessionLost
      <3>9. QED
        BY <2>4, <2>5, <3>7, <3>8 DEF VsIInv
    <2>8. QED
      BY <2>6, <2>7
  <1>2. CASE StopStreams
    <2>1. /\ vsStops < MaxStops /\ vsStops' = vsStops + 1
          /\ StopMapped /\ UNCHANGED <<vsCall, vsLoop, vsDrops>>
      BY <1>2 DEF StopStreams
    <2>2. vsStops' \in 0 .. MaxStops
      BY <1>types, <2>1, ViewerStreamsAssumption
    <2>3. /\ vsMapped' = 0 /\ vsMet' \in BOOLEAN
          /\ vsMet' \/ (~ vsMet /\ Starting = {} /\ ~ Reconnecting(vsMapped))
          /\ vsStream' \in [StreamNos -> StreamsOf]
          /\ vsClient' \in [Clients -> {"unused", "up", "dropped"}]
          /\ \A m \in StreamNos : m # vsMapped => vsStream'[m] = vsStream[m]
          /\ vsMapped # 0 => vsMapped \in StreamNos /\ vsStream'[vsMapped].client = NoClient
          /\ \A c \in Clients : vsClient'[c] # "unused" =>
                /\ vsClient[c] # "unused"
                /\ ~ (vsMapped # 0 /\ vsStream[vsMapped].client = c)
      BY <2>1, StopMappedStops DEF VsIInv
    <2>4. VsTypeOK'
      <3>1. vsMapped' \in 0 .. MaxStreams
        BY <2>3, ViewerStreamsAssumption
      <3>2. QED
        BY <1>types, <1>typed, <2>1, <2>2, <2>3, <3>1
    <2>5. VsHands'
      BY <2>1 DEF VsIInv, VsHands
    <2>6. CASE vsMet'
      BY <2>4, <2>5, <2>6 DEF VsIInv, VsOrdered, NoSessionLost
    <2>7. CASE ~ vsMet'
      <3>1. ~ vsMet /\ Starting = {} /\ ~ Reconnecting(vsMapped)
        BY <2>3, <2>7
      <3>2. \A m \in StreamNos : vsCall[m].pc \notin {"connect", "setup", "insert"}
        BY <3>1 DEF Starting
      <3>4. \A m \in StreamNos : vsStream'[m].client # NoClient => m # vsMapped
        BY <1>types, <2>3, ViewerStreamsAssumption DEF StreamNos
      <3>5. \A m \in StreamNos : vsStream'[m].client = NoClient
        BY <2>3, <3>1, <3>2, <3>4 DEF VsIInv, VsOrdered
      <3>6. \A m \in StreamNos : vsLoop'[m].pc \notin {"attempt", "setup"}
        BY <2>1, <3>1, <3>2, ViewerStreamsAssumption DEF VsIInv, VsOrdered, Reconnecting, StreamNos
      <3>7. VsOrdered'
        BY <2>1, <2>3, <3>2, <3>5, <3>6 DEF VsOrdered, Starting
      <3>8. NoSessionLost'
        BY <1>names, <2>1, <2>3, <3>1, <3>2 DEF VsIInv, NoSessionLost
      <3>9. QED
        BY <2>4, <2>5, <3>7, <3>8 DEF VsIInv
    <2>8. QED
      BY <2>6, <2>7
  <1>3. ASSUME NEW n \in StreamNos, StartConnects(n)
        PROVE  VsIInv'
    <2>1. vsCall[n].pc = "connect" /\ UNCHANGED <<vsMapped, vsStream, vsLoop, vsDrops, vsStops, vsMet>>
      BY <1>3 DEF StartConnects
    <2>2. vsCall[n].client = NoClient
      BY <2>1 DEF VsIInv, VsHands
    <2>3. ASSUME NEW c \in Clients, ConnectH264(c),
                 vsCall' = [vsCall EXCEPT ![n] = [pc |-> "setup", client |-> c]]
          PROVE  VsIInv'
      <3>1. /\ vsCall' \in [StreamNos -> Calls]
            /\ vsCall'[n].pc = "setup" /\ vsCall'[n].client = c
            /\ \A m \in StreamNos : m # n => vsCall'[m] = vsCall[m]
        BY <1>callIs, <2>3
      <3>2. /\ vsClient' \in [Clients -> {"unused", "up", "dropped"}]
            /\ \A d \in Clients : d # c => vsClient'[d] = vsClient[d]
        BY <1>opens, <2>3
      <3>3. VsTypeOK' /\ VsHands'
        BY <1>types, <1>typed, <2>1, <3>1, <3>2 DEF VsIInv, VsHands
      <3>4. VsOrdered'
        BY <2>1, <3>1 DEF VsIInv, VsOrdered, Starting
      <3>5. NoSessionLost'
        BY <1>names, <2>1, <2>2, <3>1, <3>2 DEF VsIInv, NoSessionLost
      <3>6. QED
        BY <3>3, <3>4, <3>5 DEF VsIInv
    <2>4. ASSUME vsCall' = [vsCall EXCEPT ![n].pc = "done"], UNCHANGED vsClient
          PROVE  VsIInv'
      <3>1. /\ vsCall' \in [StreamNos -> Calls]
            /\ vsCall'[n].pc = "done" /\ vsCall'[n].client = NoClient
            /\ \A m \in StreamNos : m # n => vsCall'[m] = vsCall[m]
        BY <1>callTo, <2>2, <2>4
      <3>2. VsTypeOK' /\ VsHands'
        BY <1>types, <1>typed, <2>1, <2>4, <3>1 DEF VsIInv, VsHands
      <3>3. VsOrdered'
        BY <2>1, <3>1 DEF VsIInv, VsOrdered, Starting
      <3>4. NoSessionLost'
        BY <1>names, <2>1, <2>2, <2>4, <3>1 DEF VsIInv, NoSessionLost
      <3>5. QED
        BY <3>2, <3>3, <3>4 DEF VsIInv
    <2>5. QED
      BY <1>3, <2>3, <2>4 DEF StartConnects
  <1>4. ASSUME NEW n \in StreamNos, StartFails(n)
        PROVE  VsIInv'
    <2>1. PICK d : d = vsCall[n].client
      OBVIOUS
    <2>2. /\ vsCall[n].pc = "setup" /\ vsClient' = Close({d})
          /\ vsCall' = [vsCall EXCEPT ![n] = [pc |-> "done", client |-> NoClient]]
          /\ UNCHANGED <<vsMapped, vsStream, vsLoop, vsDrops, vsStops, vsMet>>
      BY <1>4, <2>1 DEF StartFails
    <2>3. /\ vsClient' \in [Clients -> {"unused", "up", "dropped"}]
          /\ \A c \in Clients : vsClient'[c] # "unused" => c # d /\ vsClient[c] # "unused"
      BY <1>closes, <2>2
    <2>4. /\ vsCall' \in [StreamNos -> Calls]
          /\ vsCall'[n].pc = "done" /\ vsCall'[n].client = NoClient
          /\ \A m \in StreamNos : m # n => vsCall'[m] = vsCall[m]
      BY <1>callIs, <2>2
    <2>5. VsTypeOK' /\ VsHands'
      BY <1>types, <1>typed, <2>2, <2>3, <2>4 DEF VsIInv, VsHands
    <2>6. VsOrdered'
      BY <2>2, <2>4 DEF VsIInv, VsOrdered, Starting
    <2>7. NoSessionLost'
      <3>1. ASSUME ~ vsMet, NEW c \in Clients, vsClient'[c] # "unused"
            PROVE  \/ vsMapped # 0 /\ vsStream[vsMapped].client = c
                   \/ \E m \in StreamNos :
                         \/ vsCall[m].client = c \/ vsLoop[m].client = c
                         \/ vsCall[m].pc = "insert" /\ vsStream[m].client = c
        BY <2>3, <3>1 DEF VsIInv, NoSessionLost
      <3>2. ASSUME NEW c \in Clients, vsClient'[c] # "unused", NEW m \in StreamNos,
                   \/ vsCall[m].client = c \/ vsLoop[m].client = c
                   \/ vsCall[m].pc = "insert" /\ vsStream[m].client = c
            PROVE  \/ vsCall'[m].client = c \/ vsLoop'[m].client = c
                   \/ vsCall'[m].pc = "insert" /\ vsStream'[m].client = c
        BY <2>1, <2>2, <2>3, <2>4, <3>2
      <3>3. ASSUME ~ vsMet, NEW c \in Clients, vsClient'[c] # "unused"
            PROVE  \/ vsMapped' # 0 /\ vsStream'[vsMapped'].client = c
                   \/ \E m \in StreamNos :
                         \/ vsCall'[m].client = c \/ vsLoop'[m].client = c
                         \/ vsCall'[m].pc = "insert" /\ vsStream'[m].client = c
        <4>1. CASE vsMapped # 0 /\ vsStream[vsMapped].client = c
          BY <2>2, <4>1
        <4>2. CASE ~ (vsMapped # 0 /\ vsStream[vsMapped].client = c)
          BY <3>1, <3>2, <3>3, <4>2
        <4>3. QED
          BY <4>1, <4>2
      <3>4. QED
        BY <2>2, <3>3 DEF NoSessionLost
    <2>8. QED
      BY <2>5, <2>6, <2>7 DEF VsIInv
  <1>5. ASSUME NEW n \in StreamNos, StartPlays(n)
        PROVE  VsIInv'
    <2>1. PICK d : d = vsCall[n].client
      OBVIOUS
    <2>2. /\ vsCall[n].pc = "setup" /\ vsStream' = [vsStream EXCEPT ![n].client = d]
          /\ vsCall' = [vsCall EXCEPT ![n] = [pc |-> "insert", client |-> NoClient]]
          /\ vsLoop' = [vsLoop EXCEPT ![n].pc = "wait"]
          /\ UNCHANGED <<vsMapped, vsClient, vsDrops, vsStops, vsMet>>
      BY <1>5, <2>1 DEF StartPlays
    <2>3. d \in Clients \cup {NoClient}
      BY <1>types, <2>1 DEF Calls
    <2>4. /\ vsCall' \in [StreamNos -> Calls]
          /\ vsCall'[n].pc = "insert" /\ vsCall'[n].client = NoClient
          /\ \A m \in StreamNos : m # n => vsCall'[m] = vsCall[m]
      BY <1>callIs, <2>2
    <2>5. /\ vsStream' \in [StreamNos -> StreamsOf] /\ vsStream'[n].client = d
          /\ \A m \in StreamNos : m # n => vsStream'[m] = vsStream[m]
      BY <1>plays, <2>2, <2>3
    <2>6. /\ vsLoop' \in [StreamNos -> Loops]
          /\ vsLoop'[n].pc = "wait" /\ vsLoop'[n].client = vsLoop[n].client
          /\ \A m \in StreamNos : m # n => vsLoop'[m] = vsLoop[m]
      <3>1. PICK l : l = [vsLoop[n] EXCEPT !.pc = "wait"]
        OBVIOUS
      <3>2. l \in Loops /\ l.pc = "wait" /\ l.client = vsLoop[n].client
        BY <1>types, <3>1 DEF Loops
      <3>3. vsLoop' = [vsLoop EXCEPT ![n] = l]
        BY <1>types, <2>2, <3>1
      <3>4. QED
        BY <1>types, <3>2, <3>3
    <2>7. VsTypeOK'
      BY <1>types, <1>typed, <2>2, <2>4, <2>5, <2>6
    <2>8. VsHands'
      BY <2>2, <2>4, <2>6 DEF VsIInv, VsHands
    <2>9. ASSUME ~ vsMet
          PROVE  VsOrdered' /\ NoSessionLost'
      <3>1. n \in Starting
        BY <2>2 DEF Starting
      <3>2. vsMapped = 0 /\ \A m \in Starting : m = n
        BY <2>9, <3>1 DEF VsIInv, VsOrdered
      <3>3. \A m \in StreamNos : vsCall'[m].pc \in {"connect", "setup", "insert"} => m = n
        BY <2>4, <3>2 DEF Starting
      <3>4. VsOrdered'
        BY <2>2, <2>4, <2>5, <2>6, <2>9, <3>2, <3>3 DEF VsIInv, VsOrdered, Starting
      <3>5. ASSUME NEW c \in Clients, vsClient'[c] # "unused"
            PROVE  \E m \in StreamNos :
                      \/ vsCall'[m].client = c \/ vsLoop'[m].client = c
                      \/ vsCall'[m].pc = "insert" /\ vsStream'[m].client = c
        <4>1. PICK m \in StreamNos :
                      \/ vsCall[m].client = c \/ vsLoop[m].client = c
                      \/ vsCall[m].pc = "insert" /\ vsStream[m].client = c
          BY <2>2, <2>9, <3>2, <3>5 DEF VsIInv, NoSessionLost
        <4>2. CASE m = n
          BY <2>1, <2>2, <2>4, <2>5, <2>6, <4>1, <4>2
        <4>3. CASE m # n
          BY <2>4, <2>5, <2>6, <4>1, <4>3
        <4>4. QED
          BY <4>2, <4>3
      <3>6. QED
        BY <3>4, <3>5 DEF NoSessionLost
    <2>10. QED
      BY <2>2, <2>7, <2>8, <2>9 DEF VsIInv, VsOrdered, NoSessionLost
  <1>6. ASSUME NEW n \in StreamNos, StartInserts(n)
        PROVE  VsIInv'
    <2>1. /\ vsCall[n].pc = "insert" /\ vsMapped' = n
          /\ vsCall' = [vsCall EXCEPT ![n].pc = "done"]
          /\ UNCHANGED <<vsStream, vsLoop, vsClient, vsDrops, vsStops, vsMet>>
      BY <1>6 DEF StartInserts
    <2>2. /\ vsCall' \in [StreamNos -> Calls]
          /\ vsCall'[n].pc = "done" /\ vsCall'[n].client = vsCall[n].client
          /\ \A m \in StreamNos : m # n => vsCall'[m] = vsCall[m]
      BY <1>callTo, <2>1
    <2>3. n \in 0 .. MaxStreams /\ n # 0
      BY ViewerStreamsAssumption DEF StreamNos
    <2>4. VsTypeOK' /\ VsHands'
      BY <1>types, <1>typed, <2>1, <2>2, <2>3 DEF VsIInv, VsHands
    <2>5. ASSUME ~ vsMet
          PROVE  VsOrdered' /\ NoSessionLost'
      <3>1. n \in Starting
        BY <2>1 DEF Starting
      <3>2. vsMapped = 0 /\ \A m \in Starting : m = n
        BY <2>5, <3>1 DEF VsIInv, VsOrdered
      <3>3. \A m \in StreamNos : vsCall[m].pc \in {"connect", "setup", "insert"} => m = n
        BY <3>2 DEF Starting
      <3>4. \A m \in StreamNos : vsCall'[m].pc \notin {"connect", "setup", "insert"}
        BY <2>2, <3>3
      <3>5. \A m \in StreamNos :
               vsStream[m].client # NoClient \/ vsLoop[m].pc \in {"attempt", "setup"} => m = n
        BY <2>5, <3>2, <3>3, ViewerStreamsAssumption DEF VsIInv, VsOrdered, StreamNos
      <3>6. VsOrdered'
        BY <2>1, <3>4, <3>5 DEF VsOrdered, Starting
      <3>7. NoSessionLost'
        BY <2>1, <2>2, <2>3, <2>5, <3>2, <3>3 DEF VsIInv, NoSessionLost
      <3>8. QED
        BY <3>6, <3>7
    <2>6. QED
      BY <2>1, <2>4, <2>5 DEF VsIInv, VsOrdered, NoSessionLost
  <1>7. ASSUME NEW n \in StreamNos, PeerFails(n)
        PROVE  VsIInv'
    <2>1. /\ vsDrops < MaxDrops /\ vsDrops' = vsDrops + 1
          /\ vsStream' = [vsStream EXCEPT ![n].cancelled = TRUE]
          /\ UNCHANGED <<vsMapped, vsCall, vsLoop, vsClient, vsStops, vsMet>>
      BY <1>7 DEF PeerFails
    <2>2. vsDrops' \in 0 .. MaxDrops
      BY <1>types, <2>1, ViewerStreamsAssumption
    <2>3. /\ vsStream' \in [StreamNos -> StreamsOf]
          /\ \A m \in StreamNos : vsStream'[m].client = vsStream[m].client
      BY <1>cancels, <2>1
    <2>4. VsTypeOK' /\ VsHands'
      BY <1>types, <1>typed, <2>1, <2>2, <2>3 DEF VsIInv, VsHands
    <2>5. VsOrdered'
      BY <2>1, <2>3 DEF VsIInv, VsOrdered, Starting
    <2>6. NoSessionLost'
      BY <1>mapped, <2>1, <2>3 DEF VsIInv, NoSessionLost
    <2>7. QED
      BY <2>4, <2>5, <2>6 DEF VsIInv
  <1>8. ASSUME NEW c \in Clients, ClientDrops(c)
        PROVE  VsIInv'
    <2>1. /\ vsDrops < MaxDrops /\ vsDrops' = vsDrops + 1
          /\ vsClient[c] = "up" /\ vsClient' = [vsClient EXCEPT ![c] = "dropped"]
          /\ UNCHANGED <<vsMapped, vsCall, vsStream, vsLoop, vsStops, vsMet>>
      BY <1>8 DEF ClientDrops
    <2>2. vsDrops' \in 0 .. MaxDrops
      BY <1>types, <2>1, ViewerStreamsAssumption
    <2>3. /\ vsClient' \in [Clients -> {"unused", "up", "dropped"}]
          /\ \A d \in Clients : vsClient'[d] # "unused" => vsClient[d] # "unused"
      BY <1>types, <2>1
    <2>4. VsTypeOK' /\ VsHands' /\ VsOrdered'
      BY <1>types, <1>typed, <2>1, <2>2, <2>3 DEF VsIInv, VsHands, VsOrdered, Starting
    <2>5. NoSessionLost'
      BY <2>1, <2>3 DEF VsIInv, NoSessionLost
    <2>6. QED
      BY <2>4, <2>5 DEF VsIInv
  <1>9. ASSUME NEW n \in StreamNos, LoopWoken(n)
        PROVE  VsIInv'
    <2>1. /\ vsLoop[n].pc = "wait"
          /\ UNCHANGED <<vsMapped, vsCall, vsClient, vsDrops, vsStops, vsMet>>
      BY <1>9 DEF LoopWoken
    <2>2. PICK p \in {"attempt", "ended"} :
             LoopTo(n, p, NoClient, 1) /\ (p = "attempt" => vsStream[n].client # NoClient)
      BY <1>9 DEF LoopWoken
    <2>3. /\ vsStream' \in [StreamNos -> StreamsOf]
          /\ \A m \in StreamNos : vsStream'[m].client = vsStream[m].client
      <3>1. PICK b : b = (vsStream[n].cancelled \/ vsStream[n].client = NoClient)
        OBVIOUS
      <3>2. b \in BOOLEAN
        BY <1>types, <3>1 DEF StreamsOf
      <3>3. vsStream' = [vsStream EXCEPT ![n].cancelled = b]
        BY <1>9, <3>1 DEF LoopWoken
      <3>4. QED
        BY <1>cancels, <3>2, <3>3
    <2>4. 1 \in 1 .. MaxAttempts
      BY ViewerStreamsAssumption
    <2>5. /\ vsLoop' \in [StreamNos -> Loops]
          /\ vsLoop'[n].pc = p /\ vsLoop'[n].client = NoClient
          /\ \A m \in StreamNos : m # n => vsLoop'[m] = vsLoop[m]
      BY <1>loopTo, <2>2, <2>4
    <2>6. vsLoop[n].client = NoClient /\ vsCall[n].pc \notin {"off", "connect", "setup"}
      BY <2>1 DEF VsIInv, VsHands
    <2>7. VsTypeOK'
      BY <1>types, <1>typed, <2>1, <2>3, <2>5
    <2>8. VsHands'
      BY <2>1, <2>5, <2>6 DEF VsIInv, VsHands
    <2>9. VsOrdered'
      BY <2>1, <2>2, <2>3, <2>5 DEF VsIInv, VsOrdered, Starting
    <2>10. NoSessionLost'
      BY <1>mapped, <1>names, <2>1, <2>3, <2>5, <2>6 DEF VsIInv, NoSessionLost
    <2>11. QED
      BY <2>7, <2>8, <2>9, <2>10 DEF VsIInv
  <1>10. ASSUME NEW n \in StreamNos, LoopConnects(n)
        PROVE  VsIInv'
    <2>1. /\ vsLoop[n].pc = "attempt"
          /\ UNCHANGED <<vsMapped, vsCall, vsDrops, vsStops, vsMet>>
      BY <1>10 DEF LoopConnects
    <2>2. vsLoop[n].client = NoClient /\ vsCall[n].pc \notin {"off", "connect", "setup"}
      BY <2>1 DEF VsIInv, VsHands
    <2>3. ASSUME /\ vsLoop' \in [StreamNos -> Loops]
                 /\ vsLoop'[n].pc \in {"attempt", "ended"} /\ vsLoop'[n].client = NoClient
                 /\ \A m \in StreamNos : m # n => vsLoop'[m] = vsLoop[m]
                 /\ vsStream' \in [StreamNos -> StreamsOf]
                 /\ \A m \in StreamNos : vsStream'[m].client = vsStream[m].client,
                 UNCHANGED vsClient
          PROVE  VsIInv'
      <3>1. VsTypeOK'
        BY <1>types, <1>typed, <2>1, <2>3
      <3>2. VsHands'
        BY <2>1, <2>2, <2>3 DEF VsIInv, VsHands
      <3>3. VsOrdered'
        BY <2>1, <2>3 DEF VsIInv, VsOrdered, Starting
      <3>4. NoSessionLost'
        BY <1>mapped, <1>names, <2>1, <2>2, <2>3 DEF VsIInv, NoSessionLost
      <3>5. QED
        BY <3>1, <3>2, <3>3, <3>4 DEF VsIInv
    <2>4. CASE LoopTo(n, "ended", NoClient, 1) /\ UNCHANGED <<vsStream, vsClient>>
      <3>1. 1 \in 1 .. MaxAttempts
        BY ViewerStreamsAssumption
      <3>2. QED
        BY <1>types, <1>loopTo, <2>3, <2>4, <3>1
    <2>5. CASE LoopNext(n) /\ UNCHANGED vsClient
      BY <2>3, <2>5, LoopNextMoves DEF VsIInv
    <2>6. ASSUME NEW c \in Clients, ConnectH264(c), LoopTo(n, "setup", c, vsLoop[n].attempt),
                 UNCHANGED vsStream
          PROVE  VsIInv'
      <3>1. vsLoop[n].attempt \in 1 .. MaxAttempts
        BY <1>types DEF Loops
      <3>2. /\ vsLoop' \in [StreamNos -> Loops]
            /\ vsLoop'[n].pc = "setup" /\ vsLoop'[n].client = c
            /\ \A m \in StreamNos : m # n => vsLoop'[m] = vsLoop[m]
        BY <1>loopTo, <2>6, <3>1
      <3>3. /\ vsClient' \in [Clients -> {"unused", "up", "dropped"}]
            /\ \A d \in Clients : d # c => vsClient'[d] = vsClient[d]
        BY <1>opens, <2>6
      <3>4. VsTypeOK'
        BY <1>types, <1>typed, <2>1, <2>6, <3>2, <3>3
      <3>5. VsHands'
        BY <2>1, <2>2, <3>2 DEF VsIInv, VsHands
      <3>6. VsOrdered'
        BY <2>1, <2>6, <3>2 DEF VsIInv, VsOrdered, Starting
      <3>7. NoSessionLost'
        BY <1>names, <2>1, <2>2, <2>6, <3>2, <3>3 DEF VsIInv, NoSessionLost
      <3>8. QED
        BY <3>4, <3>5, <3>6, <3>7 DEF VsIInv
    <2>7. QED
      BY <1>10, <2>4, <2>5, <2>6 DEF LoopConnects
  <1>11. ASSUME NEW n \in StreamNos, LoopFails(n)
        PROVE  VsIInv'
    <2>1. PICK d : d = vsLoop[n].client
      OBVIOUS
    <2>2. /\ vsLoop[n].pc = "setup" /\ vsClient' = Close({d}) /\ LoopNext(n)
          /\ UNCHANGED <<vsMapped, vsCall, vsDrops, vsStops, vsMet>>
      BY <1>11, <2>1 DEF LoopFails
    <2>3. /\ vsClient' \in [Clients -> {"unused", "up", "dropped"}]
          /\ \A c \in Clients : vsClient'[c] # "unused" => c # d /\ vsClient[c] # "unused"
      BY <1>closes, <2>2
    <2>4. /\ vsLoop' \in [StreamNos -> Loops]
          /\ vsLoop'[n].pc \in {"attempt", "ended"} /\ vsLoop'[n].client = NoClient
          /\ \A m \in StreamNos : m # n => vsLoop'[m] = vsLoop[m]
          /\ vsStream' \in [StreamNos -> StreamsOf]
          /\ \A m \in StreamNos : vsStream'[m].client = vsStream[m].client
      BY <2>2, LoopNextMoves DEF VsIInv
    <2>5. VsTypeOK'
      BY <1>types, <1>typed, <2>2, <2>3, <2>4
    <2>6. VsHands'
      BY <2>2, <2>4 DEF VsIInv, VsHands
    <2>7. VsOrdered'
      BY <2>2, <2>4 DEF VsIInv, VsOrdered, Starting
    <2>8. NoSessionLost'
      <3>1. ASSUME ~ vsMet, NEW c \in Clients, vsClient'[c] # "unused"
            PROVE  \/ vsMapped # 0 /\ vsStream[vsMapped].client = c
                   \/ \E m \in StreamNos :
                         \/ vsCall[m].client = c \/ vsLoop[m].client = c
                         \/ vsCall[m].pc = "insert" /\ vsStream[m].client = c
        BY <2>3, <3>1 DEF VsIInv, NoSessionLost
      <3>2. ASSUME NEW c \in Clients, vsClient'[c] # "unused", NEW m \in StreamNos,
                   \/ vsCall[m].client = c \/ vsLoop[m].client = c
                   \/ vsCall[m].pc = "insert" /\ vsStream[m].client = c
            PROVE  \/ vsCall'[m].client = c \/ vsLoop'[m].client = c
                   \/ vsCall'[m].pc = "insert" /\ vsStream'[m].client = c
        BY <2>1, <2>2, <2>3, <2>4, <3>2
      <3>3. ASSUME ~ vsMet, NEW c \in Clients, vsClient'[c] # "unused"
            PROVE  \/ vsMapped' # 0 /\ vsStream'[vsMapped'].client = c
                   \/ \E m \in StreamNos :
                         \/ vsCall'[m].client = c \/ vsLoop'[m].client = c
                         \/ vsCall'[m].pc = "insert" /\ vsStream'[m].client = c
        <4>1. CASE vsMapped # 0 /\ vsStream[vsMapped].client = c
          BY <1>mapped, <2>2, <2>4, <4>1
        <4>2. CASE ~ (vsMapped # 0 /\ vsStream[vsMapped].client = c)
          BY <3>1, <3>2, <3>3, <4>2
        <4>3. QED
          BY <4>1, <4>2
      <3>4. QED
        BY <2>2, <3>3 DEF NoSessionLost
    <2>9. QED
      BY <2>5, <2>6, <2>7, <2>8 DEF VsIInv
  <1>12. ASSUME NEW n \in StreamNos, LoopReplaces(n)
        PROVE  VsIInv'
    <2>1. PICK d : d = vsStream[n].client
      OBVIOUS
    <2>2. PICK e : e = vsLoop[n].client
      OBVIOUS
    <2>3. /\ vsLoop[n].pc = "setup" /\ vsClient' = Close({d})
          /\ vsStream' = [vsStream EXCEPT ![n].client = e]
          /\ LoopTo(n, "wait", NoClient, 1)
          /\ UNCHANGED <<vsMapped, vsCall, vsDrops, vsStops, vsMet>>
      BY <1>12, <2>1, <2>2 DEF LoopReplaces
    <2>4. /\ vsClient' \in [Clients -> {"unused", "up", "dropped"}]
          /\ \A c \in Clients : vsClient'[c] # "unused" => c # d /\ vsClient[c] # "unused"
      BY <1>closes, <2>3
    <2>5. 1 \in 1 .. MaxAttempts /\ e \in Clients \cup {NoClient}
      BY <1>types, <2>2, ViewerStreamsAssumption DEF Loops
    <2>6. /\ vsLoop' \in [StreamNos -> Loops]
          /\ vsLoop'[n].pc = "wait" /\ vsLoop'[n].client = NoClient
          /\ \A m \in StreamNos : m # n => vsLoop'[m] = vsLoop[m]
      BY <1>loopTo, <2>3, <2>5
    <2>7. /\ vsStream' \in [StreamNos -> StreamsOf] /\ vsStream'[n].client = e
          /\ \A m \in StreamNos : m # n => vsStream'[m] = vsStream[m]
      BY <1>plays, <2>3, <2>5
    <2>8. VsTypeOK'
      BY <1>types, <1>typed, <2>3, <2>4, <2>6, <2>7
    <2>9. vsCall[n].pc \notin {"off", "connect", "setup"}
      BY <2>3 DEF VsIInv, VsHands
    <2>10. VsHands'
      BY <2>3, <2>6, <2>9 DEF VsIInv, VsHands
    <2>11. VsOrdered'
      BY <2>3, <2>6, <2>7 DEF VsIInv, VsOrdered, Starting
    <2>12. ASSUME ~ vsMet, NEW c \in Clients, vsClient'[c] # "unused"
           PROVE  \/ vsMapped' # 0 /\ vsStream'[vsMapped'].client = c
                  \/ \E m \in StreamNos :
                        \/ vsCall'[m].client = c \/ vsLoop'[m].client = c
                        \/ vsCall'[m].pc = "insert" /\ vsStream'[m].client = c
      <3>1. c # d /\ vsClient[c] # "unused"
        BY <2>4, <2>12
      <3>2. vsMapped = n \/ vsCall[n].pc = "insert"
        BY <2>3, <2>12 DEF VsIInv, VsOrdered
      <3>3. CASE c = e
        <4>1. n # 0
          BY ViewerStreamsAssumption DEF StreamNos
        <4>2. CASE vsMapped = n
          BY <2>3, <2>7, <3>3, <4>1, <4>2
        <4>3. CASE vsCall[n].pc = "insert"
          BY <2>3, <2>7, <3>3, <4>3
        <4>4. QED
          BY <3>2, <4>2, <4>3
      <3>4. CASE c # e
        <4>1. \A m \in StreamNos : vsLoop[m].client = c => m # n /\ vsLoop'[m].client = c
          BY <2>2, <2>6, <3>4
        <4>2. \A m \in StreamNos : vsStream[m].client = c => m # n /\ vsStream'[m].client = c
          BY <2>1, <2>7, <3>1
        <4>3. QED
          BY <1>mapped, <2>3, <2>12, <3>1, <4>1, <4>2 DEF VsIInv, NoSessionLost
      <3>5. QED
        BY <3>3, <3>4
    <2>13. QED
      BY <2>3, <2>8, <2>10, <2>11, <2>12 DEF VsIInv, NoSessionLost
  <1>13. CASE UNCHANGED vsVars
    BY <1>13, <1>types, <1>typed DEF vsVars, VsIInv, VsHands, VsOrdered, NoSessionLost, Starting
  <1>14. QED
    BY <1>1, <1>2, <1>3, <1>4, <1>5, <1>6, <1>7, <1>8, <1>9, <1>10, <1>11, <1>12, <1>13
       DEF VsNext, VsStep

LEMMA VsInitKeeps == VsInit => VsIInv
  <1> SUFFICES ASSUME VsInit
               PROVE  VsIInv
    OBVIOUS
  <1>1. /\ [pc |-> "off", client |-> NoClient] \in Calls
        /\ [client |-> NoClient, cancelled |-> FALSE] \in StreamsOf
        /\ [pc |-> "off", client |-> NoClient, attempt |-> 1] \in Loops
    BY ViewerStreamsAssumption DEF Calls, StreamsOf, Loops
  <1>2. vsCall \in [StreamNos -> Calls] /\ vsStream \in [StreamNos -> StreamsOf]
    BY <1>1 DEF VsInit
  <1>3. vsLoop \in [StreamNos -> Loops]
    BY <1>1 DEF VsInit
  <1>4. vsClient \in [Clients -> {"unused", "up", "dropped"}]
    BY DEF VsInit
  <1>5. /\ vsMapped \in 0 .. MaxStreams /\ vsDrops \in 0 .. MaxDrops
        /\ vsStops \in 0 .. MaxStops
    BY ViewerStreamsAssumption DEF VsInit
  <1>6. vsMet \in BOOLEAN
    BY DEF VsInit
  <1>7. VsTypeOK
    BY <1>2, <1>3, <1>4, <1>5, <1>6 DEF VsTypeOK, Calls, StreamsOf, Loops
  <1>8. VsHands /\ VsOrdered /\ NoSessionLost
    BY DEF VsInit, VsHands, VsOrdered, NoSessionLost, Starting
  <1>9. QED
    BY <1>7, <1>8 DEF VsIInv

(* Whatever fails half way, every RTSP session that is open is one that    *)
(* somebody will close, unless a start or a stop met another start or a    *)
(* reconnect (cctv_rtsp.go:174 and 243).                                   *)
THEOREM NoSessionLostHolds == VsSpec => []NoSessionLost
  <1>1. VsIInv => NoSessionLost
    BY DEF VsIInv
  <1>2. QED
    BY <1>1, VsInitKeeps, VsNextKeeps, PTL DEF VsSpec

-----------------------------------------------------------------------------
(* The loops share no state, so each keeps its invariant whatever part a   *)
(* behaviour is about.                                                     *)
LEMMA EachPartSteps ==
  ASSUME [Next]_<<part, recVars, alVars, agVars, vsVars>>
  PROVE  [RecNext]_recVars /\ [AlNext]_alVars /\ [AgNext]_agVars /\ [VsNext]_vsVars
  BY DEF Next

(* The variables of the four loops keep their types, for any number of     *)
(* channels, sites, agents, connections and streams: no restart, wait,     *)
(* attempt or number leaves its range.                                     *)
THEOREM TypesHold == Spec => []TypeOK
  <1> DEFINE I == RecIInv /\ AlIInv /\ AgIInv /\ VsIInv
  <1>1. Init => I
    BY RecInitKeeps, AlInitKeeps, AgInitKeeps, VsInitKeeps DEF Init
  <1>2. I /\ [Next]_<<part, recVars, alVars, agVars, vsVars>> => I'
    BY EachPartSteps, RecNextKeeps, AlNextKeeps, AgNextKeeps, VsNextKeeps
  <1>3. I => TypeOK
    BY DEF TypeOK, RecIInv, AlIInv, AgIInv, AgTyped, VsIInv
  <1>4. QED
    BY <1>1, <1>2, <1>3, PTL DEF Spec

=============================================================================
