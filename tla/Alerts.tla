------------------------------- MODULE Alerts -------------------------------
(***************************************************************************)
(* relay/alerts.go, alertMonitor: every interval it looks at each session, *)
(* and reports an agent as down once its last message is older than the    *)
(* grace period, and as back when it is online again.  Handlers claim and  *)
(* leave the sessions and messages arrive while it looks; operators switch *)
(* the alerts on and off.  Time is the age of each agent's last message,   *)
(* up to the grace period.                                                 *)
(***************************************************************************)
EXTENDS Integers, FiniteSets

CONSTANTS
    Sites,       \* sessions
    OfflineGrace

ASSUME AlertsAssumption == OfflineGrace \in Nat \ {0}

VARIABLES
    alOnline,    \* sessions with a publisher
    alConnected, \* connectedAt is set
    alAge,       \* age of lastPublishAt, or NoMessage
    alActive,    \* cfg.active()
    alDown,      \* the monitor's map
    alLook,      \* the sweep: sessions left, and the one found offline
    alOpen       \* down alerts less recovery alerts of each session (history)

alVars == <<alOnline, alConnected, alAge, alActive, alDown, alLook, alOpen>>

NoMessage == 0 - 1
NoSite == "none"
NoSweep == [left |-> {}, offline |-> NoSite]

AlTypeOK ==
    /\ alOnline \subseteq Sites /\ alConnected \subseteq Sites /\ alDown \subseteq Sites
    /\ alAge \in [Sites -> NoMessage .. OfflineGrace]
    /\ alActive \in BOOLEAN
    /\ alLook \in [left : SUBSET Sites, offline : Sites \cup {NoSite}]

AlInit ==
    /\ alOnline = {} /\ alConnected = {} /\ alDown = {}
    /\ alAge = [s \in Sites |-> NoMessage]
    /\ alActive = FALSE
    /\ alLook = NoSweep
    /\ alOpen = [s \in Sites |-> 0]

(* HandlePublish claims the session, gets a message, or ends.              *)
AlClaim(s) ==
    /\ s \notin alOnline
    /\ alOnline' = alOnline \cup {s}
    /\ alConnected' = alConnected \cup {s}
    /\ UNCHANGED <<alAge, alActive, alDown, alLook, alOpen>>

AlMessage(s) ==
    /\ s \in alOnline
    /\ alAge' = [alAge EXCEPT ![s] = 0]
    /\ UNCHANGED <<alOnline, alConnected, alActive, alDown, alLook, alOpen>>

AlLeave(s) ==
    /\ s \in alOnline
    /\ alOnline' = alOnline \ {s}
    /\ UNCHANGED <<alConnected, alAge, alActive, alDown, alLook, alOpen>>

AlTick ==
    /\ alAge' = [s \in Sites |-> IF alAge[s] \in 0 .. OfflineGrace - 1 THEN alAge[s] + 1 ELSE alAge[s]]
    /\ UNCHANGED <<alOnline, alConnected, alActive, alDown, alLook, alOpen>>

(* setAlertConfig                                                          *)
AlSwitch ==
    /\ alActive' = ~ alActive
    /\ UNCHANGED <<alOnline, alConnected, alAge, alDown, alLook, alOpen>>

-----------------------------------------------------------------------------
(* The ticker fires: the configuration is taken once for the sweep.        *)
MonitorSweeps ==
    /\ alLook = NoSweep /\ alActive
    /\ alLook' = [left |-> Sites, offline |-> NoSite]
    /\ UNCHANGED <<alOnline, alConnected, alAge, alActive, alDown, alOpen>>

(* Mutant: the sweep ends at a session that never connected. *)
MonitorLooks_Break(s) ==
    LET back == s \in alConnected \cap alOnline \cap alDown
    IN  /\ s \in alLook.left /\ alLook.offline = NoSite
        /\ alLook' = [left |-> IF s \in alConnected THEN alLook.left \ {s} ELSE {},
                      offline |-> IF s \in alConnected \ alOnline THEN s ELSE NoSite]
        /\ alDown' = IF back THEN alDown \ {s} ELSE alDown
        /\ alOpen' = IF back THEN [alOpen EXCEPT ![s] = @ - 1] ELSE alOpen
        /\ UNCHANGED <<alOnline, alConnected, alAge, alActive>>

(* A session never connected is skipped; one that is online is reported    *)
(* back if it was down.                                                    *)
MonitorLooks(s) ==
    LET back == s \in alConnected \cap alOnline \cap alDown
    IN  /\ s \in alLook.left /\ alLook.offline = NoSite
        /\ alLook' = [left |-> alLook.left \ {s},
                      offline |-> IF s \in alConnected \ alOnline THEN s ELSE NoSite]
        /\ alDown' = IF back THEN alDown \ {s} ELSE alDown
        /\ alOpen' = IF back THEN [alOpen EXCEPT ![s] = @ - 1] ELSE alOpen
        /\ UNCHANGED <<alOnline, alConnected, alAge, alActive>>

(* Mutant: whether it was reported is not looked at. *)
Overdue_Again(s) == alAge[s] = OfflineGrace

Overdue(s) == s \notin alDown /\ alAge[s] = OfflineGrace

(* It was offline: the age of its last message decides, read after that.   *)
MonitorJudges ==
    LET s == alLook.offline
    IN  /\ s # NoSite
        /\ alLook' = [alLook EXCEPT !.offline = NoSite]
        /\ alDown' = IF Overdue(s) THEN alDown \cup {s} ELSE alDown
        /\ alOpen' = IF Overdue(s) THEN [alOpen EXCEPT ![s] = @ + 1] ELSE alOpen
        /\ UNCHANGED <<alOnline, alConnected, alAge, alActive>>

AlMonitor == MonitorSweeps \/ MonitorJudges \/ \E s \in Sites : MonitorLooks(s)

AlNext ==
    \/ AlTick \/ AlSwitch \/ AlMonitor
    \/ \E s \in Sites : AlClaim(s) \/ AlMessage(s) \/ AlLeave(s)

AlSpec == AlInit /\ [][AlNext]_alVars

(* The monitor's ticker and the clock go on.                               *)
AlFairness == WF_alVars(AlMonitor) /\ WF_alVars(AlTick)

-----------------------------------------------------------------------------
(* The alerts of an agent alternate, down first, however its connections,  *)
(* its messages and the switch interleave with a sweep ("de-dupes so each  *)
(* transition alerts exactly once", alerts.go:126).                        *)
AlertsAlternate == \A s \in Sites : alOpen[s] \in 0 .. 1

(* An agent that has sent a message and stays away is reported down, and   *)
(* one that stays online is not left reported down, while alerts are on,   *)
(* whatever happened before (alertMonitor).                                *)
AlertsConverge ==
    \A s \in Sites :
        /\ <>[](alActive /\ s \notin alOnline /\ alAge[s] # NoMessage) => <>[](alOpen[s] = 1)
        /\ <>[](alActive /\ s \in alOnline) => <>[](alOpen[s] = 0)

(* Alerts of a site are down and up in turn, and the last one says in the
   end how the site is (alerts.go, alertMonitor). *)
AlertsFollow == []AlertsAlternate /\ AlertsConverge
=============================================================================
