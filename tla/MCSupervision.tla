--------------------------- MODULE MCSupervision ---------------------------
(* Four loops that share no state: a behaviour is about one of them.       *)
EXTENDS Recorder, Alerts, AgentLoop, ViewerStreams

VARIABLE part

TypeOK == RecTypeOK /\ AlTypeOK /\ AgTypeOK /\ VsTypeOK

Init ==
    /\ part \in {"recorder", "alerts", "agent", "viewer"}
    /\ RecInit /\ AlInit /\ AgInit /\ VsInit

Next ==
    \/ part = "recorder" /\ RecNext /\ UNCHANGED <<part, alVars, agVars, vsVars>>
    \/ part = "alerts" /\ AlNext /\ UNCHANGED <<part, recVars, agVars, vsVars>>
    \/ part = "agent" /\ AgNext /\ UNCHANGED <<part, recVars, alVars, vsVars>>
    \/ part = "viewer" /\ VsNext /\ UNCHANGED <<part, recVars, alVars, agVars>>

(* In its initial state no part has a step it must take.                   *)
Fairness == RecFairness /\ AlFairness /\ AgFairness /\ VsFairness

Spec == Init /\ [][Next]_<<part, recVars, alVars, agVars, vsVars>> /\ Fairness
=============================================================================
