------------------------------ MODULE MCFanOut ------------------------------
(* The three fan-outs of the relay share no state: a behaviour is about one
   of them.  Watchers and clients are interchangeable; symmetry is used for
   safety only. *)
EXTENDS AgentSession, SurvWSHub, LiveGrid, TLC

VARIABLE part

KeyIsLarge == [k \in Kinds |-> IF k = "key" THEN 3 ELSE 1]

Init ==
    /\ part \in {"session", "wsHub", "grid"}
    /\ AsInit /\ WsInit /\ LgInit

Next ==
    \/ part = "session" /\ AsNext /\ UNCHANGED <<part, wsVars, lgVars>>
    \/ part = "wsHub" /\ WsNext /\ UNCHANGED <<part, asVars, lgVars>>
    \/ part = "grid" /\ LgNext /\ UNCHANGED <<part, asVars, wsVars>>

Spec == Init /\ [][Next]_<<part, asVars, wsVars, lgVars>>

FairSpec ==
    /\ Spec
    /\ \/ part = "session" /\ AsFairness
       \/ part = "wsHub"
       \/ part = "grid" /\ LgFairness

Symmetry == Permutations(Watchers) \cup Permutations(Clients)
=============================================================================
