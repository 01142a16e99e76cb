------------------------------ MODULE MCUpkeep ------------------------------
(* What the relay clears away by itself: recordings over the cap, and walls *)
(* nobody watches.  A behaviour is about one of the two, which share no    *)
(* state.  The channel's day is three seconds long, so that events,        *)
(* segments and windows cross midnight.                                    *)
EXTENDS Archive, SurvMosaic

VARIABLE part

UpkeepInit ==
    /\ part \in {"archive", "wall"}
    /\ Init /\ MoInit
    /\ part = "wall" \/ order = CHOOSE o \in Orders : TRUE

UpkeepNext ==
    \/ part = "archive" /\ Next /\ UNCHANGED <<part, moVars>>
    \/ part = "wall" /\ MoNext /\ UNCHANGED <<part, vars>>

(* In its initial state neither has a step it must take.                   *)
UpkeepSpec ==
    UpkeepInit /\ [][UpkeepNext]_<<part, vars, moVars>> /\ Fairness /\ MoFairness
=============================================================================
