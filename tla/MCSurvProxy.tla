---------------------------- MODULE MCSurvProxy ----------------------------
(* SurvProxy for TLC: channels on one DVR or on two. *)
EXTENDS SurvProxy

CONSTANTS ch1, ch2

OneDvr == [c \in Channels |-> 1]
TwoDvrs == [c \in Channels |-> IF c = ch1 THEN 1 ELSE 2]
=============================================================================
