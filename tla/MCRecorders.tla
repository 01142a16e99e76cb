---------------------------- MODULE MCRecorders ----------------------------
(* A site's recorders at either end, which share no state: a behaviour is  *)
(* about the streams the relay takes from two of them, or about the keys   *)
(* the agent gives two of them at two addresses, with enough operations to *)
(* swap the two.                                                           *)
EXTENDS MCSurvProxy, DeviceStore

CONSTANTS s1, s2, m1, addr1

VARIABLE part

(* The first one tells its MAC address too; of either nothing is known when *)
(* it is added with a protocol that does not ask.                          *)
Readings_ == {[serial |-> s1, mac |-> m1], [serial |-> s2, mac |-> NoFacet]}

RecordersInit == part \in {"streams", "keys"} /\ Init /\ DvInit

RecordersNext ==
    \/ part = "streams" /\ Next /\ UNCHANGED <<part, dvVars>>
    \/ part = "keys" /\ DvNext /\ UNCHANGED <<part, vars>>

RecordersSpec == RecordersInit /\ [][RecordersNext]_<<part, vars, dvVars>>
=============================================================================
