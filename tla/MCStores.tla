------------------------------ MODULE MCStores ------------------------------
(* Four components that share no state: a behaviour is about one of them.  *)
EXTENDS Thumbs, Settings, PinLimiter, DeviceStore

CONSTANTS pa, pb, r1, c1, c2, c3, val, s1, addr1

VARIABLE part

OnDisk_ == [sec |-> 1, pic |-> pa]
Snapshots_ == {OnDisk_, [sec |-> 1, pic |-> pb]}
Asks_ == [r \in Requests |->
             IF r = r1
             THEN {[sec |-> 1, exact |-> TRUE, card |-> TRUE], [sec |-> 2, exact |-> FALSE, card |-> FALSE]}
             ELSE {[sec |-> 1, exact |-> FALSE, card |-> TRUE]}]
EnvAlert_ == [f \in AlertFields |-> val]
Orders_ == {<<c2, c1>>, <<c3, c1, c1>>}
Streaming_ == <<c1, c2>>
Readings_ == {[serial |-> s1, mac |-> NoFacet]}
NewOrders_ == {<<1, 2, 1>>}

(* Every value stays in its type: the files, cache and queue of Thumbs, the
   settings in memory and database, the limiter's map, the agent's tables. *)
TypeOK ==
    /\ part = "thumbs" => ThTypeOK
    /\ part = "settings" => StTypeOK
    /\ part = "limiter" => LimTypeOK
    /\ part = "devices" => DvTypeOK

Init ==
    /\ part \in {"thumbs", "settings", "limiter", "devices"}
    /\ ThInit /\ StInit /\ LimInit /\ DvInit

Next ==
    \/ part = "thumbs" /\ ThNext /\ UNCHANGED <<part, stVars, limVars, dvVars>>
    \/ part = "settings" /\ StNext /\ UNCHANGED <<part, thVars, limVars, dvVars>>
    \/ part = "limiter" /\ LimNext /\ UNCHANGED <<part, thVars, stVars, dvVars>>
    \/ part = "devices" /\ DvNext /\ UNCHANGED <<part, thVars, stVars, limVars>>

Spec == Init /\ [][Next]_<<part, thVars, stVars, limVars, dvVars>>

Symmetry == Permutations(Threads)
=============================================================================
