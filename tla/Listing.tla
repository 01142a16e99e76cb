------------------------------ MODULE Listing ------------------------------
(***************************************************************************)
(* Lists in order, as Go's sort.Slice and a loop that appends the elements *)
(* that pass a test leave them (relay/dashboard_state.go, orderStreams;    *)
(* relay/wallorder.go, reorderByPreference).  Stated by places rather than *)
(* by recursion, so that the proofs can speak of them.                     *)
(***************************************************************************)
EXTENDS Integers, Sequences, FiniteSets

(* The elements of a finite set by a strict total order, a set of pairs:   *)
(* the k-th is the one with k - 1 before it.                               *)
Sorted(S, before) ==
    [k \in 1 .. Cardinality(S) |->
        CHOOSE x \in S : Cardinality({y \in S : <<y, x>> \in before}) = k - 1]

(* The elements of a sequence that are at the places I, in its order.      *)
Picked(s, I) ==
    LET places == Sorted(I, {p \in I \X I : p[1] < p[2]})
    IN  [k \in 1 .. Cardinality(I) |-> s[places[k]]]
=============================================================================
