---------------------------- MODULE MCHubPublish ----------------------------
(* HubPublish for TLC.  Connections, PINs and senders are interchangeable;
   symmetry is used for safety only. *)
EXTENDS HubPublish, TLC

Symmetry == Permutations(Conns) \cup Permutations(Pins) \cup Permutations(Senders)
=============================================================================
