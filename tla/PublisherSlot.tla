---------------------------- MODULE PublisherSlot ----------------------------
(***************************************************************************)
(* What /publish promises of the sessions, without handshakes, locks and   *)
(* the test pattern: a session has one tenant at a time, it advertises a   *)
(* viewer PIN exactly while it has one, the PIN does not change under the  *)
(* tenant, and a tenancy ends before the next one begins.                  *)
(***************************************************************************)
CONSTANTS Tenants, Slots, PINs, NoPIN

VARIABLES
    tenants,     \* the tenants of each slot
    advertised   \* its PIN, or NoPIN

slotVars == <<tenants, advertised>>

SlotInit ==
    /\ tenants = [s \in Slots |-> {}]
    /\ advertised = [s \in Slots |-> NoPIN]

Enter(c, s, p) ==
    /\ advertised' = [advertised EXCEPT ![s] = p]
    /\ tenants[s] = {}
    /\ \A t \in Slots : c \notin tenants[t]
    /\ tenants' = [tenants EXCEPT ![s] = {c}]

Leave(c, s) ==
    /\ advertised' = [advertised EXCEPT ![s] = NoPIN]
    /\ tenants[s] = {c}
    /\ tenants' = [tenants EXCEPT ![s] = {}]

SlotNext ==
    \E s \in Slots, c \in Tenants :
        \/ \E p \in PINs : Enter(c, s, p)
        \/ Leave(c, s)

SlotSpec == SlotInit /\ [][SlotNext]_slotVars
=============================================================================
