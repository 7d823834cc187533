---------------------------- MODULE BridgeLedger ----------------------------
(***************************************************************************)
(* What the bridge promises: value leaves a chain into a packet, and a     *)
(* packet becomes value on the chain it was sent to, once and in full.     *)
(* Packets may wait for ever and overtake each other; nothing else changes *)
(* the value of a chain.  All values are in shared decimals.               *)
(***************************************************************************)
EXTENDS Integers

CONSTANTS
    Chains,
    Ids           \* names of packets

VARIABLES
    held,         \* value on every chain
    flight,       \* packets that left and did not arrive
    departed      \* names of all packets that ever left

Init ==
    /\ held \in [Chains -> Nat]
    /\ flight = {}
    /\ departed = {}

Depart(id, from, to, value) ==
    /\ held' = [held EXCEPT ![from] = held[from] - value]
    /\ flight' = flight \cup {[id |-> id, to |-> to, value |-> value]}
    /\ departed' = departed \cup {id}

Arrive(packet) ==
    /\ held' = [held EXCEPT ![packet.to] = held[packet.to] + packet.value]
    /\ flight' = flight \ {packet}
    /\ UNCHANGED departed

Next ==
    \/ \E id \in Ids \ departed, from \in Chains :
         \E to \in Chains \ {from}, value \in 0..held[from] : Depart(id, from, to, value)
    \/ \E packet \in flight : Arrive(packet)

Spec == Init /\ [][Next]_<<held, flight, departed>>

=============================================================================
