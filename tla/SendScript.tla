----------------------------- MODULE SendScript -----------------------------
(***************************************************************************)
(* scripts/send.js, which sends a test transfer from an EVM chain, and the *)
(* helper that forms the recipient's 32 bytes.  A JavaScript value keeps   *)
(* its type: process.env holds strings, SOLANA_EIDS holds numbers, and     *)
(* Array.includes compares without conversion.                             *)
(***************************************************************************)
EXTENDS Naturals

CONSTANTS
    SolanaEids, EvmEids,   \* endpoint ids of the two kinds of chain
    None

VARIABLES
    env,        \* DESTINATION_EID and the form of RECIPIENT_ADDRESS
    bytes,      \* peerAddressBytes: what was put behind EVM_PADDING
    status      \* "start", "formed", or how the script ended

vars == <<env, bytes, status>>

Number(n) == [type |-> "number", value |-> n]

String(n) == [type |-> "string", value |-> n]

SOLANA_EIDS == {Number(n) : n \in SolanaEids}

\* Each environment names an address in a form of its destination's kind.
Init ==
    /\ env \in [eid : {String(n) : n \in SolanaEids}, address : {"base58"}]
               \cup [eid : {String(n) : n \in EvmEids}, address : {"0x", "hex"}]
    /\ bytes = None
    /\ status = "start"

\* An address loses its 0x and is padded.
padded(address) == [padded |-> TRUE, of |-> IF address = "0x" THEN "hex" ELSE address]

\* getPeerAddressBytes.  An address of an eid in SOLANA_EIDS would be decoded; as
\* helpers.js does not require bs58, that branch throws.
Form ==
    /\ status = "start"
    /\ \/ env.eid \in SOLANA_EIDS /\ status' = "failed" /\ UNCHANGED bytes
       \/ env.eid \notin SOLANA_EIDS /\ status' = "formed" /\ bytes' = padded(env.address)
    /\ UNCHANGED env

\* External: ethers encodes bytes32 from hex digits only;
\* an exception ends the script with exit code 1.
Submit ==
    /\ status = "formed"
    /\ status' = IF bytes.of = "hex" THEN "sent" ELSE "failed"
    /\ UNCHANGED <<env, bytes>>

Next == Form \/ Submit

Spec == Init /\ [][Next]_vars

-----------------------------------------------------------------------------
\* "Solana - PEER_ADDRESS should not be padded" (helpers.js): the bytes formed
\* for a destination on Solana are never a padded address.
SolanaNotPadded ==
    bytes # None /\ env.eid.value \in SolanaEids => ~bytes.padded

=============================================================================
