------------------------------ MODULE MCBridge ------------------------------
(* Values for the constants of Bridge that a cfg file cannot write.         *)
EXTENDS Bridge

MCStart == [user \in Users |-> 5]
MCSupply == MapThenSumSet(LAMBDA user : MCStart[user], Users)
MCEvmStart == [user \in EvmUsers |-> EvmSupply]
MCNoOptions == {NoOptions}
\* 25% capped at 1.
MCTransferFees == {[bps |-> 1, max |-> 1]}

=============================================================================
