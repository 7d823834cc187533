-------------------------- MODULE MCSolanaDelivery --------------------------
(* Values for the constants of SolanaDelivery that a cfg file cannot write. *)
EXTENDS SolanaDelivery, FiniteSetsExt

MCStart == [user \in Users |-> 4]
MCSupply == MapThenSumSet(LAMBDA user : MCStart[user], Users)
MCNoOptions == {NoOptions}
\* None, and 25% capped at 1.
MCTransferFees == {NoTransferFee, [bps |-> 1, max |-> 1]}

=============================================================================
