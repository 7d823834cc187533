---------------------------- MODULE MCEvmDelivery ----------------------------
(* Values for the constants of EvmDelivery that a cfg file cannot write.     *)
EXTENDS EvmDelivery, FiniteSetsExt

MCStart == [user \in Users |-> 4]

MCSupply == MapThenSumSet(LAMBDA user : MCStart[user], Users)

=============================================================================
