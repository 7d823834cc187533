------------------------------ MODULE MCEvmOFT ------------------------------
(* Values for the constants of EvmOFT that a cfg file cannot write.         *)
EXTENDS EvmOFT, FiniteSetsExt, TLC

MCStart == [user \in Users |-> 3]

MCSupply == MapThenSumSet(LAMBDA user : MCStart[user], Users)

\* Any key may deploy and own.
MCKeySymmetry == Permutations(Keys)

=============================================================================
