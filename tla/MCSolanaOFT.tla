----------------------------- MODULE MCSolanaOFT -----------------------------
(* Values for the constants of SolanaOFT that a cfg file cannot write.      *)
EXTENDS SolanaOFT, FiniteSetsExt, TLC

MCStart == [user \in Users |-> 7]

MCSupply == MapThenSumSet(LAMBDA user : MCStart[user], Users)

\* All users start alike.
MCUserSymmetry == Permutations(Users)

\* No options, one type-3 option each, and a legacy type that cannot be combined.
MCNoOptions == {NoOptions}
MCExtraOptions == {NoOptions, [type |-> 3, opts |-> {"gas"}],
                   [type |-> 3, opts |-> {"value"}], [type |-> 1, opts |-> {"legacy"}]}

MCNoFees == {NoTransferFee}
\* None, 25% capped at 1, and 100% capped at 1.
MCTransferFees == {NoTransferFee, [bps |-> 1, max |-> 1], [bps |-> 4, max |-> 1]}

=============================================================================
