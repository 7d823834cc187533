------------------------------ MODULE MCOFTQuote ------------------------------
(* Every transfer fee of a mint whose basis is 5, capped and uncapped.      *)
EXTENDS OFTQuote

MCTransferFees == [bps : 0..OneInBps, max : {0, 1, 3, U64Max}]

=============================================================================
