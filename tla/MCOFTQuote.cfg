CONSTANTS
    U64Max = 16
    OneInBps = 5
    None = None
    Rates = {1, 3}
    TransferFees <- MCTransferFees
    MaxAmount = 16
    MinAmounts = {0, 4}
SPECIFICATION Spec
INVARIANTS
    QuoteAddsUp
    QuoteIsFixpoint
    DebitIsLeast
    MoreGivesMore
CHECK_DEADLOCK FALSE
