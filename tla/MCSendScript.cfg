CONSTANTS
    None = None
    SolanaEids = {40168, 30168}
    EvmEids = {30101}
SPECIFICATION Spec
INVARIANT
    SolanaNotPadded
CHECK_DEADLOCK FALSE
