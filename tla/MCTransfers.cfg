CONSTANTS
    U64Max = 15
    OneInBps = 4
    None = None
    Keys = {admin}
    Users = {alice}
    Escrow = escrow
    Eids = {eth}
    Addrs = {peer}
    ZeroAddr = zero
    OFTTypes = {"Adapter", "Native"}
    Base = 2
    Decimals = 2
    SharedDecimals = {1, 3}
    Start <- MCStart
    Supply <- MCSupply
    Authorities = {multisig, other}
    OftAuthorities = {multisig}
    Amounts = {0, 2, 5}
    SDs = {1, 8}
    Composes = {TRUE}
    FeeBps = {2, 4}
    Limits = {}
    OptionItems = {}
    ExtraOptions <- MCNoOptions
    TransferFees <- MCTransferFees
    MaxSends = 2
    MaxInbound = 1
    MaxConfigs = 3
    MaxTime = 0
SPECIFICATION Spec
INVARIANTS
    TypeOK
    EscrowSolvent
    EscrowAccounting
    ValueConserved
PROPERTIES
    SendIsExact
    ReceiveIsExact
CHECK_DEADLOCK FALSE
