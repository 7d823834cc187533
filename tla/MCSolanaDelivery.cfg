CONSTANTS
    U64Max = 6
    OneInBps = 4
    None = None
    Keys = {admin}
    Users = {alice}
    Escrow = escrow
    Eids = {eth}
    Addrs = {peer}
    ZeroAddr = zero
    OFTTypes = {"Adapter", "Native"}
    Base = 2
    Decimals = 1
    SharedDecimals = {1}
    Start <- MCStart
    Supply <- MCSupply
    Authorities = {multisig}
    OftAuthorities = {multisig}
    Amounts = {2}
    SDs = {1, 2}
    Composes = {TRUE}
    FeeBps = {}
    Limits = {2}
    OptionItems = {}
    ExtraOptions <- MCNoOptions
    TransferFees <- MCTransferFees
    MaxSends = 1
    MaxInbound = 2
    MaxConfigs = 1
    MaxTime = 1
SPECIFICATION DeliverySpec
INVARIANTS
    NoncesOK
PROPERTY
    EveryPacketIsPaid
