CONSTANTS
    U64Max = 7
    OneInBps = 4
    None = None
    Keys = {admin}
    Users = {alice}
    Escrow = escrow
    Eids = {eth}
    Addrs = {peer}
    ZeroAddr = zero
    OFTTypes = {"Adapter"}
    Base = 2
    Decimals = 2
    SharedDecimals = {2}
    Start <- MCStart
    Supply <- MCSupply
    Authorities = {}
    OftAuthorities = {}
    Amounts = {0, 3}
    SDs = {3}
    Composes = {TRUE, FALSE}
    FeeBps = {}
    Limits = {1, 4}
    OptionItems = {"gas", "value", "legacy"}
    ExtraOptions <- MCNoOptions
    TransferFees <- MCNoFees
    MaxSends = 1
    MaxInbound = 1
    MaxConfigs = 3
    MaxTime = 2
SPECIFICATION Spec
INVARIANTS
    IInv
PROPERTIES
    LimitsAreBuckets
CHECK_DEADLOCK FALSE
