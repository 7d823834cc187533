CONSTANTS
    U64Max = 15
    OneInBps = 4
    None = None
    Keys = {admin}
    Users = {alice, bob}
    Escrow = escrow
    Eids = {eth, arb}
    Addrs = {peer, rogue}
    ZeroAddr = zero
    OFTTypes = {"Native"}
    Base = 2
    Decimals = 2
    SharedDecimals = {2}
    Start <- MCStart
    Supply <- MCSupply
    Authorities = {multisig}
    OftAuthorities = {multisig}
    Amounts = {2}
    SDs = {1}
    Composes = {TRUE, FALSE}
    FeeBps = {}
    Limits = {}
    OptionItems = {"gas", "value", "legacy"}
    ExtraOptions <- MCExtraOptions
    TransferFees <- MCNoFees
    MaxSends = 1
    MaxInbound = 1
    MaxConfigs = 3
    MaxTime = 0
SYMMETRY
    MCUserSymmetry
SPECIFICATION Spec
PROPERTIES
    EnforcedOptionsCarried
    ReceiveIsExact
CHECK_DEADLOCK FALSE
