CONSTANTS
    U64Max = 15
    OneInBps = 4
    None = None
    Keys = {admin}
    Users = {alice}
    Escrow = escrow
    Eids = {2}
    Addrs = {wrapper}
    ZeroAddr = zero
    OFTTypes = {"Adapter", "Native"}
    Base = 2
    Decimals = 2
    SharedDecimals = {1}
    Start <- MCStart
    Supply <- MCSupply
    Authorities = {multisig}
    OftAuthorities = {multisig}
    Amounts = {2, 5}
    SDs = {}
    Composes = {FALSE}
    FeeBps = {2}
    Limits = {}
    OptionItems = {}
    ExtraOptions <- MCNoOptions
    TransferFees <- MCTransferFees
    MaxSends = 2
    MaxInbound = 2
    MaxConfigs = 2
    MaxTime = 0
    EvmEid = 2
    SolEid = 1
    EvmAddr = wrapper
    SolAddr = program
    EvmOwner = evmOwner
    EvmUsers = {bob}
    EvmStart <- MCEvmStart
    EvmSupply = 0
    EvmRate = 2
    EvmAmounts = {2, 3}
    EvmLimits = {4}
    EvmWindows = {2}
    EvmOffset = 2
    EvmU32Max = 3
SPECIFICATION BridgeSpec
INVARIANTS
    PacketsAreBacked
    BridgeInv
PROPERTY
    ImplementsLedger
CHECK_DEADLOCK FALSE
