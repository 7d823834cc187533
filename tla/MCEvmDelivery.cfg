CONSTANTS
    None = None
    Wrappers = {TRUE}
    Keys = {owner}
    Users = {alice}
    Eids = {1}
    ConfigEids = {1}
    Offset = 2
    U32Max = 3
    U64Max = 15
    Addrs = {peer}
    Rate = 2
    Start <- MCStart
    Supply <- MCSupply
    Amounts = {0, 3}
    SDs = {1, 2}
    Composes = {FALSE}
    Limits = {2, 4}
    Windows = {2}
    MaxSends = 1
    MaxInbound = 2
    MaxConfigs = 4
    MaxTime = 2
    Issued = 8
SPECIFICATION EvmDeliverySpec
PROPERTY
    EveryPacketIsMinted
