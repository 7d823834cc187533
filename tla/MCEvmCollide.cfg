CONSTANTS
    None = None
    Wrappers = {TRUE}
    Keys = {owner}
    Users = {alice}
    Eids = {1}
    ConfigEids = {1, 3}
    Offset = 2
    U32Max = 3
    U64Max = 15
    Addrs = {peer}
    Rate = 2
    Start <- MCStart
    Supply <- MCSupply
    Amounts = {0, 3}
    SDs = {1}
    Composes = {FALSE}
    Limits = {2, 3}
    Windows = {0, 2}
    MaxSends = 2
    MaxInbound = 2
    MaxConfigs = 2
    MaxTime = 3
SPECIFICATION Spec
PROPERTIES
    DirectionsIndependent
CHECK_DEADLOCK FALSE
