CONSTANTS
    None = None
    Wrappers = {TRUE, FALSE}
    Keys = {owner, other}
    Users = {alice}
    Eids = {1}
    ConfigEids = {1}
    Offset = 2
    U32Max = 3
    U64Max = 15
    Addrs = {peer}
    Rate = 2
    Start <- MCStart
    Supply <- MCSupply
    Amounts = {0, 3}
    SDs = {1}
    Composes = {FALSE}
    Limits = {2, 3}
    Windows = {0, 2}
    MaxSends = 2
    MaxInbound = 2
    MaxConfigs = 3
    MaxTime = 3
SYMMETRY
    MCKeySymmetry
SPECIFICATION Spec
INVARIANTS
    TypeOK
    PolicyBoundsFlow
    FlowInv
    SupplyFollowsPackets
PROPERTIES
    DirectionsIndependent
    CreditIsExact
CHECK_DEADLOCK FALSE
