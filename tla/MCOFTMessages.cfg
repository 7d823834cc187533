CONSTANTS
    U64Max = 255
    OneInBps = 4
    None = None
    OptionItems = {"gas", "value", "legacy"}
    ByteBase = 2
    Store <- MCStore
    Configs <- MCConfigs
    Recipients <- MCRecipients
    Signers <- MCSigners
    Payloads <- MCPayloads
    Extras <- MCExtras
    Amounts = {1, 255}
    MinAmounts = {2}
    Nonces = {1, 255}
    SrcEids = {9}
SPECIFICATION Spec
INVARIANTS
    QuotePricesSend
    ReadAsWritten
    MessagesInv
