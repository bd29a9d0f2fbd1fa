CONSTANTS
    op1 = op1  op2 = op2  coin = coin  new = new  x = x  y = y  a = a
    Account = {op1, op2}
    Module = {"lockproxy"}
    Denom = {coin, new}
    GenesisBalance <- MCGenesisBalance
    GenesisSupply <- MCGenesisSupply
    GenesisAccounts <- MCGenesisAccounts
    Outbound <- LockParam
    Inbound <- MCInbound
    ChainIdInPolyNet = 1
    NoAddr = NoAddr
    IdBytes <- MCIdBytes
    MaxCrossChainId = 1
    RemoteChain = {2}
    Contract = {x, y}
    Asset = {a}
    Amounts = {0, 1}
SPECIFICATION LockProxySpec
INVARIANTS
    LockProxyTypeOK
    EscrowBacksMessages
    BindingsHaveProxies
PROPERTIES
    ReleasedByBoundProxy
