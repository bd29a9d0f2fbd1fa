CONSTANTS
    op = op  other = other  tok = tok  x = x  y = y  s = s
    Account = {op, other}
    Module = {"lockproxy"}
    Denom = {tok}
    GenesisBalance <- MCGenesisBalance
    GenesisSupply <- MCGenesisSupply
    GenesisAccounts = {op, other}
    Outbound <- MCOutbound
    Inbound <- MCInbound
    ChainIdInPolyNet = 1
    NoAddr = NoAddr
    IdBytes <- MCIdBytes
    MaxCrossChainId = 1
    RemoteChain = {2}
    BtcChainId = 2
    Contract = {x}
    Asset = {x, y}
    Script = {s, NoScript}
    NoScript = NoScript
    Uint64Len = 1
    Uint64Size = 4
    Amounts = {1}
    ByteSize = 4
    IntBsLen = 2
    MaxLives = 2
SPECIFICATION RestartSpec
INVARIANTS
    ExportHasNoError
