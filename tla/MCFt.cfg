CONSTANTS
    alice = alice  bob = bob  t1 = t1  t2 = t2  coin = coin  x = x  y = y
    Account = {alice, bob}
    Module = {"ft"}
    Denom = {t1, t2, coin}
    GenesisBalance <- MCGenesisBalance
    GenesisSupply <- MCGenesisSupply
    GenesisAccounts = {alice}
    Outbound <- LockParam
    Inbound <- MCInbound
    ChainIdInPolyNet = 1
    NoAddr = NoAddr
    IdBytes <- MCIdBytes
    MaxCrossChainId = 2
    RemoteChain = {2}
    Asset = {x, y}
    Amounts = {0, 1}
    ByteSize = 4
    IntBsLen = 2
SPECIFICATION FtSpec
INVARIANTS
    FtTypeOK
    IndependentCoinsCrossed
PROPERTIES
    CrossesByBoundAsset
