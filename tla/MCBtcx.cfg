CONSTANTS
    alice = alice  bob = bob  btcd = btcd  coin = coin  x = x  y = y  s = s
    Account = {alice, bob}
    Module = {"btcx"}
    Denom = {btcd, coin}
    GenesisBalance <- MCGenesisBalance
    GenesisSupply <- MCGenesisSupply
    GenesisAccounts = {alice}
    Outbound <- LockParam
    Inbound <- MCInbound
    ChainIdInPolyNet = 3
    NoAddr = NoAddr
    IdBytes <- MCIdBytes
    MaxCrossChainId = 2
    RemoteChain = {1, 2}
    BtcChainId = 1
    Asset = {x, y}
    Script = {s, NoScript}
    NoScript = NoScript
    Uint64Size = 2
    Amounts = {0, 1, 2}
SPECIFICATION BtcxSpec
INVARIANTS
    BtcxTypeOK
    NeverOverReleased
    OutgoingIdsDense
PROPERTIES
    MintedForBoundAsset
