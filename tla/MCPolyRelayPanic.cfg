CONSTANTS
    p1 = p1  p2 = p2  p3 = p3  p4 = p4
    g1 = g1  e2 = e2  b3 = b3  e4 = e4  b5 = b5
    d1 = d1  u2 = u2  f1 = f1  f2 = f2
    Chain = {0, 1}
    Peer <- MCPeer
    Hash <- MCHash
    Headers <- MCHeaders
    Genesis <- MCGenesis
    Batches <- MCBatches
    Canonical <- MCCanonical
    Faulty = {p4}
    Garbage = Garbage
    NoHeader = NoHeader
    NoProof = NoProof
    NoHash = NoHash
    NoEpoch = NoEpoch
    NoConfig = NoConfig
    Unparsable = Unparsable
    Account = {alice}
    Module = {}
    Denom = {}
    GenesisBalance <- MCGenesisBalance
    GenesisSupply <- MCGenesisSupply
    GenesisAccounts = {}
    Outbound <- MCOutbound
    Inbound <- MCInbound
    Committed <- MCCommitted
    CrossStateRoot <- MCCrossStateRoot
    ChainIdInPolyNet = 1
    NoAddr = NoAddr
    IdBytes <- MCIdBytes
    MaxCrossChainId = 1
SPECIFICATION RelaySpec
INVARIANTS
    BadSignatureIsAnError
