CONSTANTS
    op = op  other = other  coin = coin  x = x  y = y  a = a  r = r
    Account = {op, other}
    Module = {"lockproxypip1"}
    Denom = {coin}
    GenesisBalance <- MCGenesisBalance
    GenesisSupply <- MCGenesisSupply
    GenesisAccounts = {op}
    Outbound <- LockParam
    Inbound <- MCInbound
    ChainIdInPolyNet = 1
    NoAddr = NoAddr
    IdBytes <- MCIdBytes
    MaxCrossChainId = 2
    RemoteChain = {2}
    Contract = {x, y}
    Asset = {a}
    Recipient = {r}
    Amounts = {1, 2}
    Fees = {0, 1}
    FeeAddress = {other, "lockproxypip1"}
SPECIFICATION Pip1Spec
INVARIANTS
    Pip1TypeOK
    BooksMatchMessages
    EscrowCoversBooks
    NoncesDense
    RoutedIffRegistered
    CoinsConserved
PROPERTIES
    DrawnByItsContract
CHECK_DEADLOCK FALSE
