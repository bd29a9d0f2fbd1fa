CONSTANTS
    u1 = u1
    u2 = u2
    b = b
    Empty = Empty
    ServerFrom = u2
    User = {u1, u2}
    NoText <- MCNoText
    Line <- MCLine
    Request <- MCRequest
    Hash <- MCHash
    Proxy <- MCProxy
    Denom <- MCDenom
    Coin <- MCCoin
    Text <- MCText
    ChainId <- MCChainId
    Value <- MCValue
    MaxAsks = 2
SPECIFICATION ClientSpec
CHECK_DEADLOCK FALSE
INVARIANTS
    ActsAsAsked
    KeepersGetCheckedInputs
