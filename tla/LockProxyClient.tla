-------------------------- MODULE LockProxyClient --------------------------
(* Messages, commands and routes of lockproxy. *)
EXTENDS Client

NewMsgCreateLockProxy(creator) ==
    Msg({creator}, creator # Empty,
        Call("lockproxy.CreateLockProxy", creator, [creator |-> creator]))

NewMsgCreateCoinAndDelegateToProxy(creator, coin, lockProxyHash) ==
    Msg({creator}, creator # Empty /\ ValidCoin(coin),
        Call("lockproxy.CreateCoinAndDelegateToProxy", creator,
             [coin |-> coin, lockProxyHash |-> lockProxyHash]))

NewMsgBindProxyHash(operator, toChainId, toChainProxyHash) ==
    Msg({operator}, operator # Empty /\ toChainId > 0 /\ toChainProxyHash # Empty,
        Call("lockproxy.BindProxyHash", operator,
             [toChainId |-> toChainId, toChainProxyHash |-> toChainProxyHash]))

\* "10" before the denom must make it a coin.
NewMsgBindAssetHash(operator, denom, toChainId, toAssetHash) ==
    Msg({operator},
        operator # Empty /\ Parses(denom, "after10") /\ toChainId > 0 /\ toAssetHash # Empty,
        Call("lockproxy.BindAssetHash", operator,
             [denom |-> denom, toChainId |-> toChainId, toAssetHash |-> toAssetHash]))

NewMsgLock(lockProxyHash, from, denom, toChainId, toAddress, value) ==
    Msg({from},
        /\ lockProxyHash # Empty /\ from # Empty /\ denom # NoText
        /\ toChainId > 0 /\ toAddress # Empty /\ value >= 0,
        Call("lockproxy.Lock", from,
             [lockProxyHash |-> lockProxyHash, denom |-> denom, toChainId |-> toChainId,
              toAddress |-> toAddress, value |-> value]))

-----------------------------------------------------------------------------
(* Commands *)

\* The key is that of the address typed.
SendCreateLockProxyTxCmd(u, args) ==
    /\ Len(args) = 1 /\ Reads(args, <<"addr">>) /\ args[1].addr = u
    /\ Cli(u, "lockproxy.CreateLockProxy", <<"creator">>, <<u>>, NewMsgCreateLockProxy(u))

\* Its usage names two words; a third is typed for nothing.
SendBindProxyHashTxCmd(u, args) ==
    LET kinds == <<"uint", "hex0x">> v == ReadAs(args, kinds)
    IN /\ Len(args) = 3 /\ Reads(args, kinds)
       /\ Cli(u, "lockproxy.BindProxyHash", <<"toChainId", "toChainProxyHash">>, v,
              NewMsgBindProxyHash(u, v[1], v[2]))

\* Its usage names three words, its example types four.
SendBindAssetHashTxCmd(u, args) ==
    LET kinds == <<"text", "uint", "hex0x">> v == ReadAs(args, kinds)
    IN /\ Len(args) = 4 /\ Reads(args, kinds)
       /\ Cli(u, "lockproxy.BindAssetHash", <<"denom", "toChainId", "toAssetHash">>, v,
              NewMsgBindAssetHash(u, v[1], v[2], v[3]))

\* Mutant: the words for the proxy and the receiver are mixed up.
SendSwappedLockTxCmd(u, args) ==
    LET kinds == <<"hex", "text", "uint", "hex", "int">> v == ReadAs(args, kinds)
    IN /\ Len(args) = 5 /\ Reads(args, kinds)
       /\ Cli(u, "lockproxy.Lock",
              <<"lockProxyHash", "denom", "toChainId", "toAddress", "value">>, v,
              NewMsgLock(v[4], u, v[2], v[3], v[1], v[5]))

SendLockTxCmd(u, args) ==
    LET kinds == <<"hex", "text", "uint", "hex", "int">> v == ReadAs(args, kinds)
    IN /\ Len(args) = 5 /\ Reads(args, kinds)
       /\ Cli(u, "lockproxy.Lock",
              <<"lockProxyHash", "denom", "toChainId", "toAddress", "value">>, v,
              NewMsgLock(v[1], u, v[2], v[3], v[4], v[5]))

\* create-coin-delegate is not among them: it takes two words and reads a third,
\* so that it ends in a panic, or in an error when three are typed.
GetTxCmd(u, line) ==
    \/ line.cmd = "create-lock-proxy" /\ SendCreateLockProxyTxCmd(u, line.args)
    \/ line.cmd = "bind-proxy-hash" /\ SendBindProxyHashTxCmd(u, line.args)
    \/ line.cmd = "bind-asset-hash" /\ SendBindAssetHashTxCmd(u, line.args)
    \/ line.cmd = "lock" /\ SendLockTxCmd(u, line.args)

-----------------------------------------------------------------------------
(* Routes.  Messages are built from the server's own address, not from that of *)
(* the request's base_req.                                                     *)

createLockProxyRequestHandlerFn(u, r) ==
    WriteGenerateStdTxResponse(Meant("lockproxy.CreateLockProxy", u, <<"creator">>, <<u>>),
                               NewMsgCreateLockProxy(ServerFrom))

\* Only hex here, while the command takes an address as well.
CreateAndDelegateCoinRequestHandlerFn(u, r) ==
    LET v == <<r.coin.coin, r.lock_proxy_hash.hex>>
    IN /\ Parses(r.coin, "coin") /\ Parses(r.lock_proxy_hash, "hex")
       /\ WriteGenerateStdTxResponse(
              Meant("lockproxy.CreateCoinAndDelegateToProxy", u, <<"coin", "lockProxyHash">>, v),
              NewMsgCreateCoinAndDelegateToProxy(ServerFrom, v[1], v[2]))

bindProxyRequestHandlerFn(u, r) ==
    LET v == <<r.to_chain_id.uint, r.to_lock_proxy_hash.hex0x>>
    IN /\ Parses(r.to_chain_id, "uint") /\ Parses(r.to_lock_proxy_hash, "hex0x")
       /\ WriteGenerateStdTxResponse(
              Meant("lockproxy.BindProxyHash", u, <<"toChainId", "toChainProxyHash">>, v),
              NewMsgBindProxyHash(ServerFrom, v[1], v[2]))

bindAssetRequestHandlerFn(u, r) ==
    WriteGenerateStdTxResponse(
        Meant("lockproxy.BindAssetHash", u, <<"denom", "toChainId", "toAssetHash">>,
              <<r.denom, r.to_chain_id, r.to_asset_hash>>),
        NewMsgBindAssetHash(ServerFrom, r.denom, r.to_chain_id, r.to_asset_hash))

\* The first two arguments are passed in the wrong order: the proxy's hash is
\* the server's address and the coins are to come from the proxy.
lockRequestHandlerFn(u, r) ==
    WriteGenerateStdTxResponse(
        Meant("lockproxy.Lock", u, <<"lockProxyHash", "denom", "toChainId", "toAddress", "value">>,
              <<r.lock_proxy, r.denom, r.to_chain_id, r.to_address, r.amount>>),
        NewMsgLock(ServerFrom, r.lock_proxy, r.denom, r.to_chain_id, r.to_address, r.amount))

registerTxRoutes(u, r) ==
    \/ r.route = "create_lock_proxy" /\ createLockProxyRequestHandlerFn(u, r)
    \/ r.route = "create_and_delegate" /\ CreateAndDelegateCoinRequestHandlerFn(u, r)
    \/ r.route = "bind_proxy" /\ bindProxyRequestHandlerFn(u, r)
    \/ r.route = "bind_asset" /\ bindAssetRequestHandlerFn(u, r)
    \/ r.route = "lock" /\ lockRequestHandlerFn(u, r)

-----------------------------------------------------------------------------
(* Queries *)

QueryProxyByOperator(operator) ==
    Query("lockproxy", "query_proxy_by_operator", [Operator |-> operator])

QueryProxyHash(lockProxyHash, chainId) ==
    Query("lockproxy", "proxy_hash", [LockProxyHash |-> lockProxyHash, ChainId |-> chainId])

QueryAssetHash(lockProxy, sourceAssetDenom, chainId) ==
    Query("lockproxy", "asset_hash", [LockProxyHash |-> lockProxy,
          SourceAssetDenom |-> sourceAssetDenom, ChainId |-> chainId])

AskProxyByOperator(v) ==
    QueryWithData("lockproxy.GetLockProxyByOperator", <<"operator">>, v,
                  QueryProxyByOperator(v[1]))

AskProxyHash(v) ==
    QueryWithData("lockproxy.GetProxyHash", <<"lockProxyHash", "toChainId">>, v,
                  QueryProxyHash(v[1], v[2]))

AskAssetHash(v) ==
    QueryWithData("lockproxy.GetAssetHash", <<"lockProxyHash", "denom", "toChainId">>, v,
                  QueryAssetHash(v[1], v[2], v[3]))

GetCmdQueryProxyByOperator(args) ==
    LET kinds == <<"addr">>
    IN Len(args) = 1 /\ Reads(args, kinds) /\ AskProxyByOperator(ReadAs(args, kinds))

GetCmdQueryProxyHash(args) ==
    LET kinds == <<"addrOrHex", "uint">>
    IN Len(args) = 2 /\ Reads(args, kinds) /\ AskProxyHash(ReadAs(args, kinds))

GetCmdQueryAssetHash(args) ==
    LET kinds == <<"addrOrHex", "text", "uint">>
    IN Len(args) = 3 /\ Reads(args, kinds) /\ AskAssetHash(ReadAs(args, kinds))

GetQueryCmd(line) ==
    \/ line.cmd = "proxy-hash-by-operator" /\ GetCmdQueryProxyByOperator(line.args)
    \/ line.cmd = "proxy-hash" /\ GetCmdQueryProxyHash(line.args)
    \/ line.cmd = "asset-hash" /\ GetCmdQueryAssetHash(line.args)

queryProxyHashByOperatorHandlerFn(r) ==
    Parses(r.operator, "addr") /\ AskProxyByOperator(<<r.operator.addr>>)

\* Only hex here.
queryProxyHashHandlerFn(r) ==
    /\ Parses(r.lock_proxy_hash, "hex") /\ Parses(r.to_chain_id, "uint")
    /\ AskProxyHash(<<r.lock_proxy_hash.hex, r.to_chain_id.uint>>)

queryAssetHashHandlerFn(r) ==
    /\ Parses(r.lock_proxy_hash, "hex") /\ Parses(r.to_chain_id, "uint")
    /\ AskAssetHash(<<r.lock_proxy_hash.hex, r.asset_denom, r.to_chain_id.uint>>)

registerQueryRoutes(r) ==
    \/ r.route = "proxy_hash_by_operator" /\ queryProxyHashByOperatorHandlerFn(r)
    \/ r.route = "proxy_hash" /\ queryProxyHashHandlerFn(r)
    \/ r.route = "asset_hash" /\ queryAssetHashHandlerFn(r)

NewQuerier(q) ==
    LET path == q.query.path  params == q.query.data IN
    \/ /\ path = "query_proxy_by_operator"
       /\ Answer(q, "lockproxy.GetLockProxyByOperator", [operator |-> params.Operator])
    \/ /\ path = "proxy_hash"
       /\ Answer(q, "lockproxy.GetProxyHash",
                 [lockProxyHash |-> params.LockProxyHash, toChainId |-> params.ChainId])
    \/ /\ path = "asset_hash"
       /\ Answer(q, "lockproxy.GetAssetHash",
                 [lockProxyHash |-> params.LockProxyHash, denom |-> params.SourceAssetDenom,
                  toChainId |-> params.ChainId])

-----------------------------------------------------------------------------
(* Messages that a wallet can build *)

Messages ==
    {NewMsgCreateLockProxy(a) : a \in Address}
    \cup {NewMsgCreateCoinAndDelegateToProxy(a, x, p) : a \in Address, x \in Coin, p \in Proxy}
    \cup {NewMsgBindProxyHash(a, c, h) : a \in Address, c \in ChainId, h \in Hash}
    \cup {NewMsgBindAssetHash(a, d, c, h) :
              a \in Address, d \in Denom, c \in ChainId, h \in Hash}
    \cup {NewMsgLock(p, a, d, c, h, n) :
              p \in Proxy, a \in Address, d \in Denom, c \in ChainId, h \in Hash, n \in Value}
=============================================================================
