------------------------ MODULE LockProxyPip1Client ------------------------
(* Messages, commands and routes of lockproxypip1. *)
EXTENDS Client

NewMsgCreateLockProxy(creator) ==
    Msg({creator}, creator # Empty,
        Call("lockproxypip1.CreateLockProxy", creator, [creator |-> creator]))

NewMsgCreateCoinAndDelegateToProxy(creator, coin, proxy, chainId, toProxy, toAsset) ==
    Msg({creator},
        /\ creator # Empty /\ ValidCoin(coin) /\ chainId > 0
        /\ toProxy # Empty /\ toAsset # Empty,
        Call("lockproxypip1.CreateCoinAndDelegateToProxy", creator,
             [coin |-> coin, lockProxyHash |-> proxy, toChainId |-> chainId,
              toChainProxyHash |-> toProxy, toAssetHash |-> toAsset]))

NewMsgLock(proxy, from, denom, chainId, toProxy, toAsset, to, value, deduct, fee, feeTo) ==
    Msg({from},
        /\ proxy # Empty /\ from # Empty /\ denom # NoText /\ chainId > 0
        /\ toProxy # Empty /\ toAsset # Empty /\ to # Empty
        /\ value >= 0 /\ fee >= 0 /\ feeTo # Empty,
        Call("lockproxypip1.Lock", from,
             [lockProxyHash |-> proxy, denom |-> denom, toChainId |-> chainId,
              toChainProxyHash |-> toProxy, toAssetHash |-> toAsset, toAddress |-> to,
              value |-> value, deductFeeInLock |-> deduct, feeAmount |-> fee,
              feeAddress |-> feeTo]))

-----------------------------------------------------------------------------
(* The one command and the one route *)

SendCreateLockProxyTxCmd(u, args) ==
    /\ Len(args) = 1 /\ Reads(args, <<"addr">>) /\ args[1].addr = u
    /\ Cli(u, "lockproxypip1.CreateLockProxy", <<"creator">>, <<u>>, NewMsgCreateLockProxy(u))

GetTxCmd(u, line) ==
    line.cmd = "create-lock-proxy-pip1" /\ SendCreateLockProxyTxCmd(u, line.args)

createLockProxyRequestHandlerFn(u, r) ==
    WriteGenerateStdTxResponse(Meant("lockproxypip1.CreateLockProxy", u, <<"creator">>, <<u>>),
                               NewMsgCreateLockProxy(ServerFrom))

registerTxRoutes(u, r) ==
    r.route = "create_lock_proxy" /\ createLockProxyRequestHandlerFn(u, r)

-----------------------------------------------------------------------------
(* Queries *)

QueryProxyByOperator(operator) ==
    Query("lockproxypip1", "query_proxy_by_operator", [Operator |-> operator])

QueryRegistry(lockProxyHash, assetHash, chainId, nativeLockProxyHash, nativeAssetHash) ==
    Query("lockproxypip1", "registry",
          [LockProxyHash |-> lockProxyHash, AssetHash |-> assetHash, NativeChainId |-> chainId,
           NativeLockProxyHash |-> nativeLockProxyHash, NativeAssetHash |-> nativeAssetHash])

AskProxyByOperator(v) ==
    QueryWithData("lockproxypip1.GetLockProxyByOperator", <<"operator">>, v,
                  QueryProxyByOperator(v[1]))

\* No command or route asks it, only a client of one's own.
ComposeRegistry(v) ==
    QueryWithData("lockproxypip1.AssetIsRegistered",
                  <<"lockProxyHash", "assetHash", "nativeChainId", "nativeLockProxyHash",
                    "nativeAssetHash">>, v, QueryRegistry(v[1], v[2], v[3], v[4], v[5]))

GetCmdQueryProxyByOperator(args) ==
    LET kinds == <<"addr">>
    IN Len(args) = 1 /\ Reads(args, kinds) /\ AskProxyByOperator(ReadAs(args, kinds))

GetQueryCmd(line) ==
    line.cmd = "proxy-hash-by-operator" /\ GetCmdQueryProxyByOperator(line.args)

queryProxyHashByOperatorHandlerFn(r) ==
    Parses(r.operator, "addr") /\ AskProxyByOperator(<<r.operator.addr>>)

registerQueryRoutes(r) ==
    r.route = "proxy_hash_by_operator" /\ queryProxyHashByOperatorHandlerFn(r)

NewQuerier(q) ==
    LET path == q.query.path  params == q.query.data IN
    \/ /\ path = "query_proxy_by_operator"
       /\ Answer(q, "lockproxypip1.GetLockProxyByOperator", [operator |-> params.Operator])
    \/ /\ path = "registry"
       /\ Answer(q, "lockproxypip1.AssetIsRegistered",
                 [lockProxyHash |-> params.LockProxyHash, assetHash |-> params.AssetHash,
                  nativeChainId |-> params.NativeChainId,
                  nativeLockProxyHash |-> params.NativeLockProxyHash,
                  nativeAssetHash |-> params.NativeAssetHash])

-----------------------------------------------------------------------------
(* Messages that a wallet can build *)

Messages ==
    {NewMsgCreateLockProxy(a) : a \in Address}
    \cup {NewMsgCreateCoinAndDelegateToProxy(a, x, p, c, q, h) :
              a \in Address, x \in Coin, p \in Proxy, c \in ChainId, q \in Hash, h \in Hash}
    \cup {NewMsgLock(p, a, d, c, q, h, t, n, b, fee, to) :
              p \in Proxy, a \in Address, d \in Denom, c \in ChainId, q \in Hash, h \in Hash,
              t \in Hash, n \in Value, b \in BOOLEAN, fee \in Value, to \in Address}
=============================================================================
