------------------------------ MODULE FtClient ------------------------------
(* Messages, commands and routes of ft. *)
EXTENDS Client

NewMsgCreateDenom(creator, denom) ==
    Msg({creator}, creator # Empty /\ Parses(denom, "after10"),
        Call("ft.CreateDenom", creator, [denom |-> denom]))

NewMsgBindAssetHash(creator, denom, toChainId, toAssetHash) ==
    Msg({creator}, creator # Empty /\ denom # NoText /\ toChainId > 0 /\ toAssetHash # Empty,
        Call("ft.BindAssetHash", creator,
             [denom |-> denom, toChainId |-> toChainId, toAssetHash |-> toAssetHash]))

NewMsgLock(from, denom, toChainId, toAddress, value) ==
    Msg({from},
        /\ from # Empty /\ denom # NoText /\ toChainId > 0 /\ toAddress # Empty
        /\ value >= 0,
        Call("ft.Lock", from, [denom |-> denom, toChainId |-> toChainId,
                               toAddress |-> toAddress, value |-> value]))

\* The coins are a text until the handler reads it, as ValidateBasic did.  The
\* empty text is a list of no coins.
NewMsgCreateCoins(creator, coins) ==
    Msg({creator}, creator # Empty /\ Parses(coins, "coins"),
        Call("ft.CreateCoins", creator, [coins |-> coins]))

-----------------------------------------------------------------------------
(* Commands *)

\* The creator is typed; the key that signs is that of the flag --from.
SendCreateDenomTxCmd(u, args) ==
    /\ Len(args) = 2 /\ Reads(args, <<"addr">>)
    /\ Cli(u, "ft.CreateDenom", <<"denom">>, <<args[2]>>,
           NewMsgCreateDenom(args[1].addr, args[2]))

\* The fourth word of its usage, an initial amount, is not read.
SendBindAssetHashTxCmd(u, args) ==
    LET kinds == <<"text", "uint", "hex0x">> v == ReadAs(args, kinds)
    IN /\ Len(args) = 4 /\ Reads(args, kinds)
       /\ Cli(u, "ft.BindAssetHash", <<"denom", "toChainId", "toAssetHash">>, v,
              NewMsgBindAssetHash(u, v[1], v[2], v[3]))

SendLockTxCmd(u, args) ==
    LET kinds == <<"text", "uint", "hex", "int">> v == ReadAs(args, kinds)
    IN /\ Len(args) = 4 /\ Reads(args, kinds)
       /\ Cli(u, "ft.Lock", <<"denom", "toChainId", "toAddress", "value">>, v,
              NewMsgLock(u, v[1], v[2], v[3], v[4]))

SendCreateCoinsTxCmd(u, args) ==
    /\ Len(args) = 2 /\ Reads(args, <<"addr">>)
    /\ Cli(u, "ft.CreateCoins", <<"coins">>, <<args[2]>>,
           NewMsgCreateCoins(args[1].addr, args[2]))

GetTxCmd(u, line) ==
    \/ line.cmd = "create-denom" /\ SendCreateDenomTxCmd(u, line.args)
    \/ line.cmd = "bind-asset-hash" /\ SendBindAssetHashTxCmd(u, line.args)
    \/ line.cmd = "lock" /\ SendLockTxCmd(u, line.args)
    \/ line.cmd = "create-coins" /\ SendCreateCoinsTxCmd(u, line.args)

-----------------------------------------------------------------------------
(* Routes.  Messages are built from the server's own address. *)

\* One coin only, while the message could hold several.
CreateCoinsRequestHandlerFn(u, r) ==
    /\ Parses(r.coins, "coin")
    /\ WriteGenerateStdTxResponse(Meant("ft.CreateCoins", u, <<"coins">>, <<r.coins>>),
                                  NewMsgCreateCoins(ServerFrom, r.coins))

CreateDenomRequestHandlerFn(u, r) ==
    WriteGenerateStdTxResponse(Meant("ft.CreateDenom", u, <<"denom">>, <<r.denom>>),
                               NewMsgCreateDenom(ServerFrom, r.denom))

BindAssetHashRequestHandlerFn(u, r) ==
    LET v == <<r.denom, r.to_chain_id, r.to_asset_hash.hex>>
    IN /\ Parses(r.to_asset_hash, "hex")
       /\ WriteGenerateStdTxResponse(
              Meant("ft.BindAssetHash", u, <<"denom", "toChainId", "toAssetHash">>, v),
              NewMsgBindAssetHash(ServerFrom, v[1], v[2], v[3]))

LockRequestHandlerFn(u, r) ==
    LET v == <<r.denom, r.to_chain_id, r.to_address, r.amount>>
    IN WriteGenerateStdTxResponse(
           Meant("ft.Lock", u, <<"denom", "toChainId", "toAddress", "value">>, v),
           NewMsgLock(ServerFrom, v[1], v[2], v[3], v[4]))

registerTxRoutes(u, r) ==
    \/ r.route = "create_coins" /\ CreateCoinsRequestHandlerFn(u, r)
    \/ r.route = "create_denom" /\ CreateDenomRequestHandlerFn(u, r)
    \/ r.route = "bind_asset_hash" /\ BindAssetHashRequestHandlerFn(u, r)
    \/ r.route = "lock" /\ LockRequestHandlerFn(u, r)

-----------------------------------------------------------------------------
(* Queries *)

QueryDenomInfo(denom) == Query("ft", "denom_info", [Denom |-> denom])

QueryDenomCrossChainInfo(denom, chainId) ==
    Query("ft", "denom_cc_info", [Denom |-> denom, ChainId |-> chainId])

AskDenomInfo(v) ==
    QueryWithData("ft.GetDenomInfo", <<"denom">>, v, QueryDenomInfo(v[1]))

AskDenomCrossChainInfo(v) ==
    QueryWithData("ft.GetDenomCrossChainInfo", <<"denom", "toChainId">>, v,
                  QueryDenomCrossChainInfo(v[1], v[2]))

GetCmdQueryDenomInfo(args) == Len(args) = 1 /\ AskDenomInfo(args)

GetCmdQueryDenomCrossChainInfo(args) ==
    LET kinds == <<"text", "uint">>
    IN Len(args) = 2 /\ Reads(args, kinds) /\ AskDenomCrossChainInfo(ReadAs(args, kinds))

GetQueryCmd(line) ==
    \/ line.cmd = "denom-info" /\ GetCmdQueryDenomInfo(line.args)
    \/ line.cmd = "denom-cross-chain-info" /\ GetCmdQueryDenomCrossChainInfo(line.args)

queryDemonCrossChainInfoHandlerFn(r) ==
    Parses(r.chain_id, "uint") /\ AskDenomCrossChainInfo(<<r.denom, r.chain_id.uint>>)

registerQueryRoutes(r) ==
    \/ r.route = "denom_info" /\ AskDenomInfo(<<r.denom>>)
    \/ r.route = "denom_cc_info" /\ queryDemonCrossChainInfoHandlerFn(r)

NewQuerier(q) ==
    LET path == q.query.path  params == q.query.data IN
    \/ /\ path = "denom_info"
       /\ Answer(q, "ft.GetDenomInfo", [denom |-> params.Denom])
    \/ /\ path = "denom_cc_info"
       /\ Answer(q, "ft.GetDenomCrossChainInfo",
                 [denom |-> params.Denom, toChainId |-> params.ChainId])

-----------------------------------------------------------------------------
(* Messages that a wallet can build *)

Messages ==
    {NewMsgCreateDenom(a, d) : a \in Address, d \in Denom}
    \cup {NewMsgBindAssetHash(a, d, c, h) :
              a \in Address, d \in Denom, c \in ChainId, h \in Hash}
    \cup {NewMsgLock(a, d, c, h, n) :
              a \in Address, d \in Denom, c \in ChainId, h \in Hash, n \in Value}
    \cup {NewMsgCreateCoins(a, x) : a \in Address, x \in Text}
=============================================================================
