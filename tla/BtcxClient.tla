----------------------------- MODULE BtcxClient -----------------------------
(* Messages, commands and routes of btcx. *)
EXTENDS Client

\* The denom may also be a list, the first coin's denom with more coins after
\* it.  The script stays a text.
NewMsgCreateDenom(creator, denom, redeemScript) ==
    Msg({creator},
        creator # Empty /\ Parses(denom, "coinsAfter10") /\ Parses(redeemScript, "hex"),
        Call("btcx.CreateDenom", creator, [denom |-> denom, redeemScript |-> redeemScript]))

NewMsgBindAssetHash(creator, denom, toChainId, toAssetHash) ==
    Msg({creator}, creator # Empty /\ denom # NoText /\ toChainId > 0 /\ toAssetHash # Empty,
        Call("btcx.BindAssetHash", creator,
             [denom |-> denom, toChainId |-> toChainId, toAssetHash |-> toAssetHash]))

\* Mutant: the amount's sign is not looked at.
NewMsgLockOfAnyAmount(from, denom, toChainId, toAddress, value) ==
    Msg({from}, from # Empty /\ denom # NoText /\ toChainId > 0 /\ toAddress # Empty,
        Call("btcx.Lock", from, [denom |-> denom, toChainId |-> toChainId,
                                 toAddress |-> toAddress, value |-> value]))

NewMsgLock(from, denom, toChainId, toAddress, value) ==
    Msg({from},
        /\ from # Empty /\ denom # NoText /\ toChainId > 0 /\ toAddress # Empty
        /\ value >= 0,
        Call("btcx.Lock", from, [denom |-> denom, toChainId |-> toChainId,
                                 toAddress |-> toAddress, value |-> value]))

-----------------------------------------------------------------------------
(* Commands *)

SendCreateCoinTxCmd(u, args) ==
    /\ Len(args) = 2
    /\ Cli(u, "btcx.CreateDenom", <<"denom", "redeemScript">>, args,
           NewMsgCreateDenom(u, args[1], args[2]))

SendBindAssetHashTxCmd(u, args) ==
    LET kinds == <<"text", "uint", "hex0x">> v == ReadAs(args, kinds)
    IN /\ Len(args) = 3 /\ Reads(args, kinds)
       /\ Cli(u, "btcx.BindAssetHash", <<"denom", "toChainId", "toAssetHash">>, v,
              NewMsgBindAssetHash(u, v[1], v[2], v[3]))

SendLockTxCmd(u, args) ==
    LET kinds == <<"text", "uint", "hex", "int">> v == ReadAs(args, kinds)
    IN /\ Len(args) = 4 /\ Reads(args, kinds)
       /\ Cli(u, "btcx.Lock", <<"denom", "toChainId", "toAddress", "value">>, v,
              NewMsgLock(u, v[1], v[2], v[3], v[4]))

GetTxCmd(u, line) ==
    \/ line.cmd = "create-coin" /\ SendCreateCoinTxCmd(u, line.args)
    \/ line.cmd = "bind-asset-hash" /\ SendBindAssetHashTxCmd(u, line.args)
    \/ line.cmd = "lock" /\ SendLockTxCmd(u, line.args)

-----------------------------------------------------------------------------
(* Routes.  Messages are built from the sender in the request's base_req. *)

createCoinRequestHandlerFn(u, r) ==
    WriteGenerateStdTxResponse(
        Meant("btcx.CreateDenom", u, <<"denom", "redeemScript">>, <<r.denom, r.redeem_script>>),
        NewMsgCreateDenom(u, r.denom, r.redeem_script))

\* The chain that a request names: in to_chain_id, as on all other routes, or,
\* by one who knows, in the field that is read.
ToldChain(r, tag) == Field(r, "to_chain_id", Field(r, tag, 0))

\* The chain id is read from a field named redeem_script; to_chain_id is ignored.
bindAssetHashRequestHandlerFn(u, r) ==
    WriteGenerateStdTxResponse(
        Meant("btcx.BindAssetHash", u, <<"denom", "toChainId", "toAssetHash">>,
              <<r.denom, ToldChain(r, "redeem_script"), r.to_asset_hash>>),
        NewMsgBindAssetHash(u, r.denom, Field(r, "redeem_script", 0), r.to_asset_hash))

\* The chain id is read from a field named to_Chain_id.
lockRequestHandlerFn(u, r) ==
    WriteGenerateStdTxResponse(
        Meant("btcx.Lock", u, <<"denom", "toChainId", "toAddress", "value">>,
              <<r.source_asset_denom, ToldChain(r, "to_Chain_id"), r.to_address_bs, r.value>>),
        NewMsgLock(u, r.source_asset_denom, Field(r, "to_Chain_id", 0), r.to_address_bs,
                   r.value))

registerTxRoutes(u, r) ==
    \/ r.route = "create_coin" /\ createCoinRequestHandlerFn(u, r)
    \/ r.route = "bind_asset_hash" /\ bindAssetHashRequestHandlerFn(u, r)
    \/ r.route = "lock" /\ lockRequestHandlerFn(u, r)

-----------------------------------------------------------------------------
(* Queries *)

QueryDenomInfo(denom) == Query("btcx", "denom_info", [Denom |-> denom])

QueryDenomCrossChainInfo(denom, chainId) ==
    Query("btcx", "denom_cc_info", [Denom |-> denom, ChainId |-> chainId])

AskDenomInfo(v) ==
    QueryWithData("btcx.GetDenomInfo", <<"denom">>, v, QueryDenomInfo(v[1]))

AskDenomCrossChainInfo(v) ==
    QueryWithData("btcx.GetDenomCrossChainInfo", <<"denom", "toChainId">>, v,
                  QueryDenomCrossChainInfo(v[1], v[2]))

GetCmdQueryDenomInfo(args) == Len(args) = 1 /\ AskDenomInfo(args)

GetCmdQueryDenomInfoWithChainId(args) ==
    LET kinds == <<"text", "uint">>
    IN Len(args) = 2 /\ Reads(args, kinds) /\ AskDenomCrossChainInfo(ReadAs(args, kinds))

GetQueryCmd(line) ==
    \/ line.cmd = "denom-info" /\ GetCmdQueryDenomInfo(line.args)
    \/ line.cmd = "denom-cc-info" /\ GetCmdQueryDenomInfoWithChainId(line.args)

queryDemonWithChainIdHandlerFn(r) ==
    Parses(r.chain_id, "uint") /\ AskDenomCrossChainInfo(<<r.denom, r.chain_id.uint>>)

registerQueryRoutes(r) ==
    \/ r.route = "denom_info" /\ AskDenomInfo(<<r.denom>>)
    \/ r.route = "denom_cc_info" /\ queryDemonWithChainIdHandlerFn(r)

NewQuerier(q) ==
    LET path == q.query.path  params == q.query.data IN
    \/ /\ path = "denom_info"
       /\ Answer(q, "btcx.GetDenomInfo", [denom |-> params.Denom])
    \/ /\ path = "denom_cc_info"
       /\ Answer(q, "btcx.GetDenomCrossChainInfo",
                 [denom |-> params.Denom, toChainId |-> params.ChainId])

-----------------------------------------------------------------------------
(* Messages that a wallet can build *)

Messages ==
    {NewMsgCreateDenom(a, d, s) : a \in Address, d \in Denom, s \in Text}
    \cup {NewMsgBindAssetHash(a, d, c, h) :
              a \in Address, d \in Denom, c \in ChainId, h \in Hash}
    \cup {NewMsgLock(a, d, c, h, n) :
              a \in Address, d \in Denom, c \in ChainId, h \in Hash, n \in Value}
=============================================================================
