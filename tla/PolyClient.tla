----------------------------- MODULE PolyClient -----------------------------
(* Messages, commands and routes of headersync and ccm, for relayers. *)
EXTENDS Client

NewMsgSyncGenesisParam(syncer, genesisHeader) ==
    Msg({syncer}, syncer # Empty /\ genesisHeader # NoText,
        Call("headersync.SyncGenesisHeader", syncer, [genesisHeader |-> genesisHeader]))

NewMsgSyncHeadersParam(syncer, headers) ==
    Msg({syncer}, syncer # Empty /\ Len(headers) > 0,
        Call("headersync.SyncBlockHeaders", syncer, [headers |-> headers]))

\* The header's proof and the current header may be missing.
NewMsgProcessCrossChainTx(submitter, fromChainId, proof, header, headerProof, curHeader) ==
    Msg({submitter}, submitter # Empty /\ proof # NoText /\ header # NoText,
        Call("ccm.ProcessCrossChainTx", submitter,
             [fromChainId |-> fromChainId, proof |-> proof, header |-> header,
              headerProof |-> headerProof, curHeader |-> curHeader]))

\* Nobody signs it, so no transaction of this message alone is accepted, and
\* ccm's handler knows it not.
NewMsgCreateCrossChainTx(toChainId, toContractAddress, method, args) ==
    Msg({}, toChainId > 0 /\ toContractAddress # Empty /\ method # NoText /\ args # Empty,
        Call("ccm.unrecognized", Empty,
             [toChainId |-> toChainId, toContractAddress |-> toContractAddress,
              method |-> method, args |-> args]))

-----------------------------------------------------------------------------
(* Commands *)

SendSyncGenesisTxCmd(u, args) ==
    /\ Len(args) = 1
    /\ Cli(u, "headersync.SyncGenesisHeader", <<"genesisHeader">>, args,
           NewMsgSyncGenesisParam(u, args[1]))

\* One header at a time.
SendSyncHeaderTxCmd(u, args) ==
    /\ Len(args) = 1
    /\ Cli(u, "headersync.SyncBlockHeaders", <<"headers">>, << <<args[1]>> >>,
           NewMsgSyncHeadersParam(u, <<args[1]>>))

\* ccm's process-crosschain-tx is not among them: it takes four words and reads
\* a fifth, so that it ends in a panic, or in an error when five are typed.
GetTxCmd(u, line) ==
    \/ line.cmd = "sync-genesis" /\ SendSyncGenesisTxCmd(u, line.args)
    \/ line.cmd = "sync-header" /\ SendSyncHeaderTxCmd(u, line.args)

-----------------------------------------------------------------------------
(* Routes: headersync builds its message from the server's own address, ccm    *)
(* from the sender's.                                                          *)

SyncHeadersRequestHandlerFn(u, r) ==
    WriteGenerateStdTxResponse(
        Meant("headersync.SyncBlockHeaders", u, <<"headers">>, <<r.headers>>),
        NewMsgSyncHeadersParam(ServerFrom, r.headers))

ProcessCrossChainTxRequestHandlerFn(u, r) ==
    LET v == <<r.from_chain_id, r.proof, r.header, r.header_proof, r.cur_header>>
    IN WriteGenerateStdTxResponse(
           Meant("ccm.ProcessCrossChainTx", u,
                 <<"fromChainId", "proof", "header", "headerProof", "curHeader">>, v),
           NewMsgProcessCrossChainTx(u, v[1], v[2], v[3], v[4], v[5]))

registerTxRoutes(u, r) ==
    \/ r.route = "sync_headers" /\ SyncHeadersRequestHandlerFn(u, r)
    \/ r.route = "process_crosschain_tx" /\ ProcessCrossChainTxRequestHandlerFn(u, r)

-----------------------------------------------------------------------------
(* Queries *)

QueryConsensusPeers(chainId) == Query("headersync", "consensus_peers", [ChainId |-> chainId])

QueryIfContainContract(keystore, toContractAddr, fromChainId) ==
    Query("ccm", "if_contain_contract", [KeyStore |-> keystore,
          ToContractAddr |-> toContractAddr, FromChainId |-> fromChainId])

QueryParams == Query("ccm", "parameters", <<>>)

\* The parameters, formatted, stand where the path should, and none are sent.
QueryModuleBalance(moduleName) == Query("ccm", "{module_name}", <<>>)

AskConsensusPeers(v) ==
    QueryWithData("headersync.GetConsensusPeers", <<"chainId">>, v, QueryConsensusPeers(v[1]))

AskIfContainContract(v) ==
    QueryWithData("ccm.IfContainToContract", <<"keystore", "toContract", "fromChainId">>, v,
                  QueryIfContainContract(v[1], v[2], v[3]))

AskParams == QueryWithData("ccm.GetParams", <<>>, <<>>, QueryParams)

AskModuleBalance(v) ==
    QueryWithData("ccm.GetModuleBalance", <<"moduleName">>, v, QueryModuleBalance(v[1]))

\* External: a client of one's own gets an answer.
ComposeModuleBalance(v) ==
    QueryWithData("ccm.GetModuleBalance", <<"moduleName">>, v,
                  Query("ccm", "module_balance", [ModuleName |-> v[1]]))

\* Its usage names one word; a second is typed for nothing.
GetCmdQueryConsensusPeers(args) ==
    LET kinds == <<"uint">>
    IN Len(args) = 2 /\ Reads(args, kinds) /\ AskConsensusPeers(ReadAs(args, kinds))

\* Errors of reading are dropped: a contract that is not hex counts as the bytes
\* before its first wrong digit, often none, a chain that is no number as 0, and
\* that is what is asked about.
GetCmdQueryIfContainContract(args) ==
    LET kinds == <<"text", "hexPrefix", "intOrZero">>
    IN Len(args) = 3 /\ Reads(args, kinds) /\ AskIfContainContract(ReadAs(args, kinds))

GetQueryCmd(line) ==
    \/ line.cmd = "consensus-peer" /\ GetCmdQueryConsensusPeers(line.args)
    \/ line.cmd = "if-contain-contract" /\ GetCmdQueryIfContainContract(line.args)
    \/ line.cmd = "parameters" /\ line.args = <<>> /\ AskParams
    \/ line.cmd = "module-balance" /\ Len(line.args) = 1 /\ AskModuleBalance(line.args)

queryCurrentCPHandlerFn(r) == Parses(r.chain_id, "uint") /\ AskConsensusPeers(<<r.chain_id.uint>>)

queryIfContainContract(r) ==
    /\ Parses(r.to_contract, "hex") /\ Parses(r.from_chain_id, "uint")
    /\ AskIfContainContract(<<r.module_store_key, r.to_contract.hex, r.from_chain_id.uint>>)

registerQueryRoutes(r) ==
    \/ r.route = "current_consensus_peers" /\ queryCurrentCPHandlerFn(r)
    \/ r.route = "if_contain_contract" /\ queryIfContainContract(r)
    \/ r.route = "parameters" /\ AskParams
    \/ r.route = "module_balance" /\ AskModuleBalance(<<r.module_name>>)

NewHeaderSyncQuerier(q) ==
    /\ q.query.path = "consensus_peers"
    /\ Answer(q, "headersync.GetConsensusPeers", [chainId |-> q.query.data.ChainId])

NewCcmQuerier(q) ==
    LET path == q.query.path  params == q.query.data IN
    \/ /\ path = "if_contain_contract"
       /\ Answer(q, "ccm.IfContainToContract",
                 [keystore |-> params.KeyStore, toContract |-> params.ToContractAddr,
                  fromChainId |-> params.FromChainId])
    \/ path = "parameters" /\ Answer(q, "ccm.GetParams", <<>>)
    \/ path = "module_balance" /\ Answer(q, "ccm.GetModuleBalance", [moduleName |-> params.ModuleName])

-----------------------------------------------------------------------------
(* Messages that a wallet can build *)

Messages ==
    {NewMsgSyncGenesisParam(a, h) : a \in Address, h \in Text}
    \cup {NewMsgSyncHeadersParam(a, hs) : a \in Address, hs \in {<<>>} \cup {<<w>> : w \in Text}}
    \cup {NewMsgProcessCrossChainTx(a, c, p, h, q, k) :
              a \in Address, c \in ChainId, p \in Text, h \in Text, q \in Text, k \in Text}
    \cup {NewMsgCreateCrossChainTx(c, h, m, b) :
              c \in ChainId, h \in Hash, m \in Text, b \in Hash}
=============================================================================
