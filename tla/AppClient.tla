----------------------------- MODULE AppClient -----------------------------
(***************************************************************************)
(* The commands, routes, messages and queries of all modules, over one     *)
(* node.  The modules' sets of commands are those that GetTxCmd and        *)
(* GetQueryCmd of each module.go add to the client, the routes those of    *)
(* RegisterRESTRoutes.                                                     *)
(***************************************************************************)
EXTENDS Client

lockproxy == INSTANCE LockProxyClient
pip1 == INSTANCE LockProxyPip1Client
btcx == INSTANCE BtcxClient
ft == INSTANCE FtClient
poly == INSTANCE PolyClient

\* The messages that pass ValidateBasic, the others being refused wherever they
\* come from.
ValidMessages ==
    {m \in lockproxy!Messages \cup pip1!Messages \cup btcx!Messages \cup ft!Messages
           \cup poly!Messages : m.valid}

TypeLine(u, line) ==
    \/ line.module = "lockproxy" /\ lockproxy!GetTxCmd(u, line)
    \/ line.module = "lockproxypip1" /\ pip1!GetTxCmd(u, line)
    \/ line.module = "btcx" /\ btcx!GetTxCmd(u, line)
    \/ line.module = "ft" /\ ft!GetTxCmd(u, line)
    \/ line.module = "poly" /\ poly!GetTxCmd(u, line)

Post(u, r) ==
    \/ r.module = "lockproxy" /\ lockproxy!registerTxRoutes(u, r)
    \/ r.module = "lockproxypip1" /\ pip1!registerTxRoutes(u, r)
    \/ r.module = "btcx" /\ btcx!registerTxRoutes(u, r)
    \/ r.module = "ft" /\ ft!registerTxRoutes(u, r)
    \/ r.module = "poly" /\ poly!registerTxRoutes(u, r)

TypeQuery(line) ==
    \/ line.module = "lockproxy" /\ lockproxy!GetQueryCmd(line)
    \/ line.module = "lockproxypip1" /\ pip1!GetQueryCmd(line)
    \/ line.module = "btcx" /\ btcx!GetQueryCmd(line)
    \/ line.module = "ft" /\ ft!GetQueryCmd(line)
    \/ line.module = "poly" /\ poly!GetQueryCmd(line)

GetRoute(r) ==
    \/ r.module = "lockproxy" /\ lockproxy!registerQueryRoutes(r)
    \/ r.module = "lockproxypip1" /\ pip1!registerQueryRoutes(r)
    \/ r.module = "btcx" /\ btcx!registerQueryRoutes(r)
    \/ r.module = "ft" /\ ft!registerQueryRoutes(r)
    \/ r.module = "poly" /\ poly!registerQueryRoutes(r)

\* What commands and routes do not ask, or not rightly.
ComposeQuery ==
    \/ \E p \in Proxy, c \in ChainId, h, q, a \in Hash :
           pip1!ComposeRegistry(<<p, h, c, q, a>>)
    \/ \E name \in Text : poly!ComposeModuleBalance(<<name>>)

AnswerQuery(q) ==
    \/ q.query.route = "lockproxy" /\ lockproxy!NewQuerier(q)
    \/ q.query.route = "lockproxypip1" /\ pip1!NewQuerier(q)
    \/ q.query.route = "btcx" /\ btcx!NewQuerier(q)
    \/ q.query.route = "ft" /\ ft!NewQuerier(q)
    \/ q.query.route = "headersync" /\ poly!NewHeaderSyncQuerier(q)
    \/ q.query.route = "ccm" /\ poly!NewCcmQuerier(q)

ClientNext ==
    \/ /\ Cardinality(asked) < MaxAsks
       /\ \/ \E u \in User :
                 \/ \E line \in Line : TypeLine(u, line)
                 \/ \E r \in Request : Post(u, r)
                 \/ \E m \in ValidMessages : Compose(u, m)
          \/ \E line \in Line : TypeQuery(line)
          \/ \E r \in Request : GetRoute(r)
          \/ ComposeQuery
    \/ \E g \in generated : SignGenerated(g)
    \/ \E tx \in txs : Deliver(tx)
    \/ \E q \in queries : AnswerQuery(q) \/ Fail(q)

ClientSpec == ClientInit /\ [][ClientNext]_clientVars

-----------------------------------------------------------------------------
(* Properties *)

\* lockproxy's lock route takes the server's address for the proxy and the
\* proxy for the one who pays (lockproxy/client/rest/tx.go:182): who names a
\* proxy of his own locks with the proxy of the server.
LockSwapped(meant, done) ==
    /\ meant.to = "lockproxy.Lock" /\ meant.args.lockProxyHash = meant.by
    /\ done = [meant EXCEPT !.args.lockProxyHash = ServerFrom]

\* Two routes of btcx read the chain from another field than to_chain_id
\* (btcx/client/rest/tx.go:50 and 57), which may name another chain.
ChainMistagged(meant, done) ==
    /\ meant.to \in {"btcx.BindAssetHash", "btcx.Lock"}
    /\ done = [meant EXCEPT !.args.toChainId = done.args.toChainId]

\* What may be done for a request: what was meant, but for those three routes.
Carries(via, meant, done) ==
    \/ done = meant
    \/ via = "rest" /\ (LockSwapped(meant, done) \/ ChainMistagged(meant, done))

Serves(ask, done) ==
    done.id = ask.id /\ done.via = ask.via /\ Carries(ask.via, ask.call, done.call)

\* Between a request and the keeper no argument is lost, changed or mixed up
\* with another, but for the proxy and the chain of three routes, nobody acts in
\* another's name, and a transaction that comes again is not executed again: in
\* fourteen commands, fifteen routes and nineteen messages of six modules, each
\* of which reads, checks, signs for and passes on its arguments by position
\* (client/cli/tx.go, client/rest/tx.go, internal/types/msgs.go), and in twelve
\* commands and as many routes that ask thirteen queries through client/common
\* and internal/keeper/querier.go.
ActsAsAsked == \A i \in DOMAIN performed :
    /\ \E ask \in asked : Serves(ask, performed[i])
    /\ \A j \in DOMAIN performed : performed[i].id = performed[j].id => i = j

\* A lock that is posted to lockproxy's route is made with the proxy it names:
\* lockproxy/client/rest/tx.go:62 calls the field lock_proxy and
\* lockproxy/internal/types/msgs.go:229 takes the proxy first.  What the route
\* does instead, LockSwapped, breaks it when the server has an address.
LocksWithProxyNamed == \A i \in DOMAIN performed :
    performed[i].via = "rest" /\ performed[i].call.to = "lockproxy.Lock" =>
        performed[i] \in asked

\* Amounts that a call names, and the bytes of those that must name something.
Amounts(a) == {a[f] : f \in DOMAIN a \cap {"value", "feeAmount"}}
Targets(a) ==
    {a[f] : f \in DOMAIN a \cap {"toAddress", "toAssetHash", "toChainProxyHash", "feeAddress"}}

\* What the keepers take for granted and check no more: no amount is negative
\* (a negative one would be burnt into existence), no chain has id zero, the
\* default of a field left out, and no target is empty, whichever way the call
\* came (internal/types/msgs.go of each module, relied on by its keeper.go).
\* Queries are checked by nobody and may hold anything.
KeepersGetCheckedInputs == \A i \in DOMAIN performed : performed[i].via # "query" =>
    LET a == performed[i].call.args IN
    /\ \A n \in Amounts(a) : n >= 0
    /\ "toChainId" \in DOMAIN a => a.toChainId > 0
    /\ Empty \notin Targets(a)
=============================================================================
