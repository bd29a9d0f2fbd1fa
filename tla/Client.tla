------------------------------- MODULE Client -------------------------------
(***************************************************************************)
(* The way of a request from its user to a keeper.  A user types a command *)
(* of a module's client/cli/tx.go, posts to a route of its                 *)
(* client/rest/tx.go, or builds a message with a wallet of his own.  The   *)
(* message is signed, broadcast, perhaps delayed, reordered or repeated,   *)
(* checked by the node (ValidateBasic and GetSigners of internal/types/    *)
(* msgs.go) and turned into a call of the keeper (handler.go).             *)
(*                                                                         *)
(* A query goes from client/cli/query.go or client/rest/query.go through   *)
(* client/common to the querier of internal/keeper, which reads the stores.*)
(*                                                                         *)
(* A message stands here for what the node makes of it: who must sign it,  *)
(* whether its ValidateBasic passes, and the call its handler makes.       *)
(***************************************************************************)
EXTENDS Integers, Sequences, FiniteSets, Functions

CONSTANTS
    User,       \* addresses with a key
    Empty,      \* no bytes, an absent address
    ServerFrom, \* the REST server's own --from; it has none unless it is given one
    NoText,     \* the empty word; a word is a function from the parsers that take it
                \* to what they make of it
    Line,       \* what users type: a module, a command and its words
    Request,    \* what they post or get: a module, a route, the fields of its path and body
    \* what wallets put into messages, empty, invalid and good values alike:
    Hash, Proxy, \* bytes, and names of proxies
    Denom, Coin, Text, \* words for denoms, coins, words for anything else
    ChainId, Value, \* numbers
    MaxAsks     \* bound: requests that become transactions

ASSUME ClientAssumption ==
    /\ Empty \notin User
    /\ ServerFrom \in User \cup {Empty}
    /\ ChainId \subseteq Nat /\ Value \subseteq Int
    /\ NoText \in Denom \cap Text /\ Empty \in Hash \cap Proxy
    /\ MaxAsks \in Nat

Address == User \cup {Empty}

VARIABLES
    asked,     \* history: what users asked for
    generated, \* unsigned transactions that the REST server has returned
    txs,       \* signed transactions on the network; they can come at any time, and again
    sequence,  \* external: each account's number of transactions
    queries,   \* queries on their way to the node
    performed  \* history: the calls that keepers carried out or answered, in order

clientVars == <<asked, generated, txs, sequence, queries, performed>>

ClientInit ==
    /\ asked = {}
    /\ generated = {}
    /\ txs = {}
    /\ sequence = [u \in User |-> 0]
    /\ queries = {}
    /\ performed = <<>>

-----------------------------------------------------------------------------
(* Messages *)

Call(to, by, args) == [to |-> to, by |-> by, args |-> args]

Msg(signers, valid, call) == [signers |-> signers, valid |-> valid, call |-> call]

Parses(w, as) == as \in DOMAIN w

\* sdk.Coin.IsValid
ValidCoin(coin) == Parses(coin.denom, "denom") /\ coin.amount >= 0

-----------------------------------------------------------------------------
(* Words and lines *)

\* The words of a line are read each in its way; a text is not read at all.
Reads(args, kinds) == \A i \in DOMAIN kinds : kinds[i] = "text" \/ Parses(args[i], kinds[i])

ReadAs(args, kinds) ==
    [i \in DOMAIN kinds |-> IF kinds[i] = "text" THEN args[i] ELSE args[i][kinds[i]]]

\* What u asks for by naming values: the names are those of the command's usage
\* or of the route's fields.
Meant(to, u, names, values) ==
    Call(to, u, [n \in Range(names) |-> values[CHOOSE i \in DOMAIN names : names[i] = n]])

\* A field of a posted object, or its zero value.
Field(r, name, zero) == IF name \in DOMAIN r THEN r[name] ELSE zero

-----------------------------------------------------------------------------
(* Ways to ask *)

NewAsk(via, call) == [id |-> Cardinality(asked) + 1, via |-> via, call |-> call]

\* External: the ante handler of simapp/app.go:340 takes a transaction that is
\* signed by everyone who must and carries the next number of its signer.
Accepts(tx) ==
    /\ tx.msg.valid
    /\ tx.msg.signers = {tx.by}
    /\ tx.sequence = sequence[tx.by]

SignedTx(ask, u, msg) == [ask |-> ask, by |-> u, msg |-> msg, sequence |-> sequence[u]]

\* External: the command signs with u's key and broadcasts; the node that gets
\* the transaction checks it.  What fails on the way leaves nothing behind.
GenerateOrBroadcastMsgs(u, via, meant, msg) ==
    LET tx == SignedTx(NewAsk(via, meant), u, msg)
    IN /\ Accepts(tx)
       /\ asked' = asked \cup {tx.ask}
       /\ txs' = txs \cup {tx}
       /\ UNCHANGED <<generated, sequence, queries, performed>>

Cli(u, to, names, values, msg) ==
    GenerateOrBroadcastMsgs(u, "cli", Meant(to, u, names, values), msg)

\* A wallet asks for what its message says, done by its owner.
Compose(u, msg) == GenerateOrBroadcastMsgs(u, "wallet", [msg.call EXCEPT !.by = u], msg)

\* External: the server returns the message for its user to sign.
WriteGenerateStdTxResponse(meant, msg) ==
    LET ask == NewAsk("rest", meant)
    IN /\ asked' = asked \cup {ask}
       /\ generated' = generated \cup {[ask |-> ask, msg |-> msg]}
       /\ UNCHANGED <<txs, sequence, queries, performed>>

SignGenerated(g) ==
    LET tx == SignedTx(g.ask, g.ask.call.by, g.msg)
    IN /\ Accepts(tx)
       /\ txs' = txs \cup {tx}
       /\ generated' = generated \ {g}
       /\ UNCHANGED <<asked, sequence, queries, performed>>

\* The node executes tx.  Its number is used up, whether the keeper carries the
\* call out or refuses it.
Deliver(tx) ==
    /\ Accepts(tx)
    /\ sequence' = [sequence EXCEPT ![tx.by] = @ + 1]
    /\ \/ performed' = Append(performed, [tx.ask EXCEPT !.call = tx.msg.call])
       \/ UNCHANGED performed
    /\ UNCHANGED <<asked, generated, txs, queries>>

-----------------------------------------------------------------------------
(* Queries.  Nobody signs them. *)

Query(route, path, data) == [route |-> route, path |-> path, data |-> data]

\* External: cliCtx.QueryWithData.
QueryWithData(to, names, values, query) ==
    LET ask == NewAsk("query", Meant(to, Empty, names, values))
    IN /\ asked' = asked \cup {ask}
       /\ queries' = queries \cup {[ask |-> ask, query |-> query]}
       /\ UNCHANGED <<generated, txs, sequence, performed>>

\* A querier makes one call of its keeper.
Answer(q, to, args) ==
    /\ queries' = queries \ {q}
    /\ performed' = Append(performed, [q.ask EXCEPT !.call = Call(to, Empty, args)])
    /\ UNCHANGED <<asked, generated, txs, sequence>>

\* The path is unknown, or the keeper finds nothing: an error, or the panic of
\* btcx and ft when a denom has no creator.
Fail(q) ==
    /\ queries' = queries \ {q}
    /\ UNCHANGED <<asked, generated, txs, sequence, performed>>
=============================================================================
