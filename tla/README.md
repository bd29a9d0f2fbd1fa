# A verification of cosmos-poly-module

The Go modules under `src/` connect a Cosmos SDK (0.39) chain to Poly, a relay
chain that forwards messages between blockchains. This directory models their
keepers in TLA+, checks small instances with TLC and proves the central
properties for all instances with TLAPS.

1. The system · 2. Components, state and hazards · 3. Modules ·
4. Runs · 5. Bounds · 6. Assumptions and fairness · 7. Proofs ·
8. Where code and text disagree · 9. Not modelled · 10. Plan

## 1. The system

Everything runs inside the SDK's state machine: transactions are executed one
after the other, a handler that returns an error or panics has all its writes
dropped, and the only actors are the signers of transactions: users, the
operators of denoms and lock proxies, and relayers, who carry headers and proofs
from Poly and may be wrong, late, repetitive or dishonest. What makes the code
hard is therefore not threads but order: which headers and messages arrive, how
often and in which order, between which rebindings by operators, and what is
left behind when a transaction fails half way.

```
 users, operators ──► commands, REST routes, wallets ──► messages   queries
                                                            │          │
                                        ante handler, ValidateBasic, handlers, queriers
                                                            ▼
                      lockproxy / lockproxypip1 / btcx / ft ──► bank, supply, auth
                          │ CreateCrossChainTx        ▲ Unlock, RegisterAsset
                          ▼                           │
 relayers ──────────────► ccm  ── ProcessCrossChainTx ┘
                          │ ProcessHeader
                          ▼
 relayers ──────────────► headersync
```

* A **token module** locks or burns a user's coins and asks `ccm` to store a
  message under the next id; Poly's relayers prove the stored message to Poly.
* For the way back a relayer submits a message, a Merkle proof and a Poly header
  to `ccm`, which lets `headersync` verify the header (and perhaps install the
  validator set it carries), proves the message against the header's state root,
  marks it as done, and hands it to the first token module that has a binding
  for the message's target. All of this is one transaction.
* A user's command or request passes through a module's **client** (`client/cli`,
  `client/rest`), which reads words or fields and builds a message, through the
  network, which may delay or repeat it, and through the message's
  `ValidateBasic` and `GetSigners`, on which the keepers rely.
* The chain can be **exported** and started again from the export. Only `ccm`
  exports anything, its one parameter, and nothing imports it: coins live on,
  and everything that was known about them is gone.
* The token modules share the bank, `ccm`'s registry of denom creators and its
  numbering of messages. They never call each other.

## 2. Components, state and hazards

| component | state it keeps | operations | module |
|---|---|---|---|
| `headersync` | per Poly-like chain the trusted epoch (`ConsensusPeers`) and the hash of the header that installed it | `SyncGenesisHeader`, `SyncBlockHeaders`, `ProcessHeader` (called by ccm) | `HeaderSync` |
| `ccm` | id counter and store of outgoing transactions, done markers of incoming ones, creator of each denom | `CreateCrossChainTx`, `ProcessCrossChainTx`, `ExistDenom`, `SetDenomCreator` | `CrossChainManager`, `PolyRelay`, `PolyApp` |
| `lockproxy` | lock proxies, the contract and assets bound to each, coins in its module account | `CreateLockProxy`, `CreateCoinAndDelegateToProxy`, `BindProxyHash`, `BindAssetHash`, `Lock`, `Unlock` | `LockProxy` |
| `lockproxypip1` | lock proxies, registries with a balance each, a nonce, coins in its module account | `CreateLockProxy`, `CreateCoinAndDelegateToProxy`, `Lock`, `Unlock`, `RegisterAsset` | `LockProxyPip1` |
| `btcx` | creators and redeem scripts of denoms, bound assets | `CreateDenom`, `BindAssetHash`, `Lock`, `Unlock` | `Btcx` |
| `ft` | which denoms are independent, bound assets | `CreateCoins`, `CreateDenom`, `BindAssetHash`, `Lock`, `Unlock` | `Ft` |
| bank, supply, auth (SDK) | balances, total supply, accounts | transfers, minting, burning | `Bank` (external but for btcx's minting and burning) |
| `simapp` | none of its own | wires lockproxy, btcx and ft together as unlock keepers; `ExportAppStateAndValidators` | `PolyApp`, `Restart` |
| messages (`internal/types/msgs.go`) | none | `ValidateBasic`, `GetSigners` of nineteen messages | `LockProxyClient`, `LockProxyPip1Client`, `BtcxClient`, `FtClient`, `PolyClient` |
| CLI and REST clients | the server's unsigned transactions, accounts' sequence numbers (SDK) | fourteen commands, fifteen routes | the same, over `Client`, together in `AppClient` |
| queriers and their clients | none | twelve commands, twelve routes, the queriers' thirteen paths | the same |
| `common`, `*/types/args.go` | none | amounts of fixed width; argument records | `FixedBytes`, the `Args` of each module |
| the rest of `module.go`, app assembly, simulation | none | | not modelled |

What is hard in each, and the properties that answer it (`PROJECT.json` lists
the hazards line by line):

* **headersync** trusts a header if its list of bookkeepers is as long as two
  thirds of the *stored* epoch, holds members of it only, and all of them signed.
  The list comes from the relayer and is not covered by the hash, and a member
  listed twice counts twice. Relayers send headers that skip, repeat or precede
  epochs, copies of a block with other bookkeepers and signatures, batches that
  fail half way. The epoch and the hash of its header live in two stores; a header
  of an older epoch can be proven by a newer one, and then the *newer* one's
  payload updates the epoch. → `TrustLostByRepetition`, `AcceptedHeadersCanonical`,
  `KeyHeaderMatchesEpoch`, `TrustHandedOver`, `EpochHeightRises`; violated,
  `EpochsSignedByTwoThirds`; proved only, `KeyHeaderResubmittable`.
* **ccm** marks a message as done *before* the checks and the handler that may
  still fail, and the marker of the source chain's first transaction (id 0) is
  the empty byte string, which a careless check takes for an absent one.
  → `ExecutedOnce`, `DoneMeansExecuted`, `OutgoingIdsDense`; with headersync,
  `MailboxSpec`. And a refused header or message must not shut out the next try:
  → `EveryMessageArrives`.
* **lockproxy**: all proxies share one module account, operators may rebind
  while messages are in flight, `Lock` checks neither that the proxy exists nor
  that the asset is bound. → `EscrowBacksMessages`, `ReleasedByBoundProxy`,
  `BindingsHaveProxies`.
* **lockproxypip1** keeps books per registry over one shared account, with fees
  that leave or enter the account on either side, and routes messages by a
  marker that is stored apart from the registry it stands for.
  → `BooksMatchMessages`, `EscrowCoversBooks`, `DrawnByItsContract`,
  `RoutedIffRegistered`, `NoncesDense`.
* **btcx** burns an amount of any size and sends its low 64 bits; it finds the
  redeem script through two lookups that do not fail when they find nothing.
  → `NeverOverReleased`, `MintedForBoundAsset`, in the app `ScriptOfCreatedDenom`;
  proved only, `BoundDenomsHaveCreator`.
* **ft** issues denoms with a fixed supply and denoms that messages mint; no
  sequence of calls to it may turn one into the other. → `IndependentCoinsCrossed`,
  `CrossesByBoundAsset`, in the app `FixedSupplyUnlessInBtcx`.
* **all modules together**: one denom registry with four ways to create a denom,
  one keeper chosen in the random order of a Go map, messages that more than one
  keeper can parse. btcx binds, mints and burns any denom whose creator ccm knows,
  whichever module created it; what ft and btcx ensure for their own denoms is
  therefore stated for the app as a whole, with that exception. →
  `CreatorsPermanent`, `SupplyExplained`, `FixedSupplyUnlessInBtcx`,
  `ScriptOfCreatedDenom`, `EscrowCoversMessages`.
* **export and restart** lose done markers, ids, creators, proxies and bindings
  while coins stay, so old messages can be executed again and denoms could be
  claimed anew. → `InheritedCoinsFrozen`, `EscrowOutlivesRestart`,
  `CoinsConserved`; and within each life `ExecutedOnce`, `OutgoingIdsDense`.
* **clients and messages** pass up to eleven arguments on by position, several
  times, in code written six times over; the REST routes of four modules build
  messages for the server's own address; keepers check no amount's sign and no
  chain id. A signed transaction can come again. → `ActsAsAsked`,
  `KeepersGetCheckedInputs`; violated, `LocksWithProxyNamed`.

## 3. Modules

```
Bank ◄─ CrossChainManager ◄─┬─ LockProxy ─┐
                            ├─ Btcx ──────┼─(INSTANCE)─► PolyApp
FixedBytes ◄────────────────┼─ Ft ────────┘
                            ├─ LockProxyPip1
HeaderSync ◄────────────────┴─ PolyRelay ──(implements)─► Mailbox

PolyApp ◄─ Restart

Client ◄─┬─ LockProxyClient ──────┐
         ├─ LockProxyPip1Client ──┤
         ├─ BtcxClient ───────────┼─(INSTANCE)─► AppClient
         ├─ FtClient ─────────────┤
         └─ PolyClient ───────────┘
```

**How a handler becomes an action.** A transaction either succeeds as a whole or
changes nothing, so a handler is one action: its guards are the conditions under
which no step of it fails, in whatever order the code tests them, and its primed
variables are all it writes, in callees too. A call that fails is an action that
is not enabled. The code often moves coins or stores a message *before* a check;
those writes are part of the same action because the check's failure takes them
back. Two modules model failure explicitly, since there the writes of a
transaction are visible to its own later steps:

* `HeaderSync` runs `SyncBlockHeaders` one header at a time (`queue`): each
  header is verified against what the ones before it wrote. `Commit` copies the
  stores into `checkpoint`, `Revert` restores them and records how the
  transaction ended (`reply`: `"err"`, `"panic"`, `"ok"`).
* `PolyRelay` lets `ProcessCrossChainTx` fail after the header has installed an
  epoch; then the epoch is reverted and the done marker is not set.

**`HeaderSync`** — `headersync/internal/keeper/keeper.go`. A header is a record;
its hash covers all fields but bookkeepers and signatures, so the same block may
be submitted with different signatures. `VerifyHeaderSig`,
`VerifyHeaderByKeyHeaderHash`, `VerifyHistoricalHeader` and
`UpdateConsensusPeer` are operators of the names they have in the code or in its
comments; `HeaderVerdict` is `ProcessHeader` up to its tail call. A Merkle root
is the set of leaves it commits to and a proof is named by its leaf.

**`CrossChainManager`** — `ccm/internal/keeper/keeper.go`. Its operations are
conjuncts that the token modules put into their own actions (`CreateCrossChainTx`
for sending, `ExecuteMessage` for the part of `ProcessCrossChainTx` between the
header and the token handler). `executed` is a history variable. Ids are byte
strings (`IdBytes`), zero being the empty one, because the check that a message
was done looks at the stored bytes.

**`Mailbox`** is what the token modules rely on: messages that canonical Poly
blocks commit to and that are addressed to this chain are delivered in some
order, each at most once. **`PolyRelay`** composes headersync and ccm and
implements it (`delivered <- executed`), and with relayers that keep trying its
promise of delivery (`Arrival`) as well. The mailbox can become `corrupt`: it is
mapped to `forged`, a history variable that says whether a header of no Poly block
that lists a faulty bookkeeper twice has passed `ProcessHeader`. From then on the
messages delivered may be anybody's, still only for this chain and once each.

**`Bank`** — coins of holders, total supplies and accounts. A signer needs an
account, users cannot send to module accounts, and burning more than the total
panics in the SDK. Minting and burning follow btcx's own `MintCoins` and
`BurnCoins`, which ft repeats.

**`LockProxy`, `LockProxyPip1`, `Btcx`, `Ft`** — one action per message and one
for an unlock (and registerAsset) message that ccm hands them. Bindings are
functions whose domain is the set of keys present in the store (`Put`). An empty
proxy name passes for a created one in both lock proxies
(`EnsureLockProxyExist`). Amounts in btcx messages are taken modulo
`Uint64Size`; those in ft messages are bytes (`FixedBytes`), in the order in
which each side writes and reads them, which is not the same. In
`LockProxyPip1` a fee is taken from the sender or from the module account as
part of the transfer (`SendWithFee`), and the module is the unlock keeper and the
asset keeper of ccm, as it is written to be; `simapp` does not mount it.

**`PolyApp`** — `simapp/app.go:266-274` and ccm's `ProcessUnlockTx`. It
instantiates the three token modules over one bank and one ccm. Which keeper
unlocks a message is a free choice among those that have a binding for its
target, as Go's map order is. A message is data: btcx reads the low bytes of an
amount that was written for ft.

**`Restart`** — `ccm/genesis.go`, `simapp/export.go` and the order of
`InitGenesis` in `simapp/app.go:306-322`. It extends `PolyApp` by the chain's
number of lives. `ChangeParams` is the governance proposal without which ccm has
no chain id: until then reading it panics, so no message is executed and nothing
can be exported. `ExportAndRestart` empties the stores of ccm and of the token
modules and keeps the bank. A message may arrive in every life.

**`Client`** and its five extensions — `client/cli`, `client/rest`,
`client/common`, `internal/types/msgs.go`, `internal/keeper/querier.go`. A word
is a function from the parsers that take it to what they make of it: "10tok" is
a coin and no number, a hex string may or may not need its 0x. A message is its
signers, whether its `ValidateBasic` passes, and the call that its handler makes
of it. Each command (`Send…TxCmd`, `GetCmdQuery…`) and route
(`…RequestHandlerFn`, `query…HandlerFn`) has two halves side by side: what is
*meant*, by the names in the command's usage or the request's fields, and the
message or query that the code builds. Two commands that always fail are only
named: `create-coin-delegate` and `process-crosschain-tx` read one word more
than they accept. External, by what the SDK does: `GenerateOrBroadcastMsgs`,
`WriteGenerateStdTxResponse`, the ante handler (`Accepts`: every signer signed,
with the next sequence number) and `QueryWithData`. Transactions stay in `txs`
and can be delivered at any time and again.

**`AppClient`** puts the five over one node and says what a user relies on: what is
carried out was asked for, as asked, and once (`ActsAsAsked`). `LockSwapped` and
`ChainMistagged` name what three routes do instead, and allow them nothing else. A
route of btcx *means* the chain in `to_chain_id`, the field's name on all other
routes (`ToldChain`), and takes it from another one.

**`MC*`** modules give the constants values and add nothing else. Operators
marked *Mutant* in the modules are plausible slips in the code, each of which
some property must catch; the specifications do not use them.

## 4. Runs

| run | module | states | what it shows |
|---|---|---|---|
| `relay` | `MCPolyRelay` | 2894 | Relayers submit forged blocks, copies that list a bookkeeper twice, batches, proofs and messages: an epoch changes by headers of its members only, the stores agree, heights rise, and trust is lost in one way, a faulty member listed twice. Until then headersync and ccm implement `Mailbox` and leave no state from which a message can never arrive. |
| `relay_panic` | same | violation | A header with a bad multi-signature ends in a panic, not in the error meant (section 8). |
| `relay_twothirds` | same | violation | One bookkeeper of three, listed twice, replaces the epoch. |
| `restart` | `MCRestart` | 431868 | Two users, three modules, one denom, two lives: creators are permanent within a life, every change of supply has its cause, a supply made with coins changes only if bound in btcx, scripts are those of creation, escrow survives the others' minting and burning and the restart, and coins of the first life can in the second neither be minted nor claimed. |
| `restart_export` | same | violation | An app started with the default genesis panics on export. |
| `lockproxy` | `MCLockProxy` | 112636 | Two operators who rebind and share an account: coins and messages agree, and only the contract bound at the moment releases coins. |
| `btcx` | `MCBtcx` | 128031 | Supply here plus what was sent never exceeds what messages brought, with amounts that do not fit a message; two messages sent have ids of their own. |
| `ft` | `MCFt` | 79379 | Independent denoms beside others: their coins are exactly those that crossed. |
| `pip1` | `MCLockProxyPip1` | 42154 | Books, coins and messages agree through fees on both sides, fees to the module account, creation by message and by operator. |
| `app_routing` | `MCPolyApp` | violation | A message for a denom bound in btcx and in ft may be unlocked by ft. |
| `client` | `MCAppClient` | 364048 | Two users type, post, compose and query in all modules, through a server with an address of its own: keepers do and answer what was asked, in the asker's name, once, and with checked inputs, but for what three routes mix up. |
| `client_route` | same | violation | Who posts a lock with his own proxy locks with the server's. |

`ccm` has no run of its own: each of its properties is checked where its
operations are used (`relay`, `restart`, and `btcx` for the numbering of messages,
where two can be sent), and proved for every caller.

Each property of a passing run is paired in `PROJECT.json` with a mutant of the
code under which the same run violates it, so no run passes because the
interesting case cannot happen.

`CHECK_DEADLOCK FALSE` is set for `pip1` and `client` only: there the model may
run out of outgoing ids and messages, or of requests, which are bounded, while
the code would go on.

## 5. Bounds

| bound | value | why enough |
|---|---|---|
| validators | 4, one faulty; epochs of 3 | the smallest sets in which two of three sign, two successive epochs overlap, and a faulty member can be one of the two, or be listed for both |
| epochs, blocks of chain 1 | 3, 4 | a header can skip an epoch, precede one and satisfy two |
| `Batches` | up to 2 headers | a batch that fails after its first write; longer ones repeat the round (the proofs have no such bound) |
| `MaxCrossChainId` | 2 in `btcx`, `ft` and `pip1`, 1 elsewhere | ids 0 (empty bytes), 1 and one more; two messages sent is what `OutgoingIdsDense` needs. In `lockproxy` and `restart` one message sent in each life and several received give all orders of one lock with the releases |
| `MaxLives` | 2 | one export and one restart; the theorems about restarts have no such bound |
| `MaxAsks` | 2 | a request and one other, of any kind, whose arguments, signers or sequence numbers could be mixed up; more would only repeat the pair |
| words, requests | one line per command and route, with bad words for some | every command and route is taken; a wallet's messages range over all fields with empty, negative, zero and good values, and the model's checks refuse the bad ones |
| `Amounts` | subsets of 0..2 | zero, one unit, and more than a holder has |
| `Uint64Size` | 2 (`btcx`), 4 (`restart`) | stands for 2^64; `Amounts` reaches it, so truncation happens |
| `ByteSize`, `IntBsLen`, `Uint64Len` | 4, 2, 1 | stand for 256, 32 and 8: more than one byte, so order matters, and a top bit that can be set |
| `Fees`, `FeeAddress` | {0,1}; a user and the module account | fee absent, within the amount and equal to it; a fee that stays in the shared account |
| accounts | 2, one without an account at first | signing needs an account that only receiving coins creates; operators can disagree |
| remote chains | 1 or 2 | two source chains with equal ids in `btcx` |

Nothing else is bounded; messages are finite sets and each is executed at most
once. No symmetry is used.

## 6. Assumptions and fairness

* `PolyAssumption` (HeaderSync): honest validators sign canonical blocks alone,
  a canonical epoch is less than two thirds faulty, canonical blocks commit to
  canonical blocks, and the operator's genesis header is canonical. Nothing is
  assumed of the bookkeepers a header lists, which relayers choose: the keeper
  counts the list's length (keeper.go:124), so a list may repeat a member, and the
  properties of `HeaderSync` say what follows from that and what does not.
* `HashAssumption`: a hash binds every field it covers. `RootAssumption`
  (PolyRelay): canonical blocks commit to committed messages.
* `IdBytesAssumption`: ids have different byte strings, zero the empty one.
* The token modules' assumptions say that requests and messages have the form
  that the codecs produce, that module accounts are not users' accounts and that
  a denom is not an address. A message's *contents* are free: its target need not
  be bound, nor its asset exist.
* `AppAssumption` (PolyApp): a message for a proxy has the arguments that
  lockproxy's codec reads, any other those that btcx and ft read, an amount in
  bytes among them. What the bytes amount to is proved to be a number
  (`PowersAreNat`), not assumed.
* `BankAssumption`: there are finitely many holders, and the totals of the genesis
  file are the sums of its balances, as the supply module's genesis sees to.
* `BtcxAssumption` lets a redeem script be empty, as `MsgCreateDenom` does.
* `ClientAssumption`: an absent address is no user, and the sets of a wallet's
  values include the empty ones. The server may have an address or none.

Fairness is stated in `RelayFairSpec` alone, in two parts of different weight:

* `WF` of `SyncNextHeader`: the loop over a batch of headers is one handler's,
  and the code runs it to its end without waiting for anyone. This is the code's
  own scheduling.
* `SF` of `SyncGenesisHeader`, `RelayEpoch` and `RelayMessage(m)`: an assumption
  about the world, not about the code. Relayers owe nothing; what is assumed is
  one diligent relayer who tries again and again what this chain would accept.
  It must be strong fairness because other relayers' transactions come in
  between and because a proof that is good for one epoch is not for the next.

The property this supports, `EveryMessageArrives`, is therefore about the code:
as long as no header that lists a faulty bookkeeper twice passes, if somebody
keeps trying, nothing that anyone else submits, in any order, and no failed
transaction, can keep a message out for good. After such a header nothing is
promised: it may install a foreign epoch at any height, and no header of Poly is
accepted any more. Nothing else in this repository has a scheduler, timer or
queue, and no other liveness is claimed.

## 7. Proofs

All statements hold for every value of the constants that satisfies the
assumptions, so for any number of validators, headers, messages, accounts and
ids.

| theorem | property | module |
|---|---|---|
| `TypeCorrect`, `KeyHeaderMatches`, `AcceptedCanonical`, `KeyHeaderHarmless`, `TrustIsHandedOver`, `TrustIsLostByRepetition`, `HeightsRise`, `HonestEpochsCanonical` | all of `HeaderSync` but the two violated ones, `KeyHeaderResubmittable`, which no run checks, and `EpochsCanonical`, which holds only if no validator is faulty | `PolyRelayProofs` |
| `RelayImplementsMailbox`, `RelayDoneIsExecuted` | `MailboxSpec`, `DoneMeansExecuted` | `PolyRelayProofs` |
| `CcmTypeCorrect`, `NoReplay`, `DoneIsExecuted`, `IdsDense` | all of `CrossChainManager`, for a caller that does anything its operations allow | `CrossChainManagerProofs` |
| `LockProxyTypeCorrect`, `BoundProxies`, `ReleasedByBound`, `MessagesAreBacked`, `LockProxyConserves` | all of `LockProxy` | `LockProxyProofs` |
| `Pip1TypeCorrect`, `NoncesAreDense`, `RoutedByRegistry`, `DrawnByOwnContract`, `BooksAreMessages`, `BooksAreCovered`, `Pip1Conserves` | all of `LockProxyPip1` | `LockProxyPip1Proofs` |
| `BtcxTypeCorrect`, `BoundAreCreated`, `MintedForBound`, `NothingOverReleased`, `BtcxConserves` | all of `Btcx`; `BoundAreCreated` is in no run | `BtcxProofs` |
| `FtTypeCorrect`, `CrossedByBound`, `CoinsCrossed`, `FtConserves` | all of `Ft` | `FtProofs` |
| `AppTypeCorrect`, `CreatorsArePermanent`, `SuppliesExplained`, `FixedSuppliesInApp`, `ScriptsAreSent`, `EscrowIsCovered`, `InheritedAreFrozen`, `EscrowOutlives`, `RestartConserves`, `RestartNoReplayInLife`, `RestartIdsDense` | all of `PolyApp` and `Restart`, over any number of lives, but the two violated ones | `PolyAppProofs` |
| `DoneAsAsked`, `InputsAreChecked` | all of `AppClient` but the violated `LocksWithProxyNamed` | `AppClientProofs` |

So every property that a passing run checks is also proved, but for
`EveryMessageArrives`.

**Sums.** Coins are conserved, escrow covers messages: these compare sums over
finite sets of holders and messages, written with `SumFunction` of the community
modules, a fold in an order that `CHOOSE` fixes. The library's induction theorems
are stated for operators and cannot be used here; those about well-founded
relations are stated for *sets*, and that is enough: `CountingUp` and
`SubsetInduction` say that a set that is closed under successors, or under adding
to smaller subsets, has all numbers, or all subsets. From them come `SumEquation`
(a sum is one term and the sum of the rest, whichever term is taken),
`SumRemove`, `SumsEqual`, `SumNat`, `SumExtends` (a new element adds its value)
and `SumChanges` (one changed value changes the sum by as much). On top,
`TotalOf` of a balance: what `Credited` and `Debited` do to the total, hence
`SendConserves`, `MintConserves` and `BurnConserves`, which all modules cite.

**HeaderSync.** The heart is a counting argument. An accepted header lists
members of the stored epoch, each of whom signed, in a list as long as two thirds
of it. If the stored epoch is canonical, less than two thirds of it are faulty. So
either one signer is honest, and honest validators sign canonical blocks alone:
then the accepted header is canonical, and so is the epoch it installs. Or all
signers are faulty, and their list is longer than there are faulty members: then it
repeats one (`QuorumIsHonest`). To make this inductive `IInv` keeps, next to the
type invariant, that stores *and checkpoint* each hold one header's epoch and hash,
for a revert goes back to the checkpoint, and that an idle module's stores equal
the checkpoint, on which the heights' rising depends. `TrustInv` says that stores
and checkpoint are canonical until `forged` is set. `HonestEpochsCanonical` is the
case without faulty members, where a repeated bookkeeper does no harm: with a
single faulty member its conclusion is false, as `relay_twothirds` shows.

**CrossChainManager.** `CcmInv` joins two invariants that do not disturb each
other. `IncomingInv`: the markers are exactly the keys of executed messages, so a
message that passes `CheckDoneTx` differs from all executed ones. `OutgoingInv`:
stored ids are exactly those below the counter. The lemmas are stated per
operation (`OutgoingStep`, `IncomingStep`, `CreatorStep`, `FrameStep`), not per
action, so that every module whose handlers call ccm cites them.

**PolyRelay.** `RelayInv` joins `IInv`, `TrustInv` and `IncomingInv`. Every step
maps to a `Deliver` of the message executed, which is new because it passed
`CheckDoneTx` and committed because the accepted header is canonical; or, if that
header is forging or one was before, to a `DeliverCorrupt`; or to a stutter.

**Token modules.** `LockProxyInv`, `Pip1Inv` and `BtcxInv` add to `CcmInv` the module's
types and the fact that relates its stores: bindings have proxies and messages
sent have bindings; markers are those of registries, nonces number the unlock
messages sent and never overtake the outgoing ids; a denom of btcx has a creator
exactly when it has a script. Ft's `CrossInv` says that bindings reach independent
denoms alone, and that those have a creator, so `CreateCoins` cannot make coins of
one; with the numbering of ccm, by which a message that is sent is new,
`CrossesByBoundAsset` follows. The lemmas on debiting and
crediting are shared. The action properties follow from what a transfer, or a
write to the books, can change.

For the sums each module adds what its histories of messages hold, so that the
sums are of numbers: `EscrowInv` (the denom of every message sent was recorded),
`ReleaseInv`, `CountInv` (messages concern independent denoms) and `AccountsInv`.
The last is the longest, since in lockproxypip1 three accounts move at once: the
registry's balance, the shared account, and the messages, less a fee on one side
or the other. `EscrowCoversBooks` is inductive because an unlock draws from the
registry at least what leaves the account, and a registry is never drawn below
zero: the check of the books comes after the payment, and takes it back.

**PolyApp.** Each of the three modules is an instance with constants and
variables of its own. `CcmEffect` names the three things a handler of any module
can do to ccm's stores (nothing, send a transaction, set creators of denoms that
did not exist); each module has one lemma that its handlers do nothing else and
keep `StoresInv`, the types of what a message may name. `AppInv` is
`CcmInv /\ StoresInv`. `TokenInv` adds `BoundInv`, that denoms bound in btcx or ft
have a creator; under it each change of a total is a creation, a message received
or one sent, again by one lemma per module. That ft binds independent denoms alone
and btcx any that has a creator gives `FixedSupplyUnlessInBtcx`. `ScriptsInv` adds
that denoms of btcx have a creator, so none of them can be created once it was
sent; then the script a message carries stays the one of its denom.

`LedgerInv` relates the one bank to the histories of three modules: coins add up,
every message of a proxy has its denom recorded, every executed message its
keeper. Under it each handler of each module satisfies `EscrowKept`: it takes no
more from lockproxy's account than it adds to what was released, counted against
what it adds to what was sent. `MintLedger`, `BurnLedger`, `PayLedger` and
`TransferLedger` say this of the four ways in which coins move, a payment to
lockproxy's own account, which moves nothing, included.

**Restart.** The theorems of the app are stated for all its lives. `RestartInv` is
the invariant: `InheritedCoinsFrozen` is not inductive, since that a frozen denom
stays out of btcx and ft needs that what those modules bind has a creator in ccm,
which `ExistDenom` gives only to denoms without coins, and that lockproxy moves
coins without changing totals. `BoundInv` says the first, `SupplyEffect` what a
step does to totals, and each module's lemma shows that its handlers touch those
of new denoms or of denoms with a creator alone. A restart establishes it afresh,
since empty stores bind nothing.
`LivesInv` carries `LedgerInv` over the lives: a restart empties the histories and
adds them to `past`, so what was owed before is owed after (`NewLifeLedger`).

**AppClient.** The content is which argument goes where, and it is proved for
words and values of any kind. Per module, `…Checked` says what a valid message
ensures, `…Fits` that the message built from values in the order of their names
is what was meant, if its user can sign it, `…Answers` that a query has no other
answer than the one meant; `…Types`, `…Posts` and `…Inquires` apply them to each
command and route. `ChecksInv` then says that whatever is under way is checked on
acceptance. `AsksInv` says that a request is in one place, and that the number of
a performed transaction is below its account's: so a transaction that comes again
is not accepted, and a step that performs something performs a request that was not
done before, as asked. For lockproxy's lock route the lemmas leave one other
outcome, and exactly one: the message can only be signed if its proxy is the asker,
and then the proxy performed is the server's address (`LockSwapped`). The proof
needs no condition on the server.

**Model-checked only.** `EveryMessageArrives` is liveness under fairness, out of
this prover's reach.

## 8. Where code and text disagree

The five violation runs show the code doing something that a comment, a test, a
declaration or an error message says it does not:

* `relay_panic` — headersync keeper.go:136 passes `err`, nil at that point, where
  `e` was meant; formatting it (errors.go:83) panics. The SDK recovers and drops
  the transaction, so nothing is corrupted, but the key-header fallback of
  `ProcessHeader` is skipped as well.
* `relay_twothirds` — headersync keeper.go:124 compares the length of the list of
  bookkeepers with the number of stored peers, and lines 127-133 test membership
  alone; errors.go:75 says "must more than 2/3 consensus node number". Exactly two
  thirds pass, and so does a list in which one member stands for several: in the
  run one bookkeeper of three, listed twice, installs an epoch. This is why the
  claims about canonical headers, messages and delivery are limited (sections 6
  and 7). Whether poly's `VerifyMultiSignature`, which is not part of this
  repository, accepts the same key and signature twice is taken from its
  interface: it is given a list of keys and a number, and checks that many.
* `restart_export` — ccm genesis.go:31 reads a parameter that only governance
  sets, since `SetOrderInitGenesis` does not name ccm; app_test.go:53 says
  "ExportAppStateAndValidators should not have an error".
* `app_routing` — ccm keeper.go:177 ranges over a Go map; the comment on line 176
  says that what is not lockproxy's goes to btcx. For a denom bound in btcx and
  in ft the keeper depends on the map's order, which can differ between nodes
  that execute the same block.
* `client_route` — lockproxy's lock route passes the proxy and the sender in each
  other's place (rest/tx.go:182 against `NewMsgLock`, msgs.go:229). A proxy's name
  is its creator's address, so when a creator locks with his own proxy through a
  server that has an address, the message names him as the sender, he can sign it,
  and his coins are locked with the proxy named by the *server's* address. In all
  other cases the message names a sender who cannot sign.

Seen while modelling, without a run of their own:

* lockproxypip1 keeper.go:100 compares nil with an empty name and finds them
  equal, so "lockproxy with hash: %s not created" (:181, :214) is not reported
  for the empty name, and assets are registered for it. lockproxy keeper.go:96
  is the same.
* After an export the done markers are gone: messages executed in one life can
  be executed in the next, where lockproxy's bindings are made again, and
  outgoing ids start again at zero.
* lockproxy keeper.go:162 says that a bound denom has "non-zero supply";
  `ExistDenom` is satisfied by a creator without coins.
* lockproxypip1 keeper.go:189 says "check if denom exists" and checks nothing.
* btcx binds any denom whose creator asks, also one that ft or lockproxy made
  with a fixed supply and without a script; its coins can then be minted by
  messages, and be sent to bitcoin with an empty script. `FixedSupplyUnlessInBtcx`
  and `ScriptOfCreatedDenom` say that this is the one way to either.
* ft writes an amount with the most significant byte first and reads it with the
  least significant first, so two ft modules misread each other.
* lockproxypip1 compares a fee with the amount only when it deducts it itself; a
  message with a larger fee can be sent and never be executed on such a chain.
  `CreateCoinAndDelegateToProxy` there checks only that the denom has no creator,
  not that it has no coins.
* Commands: `create-coin-delegate` (lockproxy) takes exactly two words and reads
  a third, `process-crosschain-tx` (ccm) takes four and reads a fifth, so neither
  ever works. `bind-proxy-hash`, `bind-asset-hash` (lockproxy) and
  `consensus-peer` (headersync) demand a word more than their usage names and
  ignore it; ft's `bind-asset-hash` demands an amount that it never reads.
* Routes: those of lockproxy, lockproxypip1, ft and headersync sign for
  `cliCtx.GetFromAddress()`, the server's address, not for the sender in the
  request's base_req, so the messages of a server without an address are refused.
  btcx's bind route reads the chain from the JSON field redeem_script (rest/tx.go:50)
  and its lock route from to_Chain_id (:57), where all other routes have to_chain_id:
  a request with to_chain_id alone names chain zero and is refused, one with both
  fields acts on the other chain (`ChainMistagged`).
* `MsgCreateCrossChainTx` (ccm) names no signer and no handler takes it.
  `MsgCreateCoins.Type` (ft) returns the type of create-denom.
* btcx's `MsgCreateDenom` passes a list of denoms, "5tok,7abc", as one denom:
  it is parsed as coins after a "10".
* Queries: the module balance's parameters are formatted into its path
  (ccm common.go:47), so its command and route never get an answer; lockproxypip1's
  registry query has no command and no route; `if-contain-contract` drops the
  errors of reading its words; btcx's and ft's queriers dereference nil for a
  denom without a creator.

## 9. Not modelled

* What `module.go` registers beyond handlers, queriers, commands and routes: empty
  begin and end blockers, codecs, invariants (there are none); `simapp`'s
  assembly of the SDK's modules, export for height zero and the simulation.
* What a querier answers: the values of stores that the keepers' models hold.
* That a registerAsset message panics in `simapp`, which mounts no asset keeper:
  the handler's transaction is dropped like any other that fails.
* Store keys as bytes: keys are tuples or records. lockproxy's
  `GetBindAssetHashKey` concatenates proxy, denom and chain without separators,
  which tells triples apart as long as addresses have one length; pip1 hashes
  each of the five parts before it joins them, and no two values are assumed to
  share a hash.
* Codecs of headers and messages, signature and Merkle verification: external
  libraries, modelled by what they decide.
* Events, gas, fees of transactions, vesting and send-enabled flags.

## 10. Plan

Done: the modules, runs and theorems above. Left, in this order:

1. `Bridge`: two chains of this code and a Poly between them, coins conserved
   across both, with ft's byte order and pip1's nonces on both sides.
2. Keys as byte strings: on which addresses and denoms two keys coincide.
