----------------------------- MODULE LockProxy -----------------------------
(***************************************************************************)
(* The lockproxy module (lockproxy/internal/keeper/keeper.go).  Anyone may *)
(* create a lock proxy, named by the creator's address, and bind it to the *)
(* proxy contract of another chain and its assets to denoms of this one.   *)
(* Lock moves coins into the module account, which all proxies share, and  *)
(* sends a message; Unlock moves them out on a message of a bound proxy.   *)
(***************************************************************************)
EXTENDS CrossChainManager

CONSTANTS
    RemoteChain, \* ids of other chains
    Contract,    \* hashes of proxy contracts on other chains, none empty
    Asset,       \* hashes of assets there, none empty
    Amounts      \* bound: amounts of coins in messages

LockProxyModule == "lockproxy"

\* The asset is named as on the chain a message goes to; addresses there are
\* opaque, and named like those of this chain.
Args == [toAssetHash: {<<>>} \cup Asset \cup Denom, toAddress: Holder, amount: Amounts]

\* What Lock asks ccm to send.
LockParam == [fromContract: Account, toChainId: RemoteChain, toContract: Contract,
              method: {"unlock"}, args: Args]

\* An unlock message's target need not be a proxy, nor its asset a denom.
UnlockMsg == {m \in Inbound : m.method = "unlock"}

ASSUME LockProxyAssumption ==
    /\ LockProxyModule \in Module
    /\ Amounts \subseteq Nat
    /\ LockParam \subseteq Outbound
    /\ \A m \in UnlockMsg : m.args \in Args

VARIABLES
    lockProxies, \* operators that created a proxy
    proxyHash,   \* <<proxy, chain>> to the bound proxy contract
    assetHash,   \* <<proxy, denom, chain>> to the bound asset
    lockedDenom  \* history: id of an outgoing message to the denom it locked

proxyVars == <<lockProxies, proxyHash, assetHash>>
lockProxyVars == <<proxyVars, lockedDenom, ccmVars, bankVars>>

LockProxyInit ==
    /\ CcmInit
    /\ lockProxies = {}
    /\ proxyHash = <<>>
    /\ assetHash = <<>>
    /\ lockedDenom = <<>>

-----------------------------------------------------------------------------
(* Messages of users and operators *)

\* The stored bytes are compared with the name itself, and no bytes are stored
\* for the empty name.
EnsureLockProxyExist(creator) == creator \in lockProxies \/ creator = NoAddr

CreateLockProxy(creator) ==
    /\ ~ EnsureLockProxyExist(creator)
    /\ lockProxies' = lockProxies \cup {creator}
    /\ UNCHANGED <<proxyHash, assetHash, lockedDenom, ccmVars, bankVars>>

\* Mutant: the module account gets the coins and the total does not count them.
CreateCoinWithoutSupply(creator, d, n, proxy) ==
    /\ ~ ExistDenom(d)
    /\ EnsureLockProxyExist(proxy)
    /\ SetDenomCreator(d, creator)
    /\ balance' = Credited(balance, LockProxyModule, d, n)
    /\ UNCHANGED <<proxyVars, lockedDenom, crossChainId, crossChainTxs, doneTx, executed>>
    /\ UNCHANGED <<supply, accounts>>

\* A denom is created with its whole supply in the module account.  The proxy
\* may be the empty name, which nothing can be bound to.
CreateCoinAndDelegateToProxy(creator, d, n, proxy) ==
    /\ ~ ExistDenom(d)
    /\ EnsureLockProxyExist(proxy)
    /\ SetDenomCreator(d, creator)
    /\ MintCoins(LockProxyModule, d, n)
    /\ UNCHANGED <<proxyVars, lockedDenom, crossChainId, crossChainTxs, doneTx, executed>>

\* Mutant: the operator need not have a proxy.
BindProxyHashOfAnyone(operator, c, hash) ==
    /\ proxyHash' = Put(proxyHash, <<operator, c>>, hash)
    /\ UNCHANGED <<lockProxies, assetHash, lockedDenom, ccmVars, bankVars>>

\* Binding again replaces the contract.
BindProxyHash(operator, c, hash) ==
    /\ EnsureLockProxyExist(operator)
    /\ proxyHash' = Put(proxyHash, <<operator, c>>, hash)
    /\ UNCHANGED <<lockProxies, assetHash, lockedDenom, ccmVars, bankVars>>

\* Mutant: the key is put together in another order than it is read.
BindAssetHashSwapped(operator, d, c, hash) ==
    /\ EnsureLockProxyExist(operator)
    /\ ExistDenom(d)
    /\ assetHash' = Put(assetHash, <<operator, c, d>>, hash)
    /\ UNCHANGED <<lockProxies, proxyHash, lockedDenom, ccmVars, bankVars>>

BindAssetHash(operator, d, c, hash) ==
    /\ EnsureLockProxyExist(operator)
    /\ ExistDenom(d)
    /\ assetHash' = Put(assetHash, <<operator, d, c>>, hash)
    /\ UNCHANGED <<lockProxies, proxyHash, lockedDenom, ccmVars, bankVars>>

\* The bound asset's hash, or no bytes: Lock sends the message either way.
GetAssetHash(proxy, d, c) ==
    IF <<proxy, d, c>> \in DOMAIN assetHash THEN assetHash[<<proxy, d, c>>] ELSE <<>>

ToArgs(proxy, d, c, to, n) ==
    [toAssetHash |-> GetAssetHash(proxy, d, c), toAddress |-> to, amount |-> n]

\* Mutant: the message is sent and the coins are not taken.
LockWithoutCoins(proxy, from, d, c, to, n) ==
    /\ balance[from][d] >= n
    /\ <<proxy, c>> \in DOMAIN proxyHash
    /\ CreateCrossChainTx([fromContract |-> proxy, toChainId |-> c,
                           toContract |-> proxyHash[<<proxy, c>>],
                           method |-> "unlock", args |-> ToArgs(proxy, d, c, to, n)])
    /\ lockedDenom' = Put(lockedDenom, IdBytes[crossChainId], d)
    /\ UNCHANGED <<proxyVars, doneTx, denomCreator, executed, bankVars>>

\* Neither the proxy's existence nor the asset's binding is checked.
Lock(proxy, from, d, c, to, n) ==
    /\ SendCoins(from, LockProxyModule, d, n)
    /\ <<proxy, c>> \in DOMAIN proxyHash
    /\ CreateCrossChainTx([fromContract |-> proxy, toChainId |-> c,
                           toContract |-> proxyHash[<<proxy, c>>],
                           method |-> "unlock", args |-> ToArgs(proxy, d, c, to, n)])
    /\ lockedDenom' = Put(lockedDenom, IdBytes[crossChainId], d)
    /\ UNCHANGED <<proxyVars, doneTx, denomCreator, executed>>

-----------------------------------------------------------------------------
(* Messages of other chains *)

ContainToContractAddr(m) == <<m.toContract, m.fromChainId>> \in DOMAIN proxyHash

\* Mutant: the message's contract is not compared with the bound one.
UnlockFromAnyContract(m) ==
    /\ ContainToContractAddr(m)
    /\ <<m.toContract, m.args.toAssetHash, m.fromChainId>> \in DOMAIN assetHash
    /\ m.args.toAddress \in accounts
    /\ SendCoins(LockProxyModule, m.args.toAddress, m.args.toAssetHash, m.args.amount)

\* Mutant: the asset need not be bound to the proxy.
UnlockAnyDenom(m) ==
    /\ ContainToContractAddr(m)
    /\ proxyHash[<<m.toContract, m.fromChainId>>] = m.fromContract
    /\ m.args.toAssetHash \in Denom
    /\ m.args.toAddress \in accounts
    /\ SendCoins(LockProxyModule, m.args.toAddress, m.args.toAssetHash, m.args.amount)

\* The coins leave the shared module account, whichever proxy locked them.
Unlock(m) ==
    /\ ContainToContractAddr(m)
    /\ proxyHash[<<m.toContract, m.fromChainId>>] = m.fromContract
    /\ <<m.toContract, m.args.toAssetHash, m.fromChainId>> \in DOMAIN assetHash
    /\ m.args.toAddress \in accounts
    /\ SendCoins(LockProxyModule, m.args.toAddress, m.args.toAssetHash, m.args.amount)

\* ProcessUnlockTx with lockproxy as the only unlock keeper.
ReceiveUnlock(m) ==
    /\ ExecuteMessage(m)
    /\ Unlock(m)
    /\ UNCHANGED <<proxyVars, lockedDenom, crossChainId, crossChainTxs, denomCreator>>

\* The transactions of users and operators.
LockProxyHandler ==
    \/ \E creator \in Signer : CreateLockProxy(creator)
    \/ \E creator \in Signer, proxy \in Account \cup {NoAddr}, d \in Denom, n \in Amounts :
           CreateCoinAndDelegateToProxy(creator, d, n, proxy)
    \/ \E operator \in Signer, c \in RemoteChain, hash \in Contract :
           BindProxyHash(operator, c, hash)
    \/ \E operator \in Signer, d \in Denom, c \in RemoteChain, hash \in Asset :
           BindAssetHash(operator, d, c, hash)
    \/ \E from \in Signer, proxy \in Account, d \in Denom, c \in RemoteChain,
          to \in Holder, n \in Amounts : Lock(proxy, from, d, c, to, n)

LockProxyNext ==
    \/ LockProxyHandler
    \/ \E m \in UnlockMsg : ReceiveUnlock(m)
    \/ \E from \in Signer, to \in Account, d \in Denom, n \in Amounts :
           MsgSend(from, to, d, n) /\ UNCHANGED <<proxyVars, lockedDenom, ccmVars>>

LockProxySpec == LockProxyInit /\ [][LockProxyNext]_lockProxyVars

-----------------------------------------------------------------------------
(* Properties *)

\* The stores hold what the handlers can write.
LockProxyTypeOK ==
    /\ BankTypeOK
    /\ CcmTypeOK
    /\ lockProxies \subseteq Account
    /\ DOMAIN proxyHash \subseteq Account \X RemoteChain
    /\ \A k \in DOMAIN proxyHash : proxyHash[k] \in Contract
    /\ DOMAIN assetHash \subseteq Account \X Denom \X RemoteChain
    /\ \A k \in DOMAIN assetHash : assetHash[k] \in Asset

\* Amounts of d in the messages sent, and in those that took coins out.
Sent(d) == SumFunction(
    [tx \in {t \in crossChainTxs : lockedDenom[t.crossChainId] = d} |-> tx.param.args.amount])

Released(d) == SumFunction(
    [i \in {j \in DOMAIN executed : /\ executed[j].args.toAssetHash = d
                                    /\ executed[j].args.toAddress # LockProxyModule}
         |-> executed[i].args.amount])

\* The module account holds exactly what was delegated to it and locked and not
\* yet released, through any interleaving of proxies that share it: every
\* message another chain can act on is backed by coins (keeper.go:187-281).
EscrowBacksMessages == \A d \in Denom :
    balance[LockProxyModule][d] + Released(d)
        = GenesisBalance[LockProxyModule][d] + (supply[d] - GenesisSupply[d]) + Sent(d)

\* A message is only ever sent in the name of a created proxy and to a contract
\* of its operator's choice, though Lock checks no proxy's existence
\* (keeper.go:207-213).  Likewise for the assets bound.
BindingsHaveProxies ==
    /\ \A k \in DOMAIN proxyHash : k[1] \in lockProxies
    /\ \A k \in DOMAIN assetHash : k[1] \in lockProxies
    /\ \A tx \in crossChainTxs :
           <<tx.param.fromContract, tx.param.toChainId>> \in DOMAIN proxyHash

\* One step of ReleasedByBoundProxy.
Release == \A d \in Denom :
    balance'[LockProxyModule][d] < balance[LockProxyModule][d] =>
        \E m \in UnlockMsg :
            /\ executed' = Append(executed, m)
            /\ m.toContract \in lockProxies
            /\ m.fromContract = proxyHash[<<m.toContract, m.fromChainId>>]
            /\ <<m.toContract, d, m.fromChainId>> \in DOMAIN assetHash
            /\ balance[LockProxyModule][d] - balance'[LockProxyModule][d] = m.args.amount

\* Coins leave the module account for one message at a time, which comes from
\* the contract bound at that moment to a proxy that has the denom bound: a
\* contract that was replaced can release nothing any more (keeper.go:236-258).
ReleasedByBoundProxy == [][Release]_lockProxyVars
=============================================================================
