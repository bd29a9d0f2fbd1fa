--------------------------- MODULE LockProxyPip1 ---------------------------
(***************************************************************************)
(* The lockproxypip1 module (lockproxypip1/internal/keeper/keeper.go): a   *)
(* lock proxy that keeps books.  An asset is registered once for a proxy,  *)
(* a denom, a chain, and the proxy contract and asset there.  Each such    *)
(* registry has a balance that Lock raises and Unlock may not overdraw,    *)
(* while the coins of all of them lie in one module account.  Fees are     *)
(* deducted on the sending side or on the receiving one.                   *)
(***************************************************************************)
EXTENDS CrossChainManager

CONSTANTS
    RemoteChain, \* ids of other chains
    Contract,    \* hashes of proxy contracts on other chains, none empty
    Asset,       \* hashes of assets there, none empty
    Recipient,   \* addresses there
    Amounts,     \* bound: amounts of coins in messages
    Fees,        \* bound: fees in messages
    FeeAddress   \* bound: who fees are for

LockProxyModule == "lockproxypip1"

\* A proxy is named by its creator's address; a request may leave it empty.
Proxy == Account \cup {NoAddr}

\* The five hashes of a key; no two values share a hash.
Registry == [proxy: Proxy, denom: Denom, chain: RemoteChain,
             nativeProxy: Contract, nativeAsset: Asset]

\* Of messages sent and received.
TxArgs == [fromAssetHash: Asset \cup Denom, toAssetHash: Asset \cup Denom,
           toAddress: Holder \cup Recipient, amount: Amounts \cup {0}, feeAmount: Fees,
           feeAddress: FeeAddress \cup {NoAddr}, fromAddress: Account \cup Recipient \cup {NoAddr},
           nonce: 0..MaxCrossChainId]

RegisterAssetTxArgs == [assetHash: Denom, nativeAssetHash: Asset]

\* What the module asks ccm to send.
LockParam ==
    [fromContract: Account, toChainId: RemoteChain, toContract: Contract,
     method: {"unlock"}, args: TxArgs]
    \cup [fromContract: Proxy, toChainId: RemoteChain, toContract: Contract,
          method: {"registerAsset"}, args: RegisterAssetTxArgs]

UnlockMsg == {m \in Inbound : m.method = "unlock"}
RegisterMsg == {m \in Inbound : m.method = "registerAsset"}

ASSUME LockProxyPip1Assumption ==
    /\ LockProxyModule \in Module
    /\ Amounts \subseteq Nat /\ Fees \subseteq Nat /\ 0 \in Fees
    /\ \A n \in Amounts, fee \in Fees : fee <= n => n - fee \in Amounts \cup {0}
    /\ FeeAddress \subseteq Holder
    /\ LockParam \subseteq Outbound
    /\ \A m \in UnlockMsg : m.args \in TxArgs /\ m.args.toAddress \in Holder
    /\ \A m \in RegisterMsg : m.args \in RegisterAssetTxArgs
    /\ \A m \in Inbound :
           m.toContract \in Proxy /\ m.fromChainId \in RemoteChain /\ m.fromContract \in Contract

VARIABLES
    lockProxies, \* operators that created a proxy
    registry,    \* the registered assets
    bindChainId, \* <<proxy, chain>> of registered assets
    books,       \* the balance of each registry that has one
    nonce,       \* of the last unlock message sent
    created      \* history: amount that a registry was created with

proxyVars == <<lockProxies, registry, bindChainId, books, nonce, created>>
pip1Vars == <<proxyVars, ccmVars, bankVars>>

Pip1Init ==
    /\ CcmInit
    /\ lockProxies = {}
    /\ registry = {}
    /\ bindChainId = {}
    /\ books = <<>>
    /\ nonce = 0
    /\ created = <<>>

-----------------------------------------------------------------------------
(* Registries and their balances *)

\* The stored bytes are compared with the name itself, and no bytes are stored
\* for the empty name.
EnsureLockProxyExist(proxy) == proxy \in lockProxies \/ proxy = NoAddr

RegistryKey(proxy, d, c, nativeProxy, nativeAsset) ==
    [proxy |-> proxy, denom |-> d, chain |-> c,
     nativeProxy |-> nativeProxy, nativeAsset |-> nativeAsset]

\* Mutant: the marker is only written for a proxy's first registry.
UpdateRegistryOnce(k) ==
    /\ k \notin registry
    /\ registry' = registry \cup {k}
    /\ bindChainId' = IF bindChainId = {} THEN {<<k.proxy, k.chain>>} ELSE bindChainId

UpdateRegistry(k) ==
    /\ k \notin registry
    /\ registry' = registry \cup {k}
    /\ bindChainId' = bindChainId \cup {<<k.proxy, k.chain>>}

GetBalance(k) == IF k \in DOMAIN books THEN books[k] ELSE 0

\* Mutant: the amount replaces the balance.
ReplaceBalance(k, n) == books' = Put(books, k, n)

IncreaseBalance(k, n) == books' = Put(books, k, GetBalance(k) + n)

\* Mutant: the balance is not compared with the amount.
DecreaseUnchecked(k, n) == books' = Put(books, k, GetBalance(k) - n)

\* Mutant: the new balance is not stored.
DecreaseUnstored(k, n) == GetBalance(k) >= n /\ UNCHANGED books

DecreaseBalance(k, n) ==
    /\ GetBalance(k) >= n
    /\ books' = Put(books, k, GetBalance(k) - n)

\* Mutant: the fee is paid and not debited.
SendWithFreeFee(from, feeTo, fee, to, rest, d) ==
    /\ balance[from][d] >= fee + rest
    /\ balance' = Credited(Credited(Debited(balance, from, d, rest), feeTo, d, fee), to, d, rest)
    /\ accounts' = accounts \cup ({feeTo, to} \cap Holder)
    /\ UNCHANGED supply

\* A fee to one holder, if there is one, and then the rest to another.
SendWithFee(from, feeTo, fee, to, rest, d) ==
    LET paid == Credited(Debited(balance, from, d, fee), feeTo, d, fee) IN
    /\ balance[from][d] >= fee
    /\ IF fee = 0 THEN SendCoins(from, to, d, rest)
       ELSE /\ paid[from][d] >= rest
            /\ balance' = Credited(Debited(paid, from, d, rest), to, d, rest)
            /\ accounts' = accounts \cup {feeTo, to}
            /\ UNCHANGED supply

-----------------------------------------------------------------------------
(* Transactions of users and operators *)

CreateLockProxy(creator) ==
    /\ ~ EnsureLockProxyExist(creator)
    /\ lockProxies' = lockProxies \cup {creator}
    /\ UNCHANGED <<registry, bindChainId, books, nonce, created, ccmVars, bankVars>>

\* The denom must have no creator; whether it has coins is not asked.  The
\* other chain is told by a message to register the asset too.
CreateCoinAndDelegateToProxy(creator, d, n, k) ==
    /\ denomCreator[d] = NoAddr
    /\ EnsureLockProxyExist(k.proxy)
    /\ SetDenomCreator(d, creator)
    /\ UpdateRegistry(k)
    /\ MintCoins(LockProxyModule, d, n)
    /\ IncreaseBalance(k, n)
    /\ CreateCrossChainTx([fromContract |-> k.proxy, toChainId |-> k.chain,
                           toContract |-> k.nativeProxy, method |-> "registerAsset",
                           args |-> [assetHash |-> d, nativeAssetHash |-> k.nativeAsset]])
    /\ created' = Put(created, k, n)
    /\ UNCHANGED <<lockProxies, nonce, doneTx, executed>>

\* The fee that Lock itself takes.
Deducted(deductFeeInLock, fee) == IF deductFeeInLock THEN fee ELSE 0

\* Mutant: the nonce is used and not stored.
GetSameNonce == nonce' = 1

GetNextNonce == nonce' = nonce + 1

\* A fee that is not deducted here goes into the message as it is.
Lock(k, from, to, n, deductFeeInLock, fee, feeTo) ==
    LET deducted == Deducted(deductFeeInLock, fee) IN
    /\ EnsureLockProxyExist(k.proxy) /\ k \in registry
    /\ GetNextNonce
    /\ deducted <= n
    /\ SendWithFee(from, feeTo, deducted, LockProxyModule, n - deducted, k.denom)
    /\ CreateCrossChainTx([fromContract |-> k.proxy, toChainId |-> k.chain,
                           toContract |-> k.nativeProxy, method |-> "unlock",
                           args |-> [fromAssetHash |-> k.denom, toAssetHash |-> k.nativeAsset,
                                     toAddress |-> to, amount |-> n - deducted,
                                     feeAmount |-> fee - deducted, feeAddress |-> feeTo,
                                     fromAddress |-> from, nonce |-> nonce']])
    /\ IncreaseBalance(k, n - deducted)
    /\ UNCHANGED <<lockProxies, registry, bindChainId, created, doneTx, denomCreator, executed>>

-----------------------------------------------------------------------------
(* Messages of other chains *)

ContainToContractAddr(m) == <<m.toContract, m.fromChainId>> \in bindChainId

\* The registry that an unlock message draws on, seen from this chain.
KeyOf(m) == RegistryKey(m.toContract, m.args.toAssetHash, m.fromChainId,
                        m.fromContract, m.args.fromAssetHash)

\* Mutant: any contract of the chain draws on the denom's registries.
UnlockOfAnyContract(m) ==
    /\ ContainToContractAddr(m)
    /\ \E k \in registry :
           /\ k.proxy = m.toContract /\ k.denom = m.args.toAssetHash /\ k.chain = m.fromChainId
           /\ DecreaseBalance(k, m.args.amount)
           /\ SendCoins(LockProxyModule, m.args.toAddress, k.denom, m.args.amount)

\* The fee is part of the amount.
Unlock(m) ==
    LET args == m.args IN
    /\ ContainToContractAddr(m)
    /\ KeyOf(m) \in registry
    /\ args.fromAddress # NoAddr
    /\ args.feeAmount > 0 => args.feeAmount <= args.amount /\ args.feeAddress # NoAddr
    /\ SendWithFee(LockProxyModule, args.feeAddress, args.feeAmount,
                   args.toAddress, args.amount - args.feeAmount, args.toAssetHash)
    /\ DecreaseBalance(KeyOf(m), args.amount)

\* ProcessUnlockTx with lockproxypip1 as the only unlock keeper.
ReceiveUnlock(m) ==
    /\ ExecuteMessage(m)
    /\ Unlock(m)
    /\ UNCHANGED <<lockProxies, registry, bindChainId, nonce, created,
                   crossChainId, crossChainTxs, denomCreator>>

\* Neither the denom nor the sender is looked up.
RegisterAsset(m) ==
    /\ EnsureLockProxyExist(m.toContract)
    /\ UpdateRegistry(RegistryKey(m.toContract, m.args.assetHash, m.fromChainId,
                                  m.fromContract, m.args.nativeAssetHash))

\* ProcessRegisterAssetTx with lockproxypip1 as the asset keeper.
ReceiveRegisterAsset(m) ==
    /\ ExecuteMessage(m)
    /\ RegisterAsset(m)
    /\ UNCHANGED <<lockProxies, books, nonce, created,
                   crossChainId, crossChainTxs, denomCreator, bankVars>>

Pip1Handler ==
    \/ \E creator \in Signer : CreateLockProxy(creator)
    \/ \E creator \in Signer, n \in Amounts, k \in Registry :
           CreateCoinAndDelegateToProxy(creator, k.denom, n, k)
    \/ \E from \in Signer, k \in {r \in Registry : r.proxy # NoAddr},
          to \in Recipient, n \in Amounts, deductFeeInLock \in BOOLEAN,
          fee \in Fees, feeTo \in FeeAddress :
           Lock(k, from, to, n, deductFeeInLock, fee, feeTo)

Pip1Next ==
    \/ Pip1Handler
    \/ \E m \in UnlockMsg : ReceiveUnlock(m)
    \/ \E m \in RegisterMsg : ReceiveRegisterAsset(m)
    \/ \E from \in Signer, to \in Account, d \in Denom, n \in Amounts :
           MsgSend(from, to, d, n) /\ UNCHANGED <<proxyVars, ccmVars>>

Pip1Spec == Pip1Init /\ [][Pip1Next]_pip1Vars

-----------------------------------------------------------------------------
(* Properties *)

\* The stores hold what the handlers can write.
Pip1TypeOK ==
    /\ BankTypeOK
    /\ CcmTypeOK
    /\ lockProxies \subseteq Account
    /\ registry \subseteq Registry
    /\ bindChainId \subseteq Proxy \X RemoteChain
    /\ DOMAIN books \subseteq registry
    /\ \A k \in DOMAIN books : books[k] \in Nat
    /\ nonce \in 0..MaxCrossChainId

UnlocksSent == {tx \in crossChainTxs : tx.param.method = "unlock"}

\* The registry that an unlock message sent adds to.
KeyOfSent(tx) == RegistryKey(tx.param.fromContract, tx.param.args.fromAssetHash,
                             tx.param.toChainId, tx.param.toContract, tx.param.args.toAssetHash)

\* Amounts in the messages that lock coins for registry k, and in those that
\* released coins of it.
Sent(k) == SumFunction(
    [tx \in {t \in UnlocksSent : KeyOfSent(t) = k} |-> tx.param.args.amount])

Released(k) == SumFunction(
    [i \in {j \in DOMAIN executed : executed[j].method = "unlock" /\ KeyOf(executed[j]) = k}
         |-> executed[i].args.amount])

\* The balance of a registry is what it was created with and what was sent to
\* its contract, less what that contract has released, fees included: the books
\* that Unlock trusts agree with the messages (keeper.go:274-428).
BooksMatchMessages == \A k \in registry :
    GetBalance(k) + Released(k) =
        Sent(k) + (IF k \in DOMAIN created THEN created[k] ELSE 0)

\* The module account, which all registries share, holds at least what they
\* have on their books, whoever pays or receives a fee, the account included.
EscrowCoversBooks == \A d \in Denom :
    balance[LockProxyModule][d] >=
        SumFunction([k \in {j \in DOMAIN books : j.denom = d} |-> books[k]])

\* Nonces number the unlock messages that were sent, in their order and without
\* gaps, the attempts that failed after taking one included (keeper.go:252-279).
NoncesDense ==
    /\ {tx.param.args.nonce : tx \in UnlocksSent} = 1..nonce
    /\ \A s, t \in UnlocksSent : s.param.args.nonce = t.param.args.nonce => s = t

\* ccm is asked to unlock with this module exactly the messages of chains for
\* which the proxy has an asset (keeper.go:78-80, 112-129).
RoutedIffRegistered == bindChainId = {<<k.proxy, k.chain>> : k \in registry}

\* One step of DrawnByItsContract.
Draw == \A k \in DOMAIN books :
    books'[k] < books[k] =>
        /\ \E m \in UnlockMsg : executed' = Append(executed, m) /\ KeyOf(m) = k
        /\ \A j \in registry \ {k} : GetBalance(j)' = GetBalance(j)

\* A registry is drawn on by one message at a time, of its own contract and for
\* its own asset; no contract touches what was locked for another one.
DrawnByItsContract == [][Draw]_pip1Vars
=============================================================================
