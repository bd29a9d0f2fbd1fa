------------------------------ MODULE PolyApp ------------------------------
(***************************************************************************)
(* The three token modules mounted side by side as unlock keepers of ccm   *)
(* (simapp/app.go:266-274): they share the bank, the registry of denoms    *)
(* and the numbering of messages, and an incoming message is unlocked by   *)
(* the first of them, in the random order of a Go map, whose store has a   *)
(* binding for its target.                                                 *)
(***************************************************************************)
EXTENDS CrossChainManager, FixedBytes

CONSTANTS
    RemoteChain, \* ids of other chains
    BtcChainId,  \* that of bitcoin
    Contract,    \* hashes of proxy contracts on other chains
    Asset,       \* hashes of assets there
    Script,      \* redeem scripts
    NoScript,    \* no bytes
    Uint64Len,   \* bytes of an amount in btcx messages, 8 in the code
    Uint64Size,  \* the values they can have
    Amounts      \* bound: amounts of coins in messages

VARIABLES
    lockProxies, proxyHash, proxyAsset, lockedDenom, \* lockproxy
    denomToCreator, redeemScript, btcxAsset,         \* btcx
    independent, ftAsset,                            \* ft
    unlockedBy \* history: the keeper that unlocked each executed message

lockProxyStores == <<lockProxies, proxyHash, proxyAsset, lockedDenom>>
btcxStores == <<denomToCreator, redeemScript, btcxAsset>>
ftStores == <<independent, ftAsset>>
appVars == <<lockProxyStores, btcxStores, ftStores, unlockedBy, ccmVars, bankVars>>

lockproxy == INSTANCE LockProxy WITH assetHash <- proxyAsset
btcx == INSTANCE Btcx WITH assetHash <- btcxAsset
ft == INSTANCE Ft WITH assetHash <- ftAsset

\* A message carries the args of lockproxy, or an address and the bytes of an
\* amount, as many as the sender thought right.
ASSUME AppAssumption ==
    /\ Uint64Len \in 1..IntBsLen
    /\ Uint64Size \in Nat \ {0} /\ Uint64Size = Power[Uint64Len]
    /\ Amounts \subseteq Nat /\ \A n \in Amounts : ft!CanPad(n)
    /\ "lockproxy" \in Module /\ Account \cap Denom = {}
    /\ lockproxy!LockParam \cup btcx!LockParam \cup ft!LockParam \subseteq Outbound
    /\ \A m \in Inbound :
           /\ {"fromChainId", "fromContract", "toContract", "args"} \subseteq DOMAIN m
           /\ IF m.toContract \in Account THEN m.args \in lockproxy!Args
              ELSE /\ DOMAIN m.args = {"toAddress", "amount"}
                   /\ m.args.toAddress \in Holder
                   /\ m.args.amount \in Seq(0..ByteSize - 1)

AppInit ==
    /\ lockproxy!LockProxyInit
    /\ btcx!BtcxInit
    /\ ft!FtInit
    /\ unlockedBy = <<>>

-----------------------------------------------------------------------------
\* What btcx makes of a message: the low bytes of the amount, whatever comes
\* after them.
BtcxReads(m) ==
    [m EXCEPT !.args = [toBtcAddress |-> m.args.toAddress,
                        amount |-> ValueOf(m.args.amount, Uint64Len)]]

\* Mutant: the contract bound for the message's target need not be its sender.
BtcxUnlockUnchecked(m) ==
    /\ btcx!ContainToContractAddr(m)
    /\ Len(m.args.amount) >= Uint64Len
    /\ btcx!MintCoins(m.args.toAddress, m.toContract, BtcxReads(m).args.amount)

BtcxUnlock(m) ==
    /\ btcx!ContainToContractAddr(m)
    /\ Len(m.args.amount) >= Uint64Len
    /\ btcx!Unlock(BtcxReads(m))

\* ProcessUnlockTx: any keeper that contains the contract may be the first one
\* found.  If its Unlock fails, so does the transaction.
UnlockWith(keeper, m) ==
    \/ keeper = "lockproxy" /\ lockproxy!Unlock(m)
    \/ keeper = "btcx" /\ BtcxUnlock(m)
    \/ keeper = "ft" /\ ft!Unlock(m)

ReceiveUnlock(m) ==
    /\ m.method = "unlock"
    /\ ExecuteMessage(m)
    /\ \E keeper \in {"lockproxy", "btcx", "ft"} :
           /\ UnlockWith(keeper, m)
           /\ unlockedBy' = Append(unlockedBy, keeper)
    /\ UNCHANGED <<lockProxyStores, btcxStores, ftStores,
                   crossChainId, crossChainTxs, denomCreator>>

AppNext ==
    \/ lockproxy!LockProxyHandler /\ UNCHANGED <<btcxStores, ftStores, unlockedBy>>
    \/ btcx!BtcxHandler /\ UNCHANGED <<lockProxyStores, ftStores, unlockedBy>>
    \/ ft!FtHandler /\ UNCHANGED <<lockProxyStores, btcxStores, unlockedBy>>
    \/ \E m \in Inbound : ReceiveUnlock(m)
    \/ \E from \in Signer, to \in Account, d \in Denom, n \in Amounts :
           /\ MsgSend(from, to, d, n)
           /\ UNCHANGED <<lockProxyStores, btcxStores, ftStores, unlockedBy, ccmVars>>

AppSpec == AppInit /\ [][AppNext]_appVars

-----------------------------------------------------------------------------
(* Properties *)

\* Every module's stores have their types, whatever the others do.
AppTypeOK ==
    /\ lockproxy!LockProxyTypeOK
    /\ btcx!BtcxTypeOK
    /\ ft!FtTypeOK
    /\ Len(unlockedBy) = Len(executed)

\* One step of CreatorsPermanent.
CreatorsStay == \A d \in Denom :
    denomCreator[d] # NoAddr => denomCreator'[d] = denomCreator[d]

\* Amounts of d that lockproxy has sent, and those that took coins out of it.
Sent(d) == SumFunction(
    [tx \in {t \in crossChainTxs : /\ t.param.fromContract \in Account
                                   /\ lockedDenom[t.crossChainId] = d}
         |-> tx.param.args.amount])

Released(d) == SumFunction(
    [i \in {j \in DOMAIN executed : /\ unlockedBy[j] = "lockproxy"
                                    /\ executed[j].args.toAssetHash = d}
         |-> executed[i].args.amount])

\* What lockproxy holds covers what it sent and has not paid back, for denoms
\* that the other two modules mint and burn at the same time.
EscrowCoversMessages == \A d \in Denom :
    balance["lockproxy"][d] + Released(d) >= Sent(d)

\* The asset bound to k in a store, as a set.
Bound(store, k) == {store[x] : x \in {k} \cap DOMAIN store}

\* One step of SupplyExplained.
Explained == \A d \in Denom : supply'[d] # supply[d] =>
    \/ /\ supply[d] = 0 /\ denomCreator[d] = NoAddr
       /\ denomCreator'[d] # NoAddr
    \/ \E m \in Inbound :
           /\ executed' = Append(executed, m)
           /\ m.toContract = d
           /\ LET k == <<d, m.fromChainId>>
              IN m.fromContract \in Bound(btcxAsset, k) \cup Bound(ftAsset, k)
    \/ /\ supply'[d] < supply[d]
       /\ \E tx \in crossChainTxs' \ crossChainTxs : tx.param.fromContract = d

\* A message to bitcoin carries the redeem script its denom was created with, be
\* that empty, if btcx created it.  A denom that ft or lockproxy created can be
\* bound in btcx as well, which asks ccm's registry only (keeper.go:100, 234),
\* and goes to bitcoin with no script: Lock does not notice (keeper.go:127-140).
ScriptOfCreatedDenom == \A tx \in crossChainTxs :
    LET d == tx.param.fromContract IN
    tx.param.toChainId = BtcChainId /\ "redeemScript" \in DOMAIN tx.param.args =>
        /\ denomCreator[d] # NoAddr
        /\ tx.param.args.redeemScript =
               IF d \in DOMAIN denomToCreator THEN redeemScript[d] ELSE NoScript

\* One step of FixedSupplyUnlessInBtcx.
FixedUnlessBound == \A d \in Denom \ independent :
    supply[d] > 0 /\ supply'[d] # supply[d] => \E c \in RemoteChain :
        /\ <<d, c>> \in DOMAIN btcxAsset
        /\ denomCreator[d] # NoAddr

\* One step of OthersGoToBtcx.
OtherGoesToBtcx ==
    unlockedBy' # unlockedBy =>
        LET m == Last(executed') IN
        btcx!ContainToContractAddr(m) => Last(unlockedBy') = "btcx"

\* ccm keeper.go:176 says that a message is unlocked by lockproxy if it is for
\* one, "otherwise, invoke btcx.unlock"; the loop below it asks btcx and ft in
\* random order, and a denom can be bound in both.
OthersGoToBtcx == [][OtherGoesToBtcx]_appVars
=============================================================================
