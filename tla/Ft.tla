--------------------------------- MODULE Ft ---------------------------------
(***************************************************************************)
(* The ft module (ft/internal/keeper/keeper.go, ft_crossed_indenpently.go).*)
(* CreateCoins makes denoms with a fixed supply, for lockproxy to lock.    *)
(* CreateDenom makes independent ones, which start without coins and cross *)
(* through this module: minted on messages, burnt by Lock.                 *)
(***************************************************************************)
EXTENDS CrossChainManager, FixedBytes

CONSTANTS
    RemoteChain, \* ids of other chains
    Asset,       \* hashes of assets on other chains, none empty
    Amounts      \* bound: amounts of coins in messages

\* Serialization reverses what PadFixedBytes has reversed: the most significant
\* byte of an amount goes first.
AmountSent(n) == Reverse(PadFixedBytes(n))

\* Deserialization does not: it takes the first byte for the least significant.
AmountReceived(m) == UnpadFixedBytes(m.args.amount)

Args == [toAddress: Holder, amount: PaddedBytes]

\* What Lock asks ccm to send.
LockParam == [fromContract: Denom, toChainId: RemoteChain, toContract: Asset,
              method: {"unlock"}, args: Args]

UnlockMsg == {m \in Inbound : m.method = "unlock"}

ASSUME FtAssumption ==
    /\ Amounts \subseteq Nat
    /\ \A n \in Amounts : CanPad(n)
    /\ LockParam \subseteq Outbound
    /\ \A m \in UnlockMsg : m.args \in Args

VARIABLES
    independent, \* denoms made by CreateDenom
    assetHash    \* <<denom, chain>> to the bound asset

ftVars == <<independent, assetHash, ccmVars, bankVars>>

FtInit ==
    /\ CcmInit
    /\ independent = {}
    /\ assetHash = <<>>

-----------------------------------------------------------------------------
\* All coins of the message are created or none is; each has a positive amount.
CreateCoins(creator, coins) ==
    LET created == {d \in Denom : coins[d] > 0} IN
    /\ \A d \in created : ~ ExistDenom(d)
    /\ denomCreator' = [d \in Denom |-> IF d \in created THEN creator ELSE denomCreator[d]]
    /\ MintAll(creator, coins)
    /\ UNCHANGED <<independent, assetHash, crossChainId, crossChainTxs, doneTx, executed>>

\* Mutant: only the registry of creators is consulted, not the supply.
CreateUnregisteredDenom(creator, d) ==
    /\ denomCreator[d] = NoAddr
    /\ SetDenomCreator(d, creator)
    /\ independent' = independent \cup {d}
    /\ UNCHANGED <<assetHash, crossChainId, crossChainTxs, doneTx, executed, bankVars>>

CreateDenom(creator, d) ==
    /\ ~ ExistDenom(d)
    /\ SetDenomCreator(d, creator)
    /\ independent' = independent \cup {d}
    /\ UNCHANGED <<assetHash, crossChainId, crossChainTxs, doneTx, executed, bankVars>>

ValidCreator(d, creator) == denomCreator[d] = creator

\* Mutant: a denom with a fixed supply can be bound.
BindAssetHashOfAny(creator, d, c, hash) ==
    /\ ValidCreator(d, creator)
    /\ assetHash' = Put(assetHash, <<d, c>>, hash)
    /\ UNCHANGED <<independent, ccmVars, bankVars>>

\* Mutant: the key is put together in another order than it is read.
BindAssetHashSwapped(creator, d, c, hash) ==
    /\ ValidCreator(d, creator)
    /\ d \in independent
    /\ assetHash' = Put(assetHash, <<c, d>>, hash)
    /\ UNCHANGED <<independent, ccmVars, bankVars>>

BindAssetHash(creator, d, c, hash) ==
    /\ ValidCreator(d, creator)
    /\ d \in independent
    /\ assetHash' = Put(assetHash, <<d, c>>, hash)
    /\ UNCHANGED <<independent, ccmVars, bankVars>>

\* Burnt after the message is stored; if that fails the message is dropped too.
Lock(from, d, c, to, n) ==
    /\ <<d, c>> \in DOMAIN assetHash
    /\ CreateCrossChainTx([fromContract |-> d, toChainId |-> c,
                           toContract |-> assetHash[<<d, c>>],
                           method |-> "unlock", args |-> [toAddress |-> to, amount |-> AmountSent(n)]])
    /\ BurnCoins(from, d, n)
    /\ UNCHANGED <<independent, assetHash, doneTx, denomCreator, executed>>

ContainToContractAddr(m) == <<m.toContract, m.fromChainId>> \in DOMAIN assetHash

\* Mutant: the message's contract is not compared with the bound asset.
UnlockFromAnyAsset(m) ==
    /\ ContainToContractAddr(m)
    /\ MintCoins(m.args.toAddress, m.toContract, AmountReceived(m))

Unlock(m) ==
    /\ ContainToContractAddr(m)
    /\ CanUnpad(m.args.amount)
    /\ assetHash[<<m.toContract, m.fromChainId>>] = m.fromContract
    /\ MintCoins(m.args.toAddress, m.toContract, AmountReceived(m))

\* ProcessUnlockTx with ft as the only unlock keeper.
ReceiveUnlock(m) ==
    /\ ExecuteMessage(m)
    /\ Unlock(m)
    /\ UNCHANGED <<independent, assetHash, crossChainId, crossChainTxs, denomCreator>>

\* The transactions of users and creators.
FtHandler ==
    \/ \E creator \in Signer, coins \in [Denom -> Amounts \cup {0}] : CreateCoins(creator, coins)
    \/ \E creator \in Signer, d \in Denom : CreateDenom(creator, d)
    \/ \E creator \in Signer, d \in Denom, c \in RemoteChain, hash \in Asset :
           BindAssetHash(creator, d, c, hash)
    \/ \E from \in Signer, d \in Denom, c \in RemoteChain, to \in Holder, n \in Amounts :
           Lock(from, d, c, to, n)

FtNext ==
    \/ FtHandler
    \/ \E m \in UnlockMsg : ReceiveUnlock(m)

FtSpec == FtInit /\ [][FtNext]_ftVars

-----------------------------------------------------------------------------
(* Properties *)

\* The stores hold what the handlers can write.
FtTypeOK ==
    /\ BankTypeOK
    /\ CcmTypeOK
    /\ independent \subseteq Denom
    /\ DOMAIN assetHash \subseteq Denom \X RemoteChain
    /\ \A k \in DOMAIN assetHash : assetHash[k] \in Asset

\* The amount of a message sent, most significant byte first.
AmountIn(tx) == UnpadFixedBytes(Reverse(tx.param.args.amount))

\* Amounts of d in the messages sent, and in those that minted.
Sent(d) == SumFunction(
    [tx \in {t \in crossChainTxs : t.param.fromContract = d} |-> AmountIn(tx)])

Minted(d) == SumFunction(
    [i \in {j \in DOMAIN executed : executed[j].toContract = d} |-> AmountReceived(executed[i])])

\* An independent denom has no coins of its own: those in circulation and those
\* sent back are exactly the ones that messages brought, so a denom that has
\* coins already can never become independent (ft_crossed_indenpently.go:30-34).
IndependentCoinsCrossed == \A d \in independent : supply[d] + Sent(d) = Minted(d)

\* One step of CrossesByBoundAsset.
Cross == \A d \in Denom :
    /\ supply'[d] > supply[d] /\ d \in independent =>
           \E m \in UnlockMsg :
               /\ executed' = Append(executed, m)
               /\ m.toContract = d
               /\ m.fromContract = assetHash[<<d, m.fromChainId>>]
    /\ supply'[d] < supply[d] =>
           \E tx \in crossChainTxs' \ crossChainTxs :
               /\ tx.param.fromContract = d
               /\ tx.param.toContract = assetHash[<<d, tx.param.toChainId>>]
               /\ AmountIn(tx) = supply[d] - supply'[d]

\* Coins of an independent denom come and go with one message at a time, from
\* and to the asset its creator has bound at that moment; a burn without its
\* message, or a mint for an asset replaced since, never happens.
CrossesByBoundAsset == [][Cross]_ftVars
=============================================================================
