-------------------------------- MODULE Btcx --------------------------------
(***************************************************************************)
(* The btcx module (btcx/internal/keeper/keeper.go): denoms that stand for *)
(* bitcoin locked under a redeem script.  Coins are minted on a message of *)
(* the bound asset and burnt by Lock, which sends a message back.  Amounts *)
(* in messages have 64 bits, amounts of coins have no bound.               *)
(***************************************************************************)
EXTENDS CrossChainManager

CONSTANTS
    RemoteChain, \* ids of other chains
    BtcChainId,  \* that of bitcoin
    Asset,       \* hashes of assets on other chains, none empty
    Script,      \* redeem scripts: any bytes, or none at all
    NoScript,    \* no bytes
    Uint64Size,  \* bound: amounts in messages are below this, 2^64 in the code
    Amounts      \* bound: amounts in MsgLock

\* BTCArgs, with the script of ToBTCArgs when the message goes to bitcoin.
Args == [toBtcAddress: Holder, amount: 0..Uint64Size - 1, redeemScript: Script \cup {NoScript}]

\* What Lock asks ccm to send.
LockParam == [fromContract: Denom, toChainId: RemoteChain, toContract: Asset,
              method: {"unlock"}, args: Args]

UnlockMsg == {m \in Inbound : m.method = "unlock"}

ASSUME BtcxAssumption ==
    /\ Uint64Size \in Nat \ {0}
    /\ Amounts \subseteq Nat
    /\ LockParam \subseteq Outbound
    /\ \A m \in UnlockMsg : m.args.toBtcAddress \in Holder /\ m.args.amount \in 0..Uint64Size - 1

VARIABLES
    denomToCreator, \* this module's own record of creators, for its queries
    redeemScript,   \* denom to the script stored under its script hash
    assetHash       \* <<denom, chain>> to the bound asset

scriptVars == <<denomToCreator, redeemScript>>
btcxVars == <<scriptVars, assetHash, ccmVars, bankVars>>

BtcxInit ==
    /\ CcmInit
    /\ denomToCreator = <<>>
    /\ redeemScript = <<>>
    /\ assetHash = <<>>

-----------------------------------------------------------------------------
\* Mutant: the script itself is not stored.
CreateDenomWithoutScript(creator, d, script) ==
    /\ ~ ExistDenom(d)
    /\ SetDenomCreator(d, creator)
    /\ denomToCreator' = Put(denomToCreator, d, creator)
    /\ UNCHANGED <<redeemScript, assetHash, crossChainId, crossChainTxs, doneTx, executed, bankVars>>

\* The script is kept under its hash, which no two scripts share.
CreateDenom(creator, d, script) ==
    /\ ~ ExistDenom(d)
    /\ SetDenomCreator(d, creator)
    /\ denomToCreator' = Put(denomToCreator, d, creator)
    /\ redeemScript' = Put(redeemScript, d, script)
    /\ UNCHANGED <<assetHash, crossChainId, crossChainTxs, doneTx, executed, bankVars>>

\* The creator recorded by ccm, whichever module created the denom.
ValidCreator(d, creator) == denomCreator[d] = creator

BindAssetHash(creator, d, c, hash) ==
    /\ ValidCreator(d, creator)
    /\ assetHash' = Put(assetHash, <<d, c>>, hash)
    /\ UNCHANGED <<scriptVars, ccmVars, bankVars>>

GetRedeemScript(d) == IF d \in DOMAIN redeemScript THEN redeemScript[d] ELSE NoScript

\* Mutant: ToBTCArgs and BTCArgs are swapped.
ToArgsWithoutScript(d, c, to, n) ==
    [toBtcAddress |-> to, amount |-> n % Uint64Size,
     redeemScript |-> IF c = BtcChainId THEN NoScript ELSE GetRedeemScript(d)]

\* Uint64() keeps the low 64 bits of the amount.
ToArgs(d, c, to, n) ==
    [toBtcAddress |-> to, amount |-> n % Uint64Size,
     redeemScript |-> IF c = BtcChainId THEN GetRedeemScript(d) ELSE NoScript]

\* Mutant: the coins are not burnt.
LockWithoutBurning(from, d, c, to, n) ==
    /\ <<d, c>> \in DOMAIN assetHash
    /\ balance[from][d] >= n
    /\ CreateCrossChainTx([fromContract |-> d, toChainId |-> c,
                           toContract |-> assetHash[<<d, c>>],
                           method |-> "unlock", args |-> ToArgs(d, c, to, n)])
    /\ UNCHANGED <<scriptVars, assetHash, doneTx, denomCreator, executed, bankVars>>

\* The whole amount is burnt, whatever the message can carry.
Lock(from, d, c, to, n) ==
    /\ <<d, c>> \in DOMAIN assetHash
    /\ c = BtcChainId => denomCreator[d] # NoAddr
    /\ CreateCrossChainTx([fromContract |-> d, toChainId |-> c,
                           toContract |-> assetHash[<<d, c>>],
                           method |-> "unlock", args |-> ToArgs(d, c, to, n)])
    /\ BurnCoins(from, d, n)
    /\ UNCHANGED <<scriptVars, assetHash, doneTx, denomCreator, executed>>

ContainToContractAddr(m) == <<m.toContract, m.fromChainId>> \in DOMAIN assetHash

\* Mutant: the message's contract is not compared with the bound asset.
UnlockFromAnyAsset(m) ==
    /\ ContainToContractAddr(m)
    /\ MintCoins(m.args.toBtcAddress, m.toContract, m.args.amount)

Unlock(m) ==
    /\ ContainToContractAddr(m)
    /\ assetHash[<<m.toContract, m.fromChainId>>] = m.fromContract
    /\ MintCoins(m.args.toBtcAddress, m.toContract, m.args.amount)

\* ProcessUnlockTx with btcx as the only unlock keeper.
ReceiveUnlock(m) ==
    /\ ExecuteMessage(m)
    /\ Unlock(m)
    /\ UNCHANGED <<scriptVars, assetHash, crossChainId, crossChainTxs, denomCreator>>

\* The transactions of users and creators.
BtcxHandler ==
    \/ \E creator \in Signer, d \in Denom, script \in Script : CreateDenom(creator, d, script)
    \/ \E creator \in Signer, d \in Denom, c \in RemoteChain, hash \in Asset :
           BindAssetHash(creator, d, c, hash)
    \/ \E from \in Signer, d \in Denom, c \in RemoteChain, to \in Holder, n \in Amounts :
           Lock(from, d, c, to, n)

BtcxNext ==
    \/ BtcxHandler
    \/ \E m \in UnlockMsg : ReceiveUnlock(m)

BtcxSpec == BtcxInit /\ [][BtcxNext]_btcxVars

-----------------------------------------------------------------------------
(* Properties *)

\* The stores hold what the handlers can write.
BtcxTypeOK ==
    /\ BankTypeOK
    /\ CcmTypeOK
    /\ DOMAIN redeemScript = DOMAIN denomToCreator
    /\ \A d \in DOMAIN redeemScript : redeemScript[d] \in Script
    /\ \A d \in DOMAIN denomToCreator : d \in Denom /\ denomToCreator[d] \in Account
    /\ DOMAIN assetHash \subseteq Denom \X RemoteChain
    /\ \A k \in DOMAIN assetHash : assetHash[k] \in Asset

\* Amounts of d in the messages sent, and in those that minted.
Sent(d) == SumFunction(
    [tx \in {t \in crossChainTxs : t.param.fromContract = d} |-> tx.param.args.amount])

Minted(d) == SumFunction(
    [i \in {j \in DOMAIN executed : executed[j].toContract = d} |-> executed[i].args.amount])

\* What is in circulation here and what other chains may release because of
\* messages sent never exceed what they locked for us: a lock whose amount does
\* not fit the message loses coins and never makes any (keeper.go:118-171).
NeverOverReleased == \A d \in Denom :
    supply[d] + Sent(d) <= GenesisSupply[d] + Minted(d)

\* Only denoms that ccm knows the creator of can be locked and minted, so the
\* coins of the genesis file never are (keeper.go:99-102, 233-235).
BoundDenomsHaveCreator == \A k \in DOMAIN assetHash : denomCreator[k[1]] # NoAddr

\* One step of MintedForBoundAsset.
Mint == \A d \in Denom : supply'[d] > supply[d] =>
    \E m \in UnlockMsg :
        /\ executed' = Append(executed, m)
        /\ m.toContract = d
        /\ m.fromContract = assetHash[<<d, m.fromChainId>>]
        /\ supply'[d] - supply[d] = m.args.amount
        /\ denomCreator[d] # NoAddr

\* Coins are minted for one message at a time, which comes from the asset that
\* the denom's creator has bound at that moment (keeper.go:173-201).
MintedForBoundAsset == [][Mint]_btcxVars
=============================================================================
