--------------------------- MODULE PolyAppProofs ---------------------------
(***************************************************************************)
(* Proofs about Restart, for any denoms, users and messages and any number *)
(* of lives: what ccm guarantees survives three modules that share it, the *)
(* creator of a denom is permanent in a life, every change of a total has  *)
(* its reason, a total that was fixed changes through btcx alone, messages *)
(* carry the script their denom was created with, no coin is made or lost  *)
(* beside the totals, coins that a life inherits are frozen in it, and     *)
(* what lockproxy sent, in this life or earlier, stays covered.            *)
(***************************************************************************)
EXTENDS Restart, CrossChainManagerProofs

-----------------------------------------------------------------------------
(* What a step of each module does to the stores of ccm                    *)

\* Nothing, or a message sent, or denoms created that did not exist.
CcmEffect ==
    \/ UNCHANGED ccmVars
    \/ /\ \E r \in Outbound : CreateCrossChainTx(r)
       /\ UNCHANGED <<doneTx, denomCreator, executed>>
    \/ /\ denomCreator' \in [Denom -> {NoAddr} \cup Account]
       /\ \A d \in Denom : denomCreator'[d] # denomCreator[d] => ~ ExistDenom(d)
       /\ UNCHANGED <<crossChainId, crossChainTxs, doneTx, executed>>

\* Setting the creator of a new denom is such an effect.
LEMMA CreateEffect ==
    ASSUME CcmTypeOK, NEW d \in Denom, NEW creator \in Account, ~ ExistDenom(d),
           SetDenomCreator(d, creator),
           UNCHANGED <<crossChainId, crossChainTxs, doneTx, executed>>
    PROVE  CcmEffect
<1>1. denomCreator' \in [Denom -> {NoAddr} \cup Account]
  BY DEF CcmTypeOK, SetDenomCreator
<1>2. \A e \in Denom : denomCreator'[e] # denomCreator[e] => e = d
  BY DEF CcmTypeOK, SetDenomCreator
<1>. QED
  BY <1>1, <1>2 DEF CcmEffect

\* The stores of the token modules hold what their handlers can write, and so
\* what a message may name.
ProxyStoresInv ==
    /\ lockProxies \subseteq Account
    /\ DOMAIN proxyHash \subseteq Account \X RemoteChain
    /\ \A k \in DOMAIN proxyHash : proxyHash[k] \in Contract
    /\ DOMAIN proxyAsset \subseteq Account \X Denom \X RemoteChain
    /\ \A k \in DOMAIN proxyAsset : proxyAsset[k] \in Asset

BtcxStoresInv ==
    /\ DOMAIN redeemScript = DOMAIN denomToCreator
    /\ \A d \in DOMAIN redeemScript : redeemScript[d] \in Script
    /\ \A d \in DOMAIN denomToCreator : d \in Denom /\ denomToCreator[d] \in Account
    /\ DOMAIN btcxAsset \subseteq Denom \X RemoteChain
    /\ \A k \in DOMAIN btcxAsset : btcxAsset[k] \in Asset

FtStoresInv ==
    /\ independent \subseteq Denom
    /\ DOMAIN ftAsset \subseteq independent \X RemoteChain
    /\ \A k \in DOMAIN ftAsset : ftAsset[k] \in Asset

StoresInv == ProxyStoresInv /\ BtcxStoresInv /\ FtStoresInv

\* A binding is stored for the key that it is read with.
LEMMA PutKeys ==
    ASSUME NEW K, NEW store, DOMAIN store \subseteq K, NEW k \in K, NEW v
    PROVE  DOMAIN Put(store, k, v) \subseteq K
BY DEF Put

\* The bytes of an amount, in either order, are that many bytes.
LEMMA AmountBytes ==
    ASSUME NEW n \in Amounts
    PROVE  ft!AmountSent(n) \in ft!PaddedBytes
<1>. DEFINE bs == ft!PadFixedBytes(n)
<1>1. bs \in ft!PaddedBytes
  BY AppAssumption DEF ft!CanPad, ft!PadFixedBytes
<1>2. ft!AmountSent(n) = ft!Reverse(bs)
  BY DEF ft!AmountSent
<1>3. Len(bs) = IntBsLen /\ IntBsLen \in Nat
  BY <1>1, FixedBytesAssumption DEF ft!PaddedBytes
<1>. HIDE DEF bs
<1>. QED
  BY <1>1, <1>2, <1>3 DEF ft!Reverse, ft!PaddedBytes

AppInv == CcmInv /\ StoresInv

\* A transaction of lockproxy's.
LEMMA LockProxyStep ==
    ASSUME AppInv, lockproxy!LockProxyHandler
    PROVE  CcmEffect /\ ProxyStoresInv'
<1>1. CASE \E creator \in lockproxy!Signer : lockproxy!CreateLockProxy(creator)
  BY <1>1 DEF AppInv, StoresInv, ProxyStoresInv, lockproxy!CreateLockProxy, lockproxy!Signer,
     lockproxy!ccmVars, ccmVars, CcmEffect
<1>2. ASSUME NEW creator \in lockproxy!Signer, NEW proxy \in Account \cup {NoAddr}, NEW d \in Denom,
             NEW n \in Amounts,
             lockproxy!CreateCoinAndDelegateToProxy(creator, d, n, proxy)
      PROVE  CcmEffect /\ ProxyStoresInv'
  <2>1. /\ creator \in Account
        /\ ~ ExistDenom(d)
        /\ SetDenomCreator(d, creator)
        /\ UNCHANGED <<lockProxies, proxyHash, proxyAsset, crossChainId, crossChainTxs, doneTx, executed>>
    BY <1>2 DEF lockproxy!CreateCoinAndDelegateToProxy, lockproxy!ExistDenom, ExistDenom,
       lockproxy!SetDenomCreator, SetDenomCreator, lockproxy!proxyVars, lockproxy!Signer
  <2>. QED
    BY <2>1, CreateEffect DEF AppInv, CcmInv, StoresInv, ProxyStoresInv
<1>3. ASSUME NEW operator \in lockproxy!Signer, NEW c \in RemoteChain, NEW hash \in Contract,
             lockproxy!BindProxyHash(operator, c, hash)
      PROVE  CcmEffect /\ ProxyStoresInv'
  <2>1. /\ proxyHash' = Put(proxyHash, <<operator, c>>, hash)
        /\ UNCHANGED <<lockProxies, proxyAsset, ccmVars>>
    BY <1>3 DEF lockproxy!BindProxyHash, lockproxy!Put, Put, lockproxy!ccmVars, ccmVars
  <2>2. \A k \in DOMAIN proxyHash' : proxyHash'[k] \in Contract
    BY <2>1, PutValues DEF AppInv, StoresInv, ProxyStoresInv
  <2>3. DOMAIN proxyHash' \subseteq Account \X RemoteChain
    BY <2>1, PutKeys DEF AppInv, StoresInv, ProxyStoresInv, lockproxy!Signer
  <2>. QED
    BY <2>1, <2>2, <2>3 DEF AppInv, StoresInv, ProxyStoresInv, CcmEffect
<1>4. ASSUME NEW operator \in lockproxy!Signer, NEW d \in Denom, NEW c \in RemoteChain,
             NEW hash \in Asset, lockproxy!BindAssetHash(operator, d, c, hash)
      PROVE  CcmEffect /\ ProxyStoresInv'
  <2>1. /\ proxyAsset' = Put(proxyAsset, <<operator, d, c>>, hash)
        /\ UNCHANGED <<lockProxies, proxyHash, ccmVars>>
    BY <1>4 DEF lockproxy!BindAssetHash, lockproxy!Put, Put, lockproxy!ccmVars, ccmVars
  <2>2. \A k \in DOMAIN proxyAsset' : proxyAsset'[k] \in Asset
    BY <2>1, PutValues DEF AppInv, StoresInv, ProxyStoresInv
  <2>3. DOMAIN proxyAsset' \subseteq Account \X Denom \X RemoteChain
    BY <2>1, PutKeys DEF AppInv, StoresInv, ProxyStoresInv, lockproxy!Signer
  <2>. QED
    BY <2>1, <2>2, <2>3 DEF AppInv, StoresInv, ProxyStoresInv, CcmEffect
<1>5. ASSUME NEW from \in lockproxy!Signer, NEW proxy \in Account, NEW d \in Denom,
             NEW c \in RemoteChain, NEW to \in Holder, NEW n \in Amounts,
             lockproxy!Lock(proxy, from, d, c, to, n)
      PROVE  CcmEffect /\ ProxyStoresInv'
  <2>. DEFINE r == [fromContract |-> proxy, toChainId |-> c,
                    toContract |-> proxyHash[<<proxy, c>>], method |-> "unlock",
                    args |-> lockproxy!ToArgs(proxy, d, c, to, n)]
  <2>1. /\ <<proxy, c>> \in DOMAIN proxyHash
        /\ CreateCrossChainTx(r)
        /\ UNCHANGED <<lockProxies, proxyHash, proxyAsset, doneTx, denomCreator, executed>>
    BY <1>5 DEF lockproxy!Lock, lockproxy!CreateCrossChainTx, CreateCrossChainTx,
                lockproxy!proxyVars
  <2>2. lockproxy!ToArgs(proxy, d, c, to, n) \in lockproxy!Args
    BY DEF AppInv, StoresInv, ProxyStoresInv, lockproxy!ToArgs, lockproxy!GetAssetHash, lockproxy!Args,
           lockproxy!Holder, Holder
  <2>3. r \in Outbound
    <3>1. r \in lockproxy!LockParam
      BY <2>1, <2>2 DEF AppInv, StoresInv, ProxyStoresInv, lockproxy!LockParam
    <3>. QED
      BY <3>1, AppAssumption
  <2>. QED
    BY <2>1, <2>3 DEF AppInv, StoresInv, ProxyStoresInv, CcmEffect
<1>. QED
  BY <1>1, <1>2, <1>3, <1>4, <1>5 DEF lockproxy!LockProxyHandler, lockproxy!Holder, Holder

\* A transaction of btcx's.
LEMMA BtcxStep ==
    ASSUME AppInv, btcx!BtcxHandler
    PROVE  CcmEffect /\ BtcxStoresInv'
<1>1. ASSUME NEW creator \in btcx!Signer, NEW d \in Denom, NEW script \in Script,
             btcx!CreateDenom(creator, d, script)
      PROVE  CcmEffect /\ BtcxStoresInv'
  <2>1. /\ creator \in Account
        /\ ~ ExistDenom(d)
        /\ SetDenomCreator(d, creator)
        /\ redeemScript' = Put(redeemScript, d, script)
        /\ denomToCreator' = Put(denomToCreator, d, creator)
        /\ UNCHANGED <<btcxAsset, crossChainId, crossChainTxs, doneTx, executed>>
    BY <1>1 DEF btcx!CreateDenom, btcx!ExistDenom, ExistDenom, btcx!SetDenomCreator,
       SetDenomCreator, btcx!Put, Put, btcx!Signer
  <2>2. \A k \in DOMAIN redeemScript' : redeemScript'[k] \in Script
    BY <2>1, PutValues DEF AppInv, StoresInv, BtcxStoresInv
  <2>3. /\ DOMAIN redeemScript' = DOMAIN denomToCreator'
        /\ \A e \in DOMAIN denomToCreator' : e \in Denom /\ denomToCreator'[e] \in Account
    BY <2>1 DEF Put, AppInv, StoresInv, BtcxStoresInv
  <2>. QED
    BY <2>1, <2>2, <2>3, CreateEffect DEF AppInv, CcmInv, StoresInv, BtcxStoresInv
<1>2. ASSUME NEW creator \in btcx!Signer, NEW d \in Denom, NEW c \in RemoteChain,
             NEW hash \in Asset, btcx!BindAssetHash(creator, d, c, hash)
      PROVE  CcmEffect /\ BtcxStoresInv'
  <2>1. /\ btcxAsset' = Put(btcxAsset, <<d, c>>, hash)
        /\ UNCHANGED <<redeemScript, denomToCreator, ccmVars>>
    BY <1>2 DEF btcx!BindAssetHash, btcx!Put, Put, btcx!ccmVars, ccmVars, btcx!scriptVars
  <2>2. \A k \in DOMAIN btcxAsset' : btcxAsset'[k] \in Asset
    BY <2>1, PutValues DEF AppInv, StoresInv, BtcxStoresInv
  <2>3. DOMAIN btcxAsset' \subseteq Denom \X RemoteChain
    BY <2>1, PutKeys DEF AppInv, StoresInv, BtcxStoresInv
  <2>. QED
    BY <2>1, <2>2, <2>3 DEF AppInv, StoresInv, BtcxStoresInv, CcmEffect
<1>3. ASSUME NEW from \in btcx!Signer, NEW d \in Denom, NEW c \in RemoteChain,
             NEW to \in btcx!Holder, NEW n \in Amounts, btcx!Lock(from, d, c, to, n)
      PROVE  CcmEffect /\ BtcxStoresInv'
  <2>. DEFINE r == [fromContract |-> d, toChainId |-> c, toContract |-> btcxAsset[<<d, c>>],
                    method |-> "unlock", args |-> btcx!ToArgs(d, c, to, n)]
  <2>1. /\ <<d, c>> \in DOMAIN btcxAsset
        /\ CreateCrossChainTx(r)
        /\ UNCHANGED <<btcxAsset, redeemScript, denomToCreator, doneTx, denomCreator, executed>>
    BY <1>3 DEF btcx!Lock, btcx!CreateCrossChainTx, CreateCrossChainTx, btcx!scriptVars
  <2>2. n % Uint64Size \in 0..Uint64Size - 1
    BY AppAssumption
  <2>3. btcx!ToArgs(d, c, to, n) \in btcx!Args
    BY <2>2 DEF AppInv, StoresInv, BtcxStoresInv, btcx!ToArgs, btcx!GetRedeemScript, btcx!Args
  <2>4. r \in Outbound
    <3>1. r \in btcx!LockParam
      BY <2>1, <2>3 DEF AppInv, StoresInv, BtcxStoresInv, btcx!LockParam
    <3>. QED
      BY <3>1, AppAssumption
  <2>. QED
    BY <2>1, <2>4 DEF AppInv, StoresInv, BtcxStoresInv, CcmEffect
<1>. QED
  BY <1>1, <1>2, <1>3 DEF btcx!BtcxHandler

\* A transaction of ft's.
LEMMA FtStep ==
    ASSUME AppInv, ft!FtHandler
    PROVE  CcmEffect /\ FtStoresInv'
<1>1. ASSUME NEW creator \in ft!Signer, NEW coins \in [Denom -> Amounts \cup {0}],
             ft!CreateCoins(creator, coins)
      PROVE  CcmEffect /\ FtStoresInv'
  <2>. DEFINE created == {d \in Denom : coins[d] > 0}
  <2>1. /\ creator \in Account
        /\ \A d \in created : ~ ExistDenom(d)
        /\ denomCreator' = [d \in Denom |-> IF d \in created THEN creator ELSE denomCreator[d]]
        /\ UNCHANGED <<independent, ftAsset, crossChainId, crossChainTxs, doneTx, executed>>
    BY <1>1 DEF ft!CreateCoins, ft!ExistDenom, ExistDenom, ft!Signer
  <2>2. denomCreator \in [Denom -> {NoAddr} \cup Account]
    BY DEF AppInv, CcmInv, CcmTypeOK
  <2>3. /\ denomCreator' \in [Denom -> {NoAddr} \cup Account]
        /\ \A d \in Denom : denomCreator'[d] # denomCreator[d] => d \in created
    <3>. HIDE DEF created
    <3>. QED
      BY <2>1, <2>2
  <2>. QED
    BY <2>1, <2>3 DEF AppInv, StoresInv, FtStoresInv, CcmEffect
<1>2. ASSUME NEW creator \in ft!Signer, NEW d \in Denom, ft!CreateDenom(creator, d)
      PROVE  CcmEffect /\ FtStoresInv'
  <2>1. /\ creator \in Account
        /\ ~ ExistDenom(d)
        /\ SetDenomCreator(d, creator)
        /\ independent' = independent \cup {d}
        /\ UNCHANGED <<ftAsset, crossChainId, crossChainTxs, doneTx, executed>>
    BY <1>2 DEF ft!CreateDenom, ft!ExistDenom, ExistDenom, ft!SetDenomCreator,
       SetDenomCreator, ft!Signer
  <2>. QED
    BY <2>1, CreateEffect DEF AppInv, CcmInv, StoresInv, FtStoresInv
<1>3. ASSUME NEW creator \in ft!Signer, NEW d \in Denom, NEW c \in RemoteChain,
             NEW hash \in Asset, ft!BindAssetHash(creator, d, c, hash)
      PROVE  CcmEffect /\ FtStoresInv'
  <2>1. /\ ftAsset' = Put(ftAsset, <<d, c>>, hash)
        /\ d \in independent
        /\ UNCHANGED <<independent, ccmVars>>
    BY <1>3 DEF ft!BindAssetHash, ft!Put, Put, ft!ccmVars, ccmVars
  <2>2. \A k \in DOMAIN ftAsset' : ftAsset'[k] \in Asset
    BY <2>1, PutValues DEF AppInv, StoresInv, FtStoresInv
  <2>3. DOMAIN ftAsset' \subseteq independent \X RemoteChain
    BY <2>1, PutKeys DEF AppInv, StoresInv, FtStoresInv
  <2>. QED
    BY <2>1, <2>2, <2>3 DEF AppInv, StoresInv, FtStoresInv, CcmEffect
<1>4. ASSUME NEW from \in ft!Signer, NEW d \in Denom, NEW c \in RemoteChain,
             NEW to \in ft!Holder, NEW n \in Amounts, ft!Lock(from, d, c, to, n)
      PROVE  CcmEffect /\ FtStoresInv'
  <2>. DEFINE args == [toAddress |-> to, amount |-> ft!AmountSent(n)]
              r == [fromContract |-> d, toChainId |-> c, toContract |-> ftAsset[<<d, c>>],
                    method |-> "unlock", args |-> args]
  <2>1. /\ <<d, c>> \in DOMAIN ftAsset
        /\ CreateCrossChainTx(r)
        /\ UNCHANGED <<independent, ftAsset, doneTx, denomCreator, executed>>
    BY <1>4 DEF ft!Lock, ft!CreateCrossChainTx, CreateCrossChainTx
  <2>2. args \in ft!Args
    BY AmountBytes DEF ft!Args
  <2>3. r \in Outbound
    <3>1. r \in ft!LockParam
      <4>. HIDE DEF args
      <4>. QED
        BY <2>1, <2>2 DEF AppInv, StoresInv, FtStoresInv, ft!LockParam
    <3>. QED
      BY <3>1, AppAssumption
  <2>. QED
    BY <2>1, <2>3 DEF AppInv, StoresInv, FtStoresInv, CcmEffect
<1>. QED
  BY <1>1, <1>2, <1>3, <1>4 DEF ft!FtHandler

-----------------------------------------------------------------------------
(* The invariant *)

\* An effect that a token handler has on ccm's stores keeps ccm's invariant.
LEMMA EffectKeepsCcm ==
    ASSUME CcmInv, CcmEffect
    PROVE  CcmInv'
<1>1. CASE UNCHANGED ccmVars
  BY <1>1, FrameStep
<1>2. CASE /\ \E r \in Outbound : CreateCrossChainTx(r)
           /\ UNCHANGED <<doneTx, denomCreator, executed>>
  BY <1>2, OutgoingStep
<1>3. CASE /\ denomCreator' \in [Denom -> {NoAddr} \cup Account]
           /\ UNCHANGED <<crossChainId, crossChainTxs, doneTx, executed>>
  BY <1>3 DEF CcmInv, CcmTypeOK, IncomingInv, OutgoingInv,
              ExecutedOnce, DoneMeansExecuted, DoneTxKey, OutgoingIdsDense
<1>. QED
  BY <1>1, <1>2, <1>3 DEF CcmEffect

\* What an app step does to ccm: a handler's effect, or one message executed.
LEMMA AppStep ==
    ASSUME AppInv, [AppNext]_appVars
    PROVE  /\ StoresInv'
           /\ \/ CcmEffect
              \/ /\ \E m \in Inbound : ExecuteMessage(m)
                 /\ UNCHANGED <<crossChainId, crossChainTxs, denomCreator>>
<1>1. CASE lockproxy!LockProxyHandler /\ UNCHANGED <<btcxStores, ftStores, unlockedBy>>
  BY <1>1, LockProxyStep DEF AppInv, StoresInv, BtcxStoresInv, FtStoresInv, btcxStores, ftStores
<1>2. CASE btcx!BtcxHandler /\ UNCHANGED <<lockProxyStores, ftStores, unlockedBy>>
  BY <1>2, BtcxStep
  DEF AppInv, StoresInv, ProxyStoresInv, FtStoresInv, lockProxyStores, ftStores
<1>3. CASE ft!FtHandler /\ UNCHANGED <<lockProxyStores, btcxStores, unlockedBy>>
  BY <1>3, FtStep
  DEF AppInv, StoresInv, ProxyStoresInv, BtcxStoresInv, lockProxyStores, btcxStores
<1>4. CASE \E m \in Inbound : ReceiveUnlock(m)
  BY <1>4 DEF AppInv, StoresInv, ProxyStoresInv, BtcxStoresInv, FtStoresInv, ReceiveUnlock,
     lockProxyStores, btcxStores, ftStores
<1>5. CASE UNCHANGED <<lockProxyStores, btcxStores, ftStores, ccmVars>>
  BY <1>5 DEF AppInv, StoresInv, ProxyStoresInv, BtcxStoresInv, FtStoresInv, CcmEffect,
     lockProxyStores, btcxStores, ftStores
<1>. QED
  BY <1>1, <1>2, <1>3, <1>4, <1>5 DEF AppNext, appVars

\* The app starts with empty stores and the coins of the genesis file.
LEMMA AppInitInvariant ==
    ASSUME AppInit
    PROVE  /\ BankInit
           /\ executed = <<>> /\ unlockedBy = <<>> /\ crossChainTxs = {}
           /\ denomCreator = [d \in Denom |-> NoAddr]
           /\ AppInv
<1>1. CcmInit
  BY DEF AppInit, ft!FtInit, ft!CcmInit, CcmInit, ft!BankInit, BankInit
<1>2. /\ lockProxies = {} /\ proxyHash = <<>> /\ proxyAsset = <<>>
      /\ denomToCreator = <<>> /\ redeemScript = <<>> /\ btcxAsset = <<>>
      /\ independent = {} /\ ftAsset = <<>>
  BY DEF AppInit, lockproxy!LockProxyInit, btcx!BtcxInit, ft!FtInit
<1>3. StoresInv
  BY <1>2 DEF StoresInv, ProxyStoresInv, BtcxStoresInv, FtStoresInv
<1>. QED
  BY <1>1, <1>3, CcmInitInvariant DEF AppInit, CcmInit, AppInv

\* No step of the app changes the creator of a denom.
LEMMA CreatorsKept ==
    ASSUME AppInv, [AppNext]_appVars
    PROVE  CreatorsStay
<1>. SUFFICES ASSUME NEW d \in Denom, denomCreator[d] # NoAddr
              PROVE  denomCreator'[d] = denomCreator[d]
  BY DEF CreatorsStay
<1>1. CASE UNCHANGED denomCreator
  BY <1>1
<1>2. CASE \A e \in Denom : denomCreator'[e] # denomCreator[e] => ~ ExistDenom(e)
  BY <1>2 DEF ExistDenom
<1>. QED
  BY <1>1, <1>2, AppStep DEF CcmEffect, ccmVars

-----------------------------------------------------------------------------
(* Totals and bindings *)

SupplyType == supply \in [Denom -> Nat]

\* Only denoms with a creator are bound in btcx and ft.
BoundInv ==
    /\ \A k \in DOMAIN btcxAsset : k[1] \in Denom /\ denomCreator[k[1]] # NoAddr
    /\ \A k \in DOMAIN ftAsset : k[1] \in Denom /\ denomCreator[k[1]] # NoAddr

\* A total changes when the denom is created or when it has a creator.
SupplyEffect ==
    /\ SupplyType'
    /\ \A d \in Denom : supply'[d] # supply[d] => supply[d] = 0 \/ denomCreator[d] # NoAddr

TokenInv == AppInv /\ SupplyType /\ BoundInv

\* Creators that are set stay, so what was bound for them stays in order.
LEMMA BoundStay ==
    ASSUME TokenInv, CcmEffect \/ UNCHANGED denomCreator
    PROVE  \A d \in Denom : denomCreator[d] # NoAddr => denomCreator'[d] # NoAddr
BY DEF CcmEffect, ccmVars, ExistDenom

\* A new binding of a denom whose creator asks for it.
LEMMA BindKeepsBound ==
    ASSUME NEW store, NEW new, NEW d \in Denom, NEW c, NEW hash, new = Put(store, <<d, c>>, hash),
           denomCreator[d] # NoAddr,
           \A k \in DOMAIN store : k[1] \in Denom /\ denomCreator[k[1]] # NoAddr
    PROVE  \A k \in DOMAIN new : k[1] \in Denom /\ denomCreator[k[1]] # NoAddr
<1>1. DOMAIN new = DOMAIN store \cup {<<d, c>>}
  BY DEF Put
<1>. QED
  BY <1>1

\* Coins minted or burnt change the total of one denom.
LEMMA OneTotal ==
    ASSUME SupplyType, NEW e \in Denom, NEW n \in Nat,
           \/ supply' = [supply EXCEPT ![e] = @ + n]
           \/ supply[e] >= n /\ supply' = [supply EXCEPT ![e] = @ - n],
           supply[e] = 0 \/ denomCreator[e] # NoAddr
    PROVE  SupplyEffect
<1>1. supply[e] \in Nat
  BY DEF SupplyType
<1>2. PICK t \in Nat : supply' = [supply EXCEPT ![e] = t]
  <2>1. CASE supply' = [supply EXCEPT ![e] = @ + n]
    <3>1. supply[e] + n \in Nat
      BY <1>1
    <3>. QED
      BY <2>1, <3>1
  <2>2. CASE supply[e] >= n /\ supply' = [supply EXCEPT ![e] = @ - n]
    <3>1. supply[e] - n \in Nat
      BY <1>1, <2>2
    <3>. QED
      BY <2>2, <3>1
  <2>. QED
    BY <2>1, <2>2
<1>. QED
  BY <1>2 DEF SupplyType, SupplyEffect

\* A transaction of lockproxy's makes coins of a new denom, or moves some.
LEMMA LockProxyTotals ==
    ASSUME TokenInv, lockproxy!LockProxyHandler
    PROVE  SupplyEffect
<1>1. ASSUME NEW creator \in lockproxy!Signer, NEW proxy \in Account \cup {NoAddr}, NEW d \in Denom,
             NEW n \in Amounts,
             lockproxy!CreateCoinAndDelegateToProxy(creator, d, n, proxy)
      PROVE  SupplyEffect
  <2>1. /\ supply' = [supply EXCEPT ![d] = @ + n]
        /\ supply[d] = 0
    BY <1>1 DEF lockproxy!CreateCoinAndDelegateToProxy, lockproxy!MintCoins, lockproxy!ExistDenom
  <2>. QED
    BY <2>1, OneTotal, AppAssumption DEF TokenInv
<1>2. CASE UNCHANGED supply
  BY <1>2 DEF TokenInv, SupplyEffect, SupplyType
<1>. QED
  BY <1>1, <1>2 DEF lockproxy!LockProxyHandler, lockproxy!CreateLockProxy, lockproxy!BindProxyHash,
     lockproxy!BindAssetHash, lockproxy!Lock, lockproxy!SendCoins, lockproxy!bankVars

\* One of btcx's creates a denom without coins, or burns coins of a bound one.
LEMMA BtcxTotals ==
    ASSUME TokenInv, btcx!BtcxHandler
    PROVE  /\ SupplyEffect
           /\ \A k \in DOMAIN btcxAsset' : k[1] \in Denom /\ denomCreator[k[1]] # NoAddr
<1>. DEFINE Goal == /\ SupplyEffect
                    /\ \A k \in DOMAIN btcxAsset' : k[1] \in Denom /\ denomCreator[k[1]] # NoAddr
<1>1. ASSUME NEW creator \in btcx!Signer, NEW d \in Denom, NEW script \in Script,
             btcx!CreateDenom(creator, d, script)
      PROVE  Goal
  BY <1>1 DEF btcx!CreateDenom, btcx!bankVars, TokenInv, BoundInv, SupplyEffect, SupplyType
<1>2. ASSUME NEW creator \in btcx!Signer, NEW d \in Denom, NEW c \in RemoteChain,
             NEW hash \in Asset, btcx!BindAssetHash(creator, d, c, hash)
      PROVE  Goal
  <2>1. /\ btcxAsset' = Put(btcxAsset, <<d, c>>, hash)
        /\ denomCreator[d] # NoAddr
        /\ UNCHANGED supply
    BY <1>2, CcmAssumption DEF btcx!BindAssetHash, btcx!ValidCreator, btcx!Put, Put, btcx!bankVars,
       btcx!Signer
  <2>. QED
    BY <2>1, BindKeepsBound DEF TokenInv, BoundInv, SupplyEffect, SupplyType
<1>3. ASSUME NEW from \in btcx!Signer, NEW d \in Denom, NEW c \in RemoteChain,
             NEW to \in btcx!Holder, NEW n \in Amounts, btcx!Lock(from, d, c, to, n)
      PROVE  Goal
  <2>1. /\ <<d, c>> \in DOMAIN btcxAsset
        /\ supply[d] >= n
        /\ supply' = [supply EXCEPT ![d] = @ - n]
        /\ UNCHANGED btcxAsset
    BY <1>3 DEF btcx!Lock, btcx!BurnCoins
  <2>2. denomCreator[d] # NoAddr
    BY <2>1 DEF TokenInv, BoundInv
  <2>. QED
    BY <2>1, <2>2, OneTotal, AppAssumption DEF TokenInv, BoundInv
<1>. QED
  BY <1>1, <1>2, <1>3 DEF btcx!BtcxHandler

\* One of ft's creates denoms, with or without coins, or burns likewise.
LEMMA FtTotals ==
    ASSUME TokenInv, ft!FtHandler
    PROVE  /\ SupplyEffect
           /\ \A k \in DOMAIN ftAsset' : k[1] \in Denom /\ denomCreator[k[1]] # NoAddr
<1>. DEFINE Goal == /\ SupplyEffect
                    /\ \A k \in DOMAIN ftAsset' : k[1] \in Denom /\ denomCreator[k[1]] # NoAddr
<1>1. ASSUME NEW creator \in ft!Signer, NEW coins \in [Denom -> Amounts \cup {0}],
             ft!CreateCoins(creator, coins)
      PROVE  Goal
  <2>1. \A d \in Denom : coins[d] \in Nat
    <3>1. Amounts \cup {0} \subseteq Nat
      BY AppAssumption
    <3>. QED
      BY <3>1
  <2>2. /\ \A d \in Denom : coins[d] > 0 => supply[d] = 0
        /\ supply' = [d \in Denom |-> supply[d] + coins[d]]
        /\ UNCHANGED ftAsset
    BY <1>1 DEF ft!CreateCoins, ft!ExistDenom, ft!MintAll
  <2>3. SupplyEffect
    BY <2>1, <2>2 DEF TokenInv, SupplyType, SupplyEffect
  <2>. QED
    BY <2>2, <2>3 DEF TokenInv, BoundInv
<1>2. ASSUME NEW creator \in ft!Signer, NEW d \in Denom, ft!CreateDenom(creator, d)
      PROVE  Goal
  BY <1>2 DEF ft!CreateDenom, ft!bankVars, TokenInv, BoundInv, SupplyEffect, SupplyType
<1>3. ASSUME NEW creator \in ft!Signer, NEW d \in Denom, NEW c \in RemoteChain,
             NEW hash \in Asset, ft!BindAssetHash(creator, d, c, hash)
      PROVE  Goal
  <2>1. /\ ftAsset' = Put(ftAsset, <<d, c>>, hash)
        /\ denomCreator[d] # NoAddr
        /\ UNCHANGED supply
    BY <1>3, CcmAssumption DEF ft!BindAssetHash, ft!ValidCreator, ft!Put, Put, ft!bankVars, ft!Signer
  <2>. QED
    BY <2>1, BindKeepsBound DEF TokenInv, BoundInv, SupplyEffect, SupplyType
<1>4. ASSUME NEW from \in ft!Signer, NEW d \in Denom, NEW c \in RemoteChain,
             NEW to \in ft!Holder, NEW n \in Amounts, ft!Lock(from, d, c, to, n)
      PROVE  Goal
  <2>1. /\ <<d, c>> \in DOMAIN ftAsset
        /\ supply[d] >= n
        /\ supply' = [supply EXCEPT ![d] = @ - n]
        /\ UNCHANGED ftAsset
    BY <1>4 DEF ft!Lock, ft!BurnCoins
  <2>2. denomCreator[d] # NoAddr
    BY <2>1 DEF TokenInv, BoundInv
  <2>. QED
    BY <2>1, <2>2, OneTotal, AppAssumption DEF TokenInv, BoundInv
<1>. QED
  BY <1>1, <1>2, <1>3, <1>4 DEF ft!FtHandler

\* The bytes of a message to a denom make a natural number.
LEMMA BytesAreNat ==
    ASSUME NEW n \in 1..IntBsLen, NEW bs, \A i \in 1..n : bs[i] \in Nat
    PROVE  ValueOf(bs, n) \in Nat
<1>. DEFINE f == [i \in 1..n |-> bs[i] * Power[i - 1]]
<1>1. Power = Powers(ByteSize, IntBsLen)
  BY DEF Power, Powers
<1>2. \A i \in 1..n : i - 1 \in 0..IntBsLen
  BY FixedBytesAssumption
<1>3. \A i \in 1..n : Power[i - 1] \in Nat
  BY <1>1, <1>2, PowersAreNat, FixedBytesAssumption
<1>4. \A i \in 1..n : f[i] \in Nat
  <2>1. \A x, y \in Nat : x * y \in Nat
    OBVIOUS
  <2>. QED
    BY <1>3, <2>1
<1>5. DOMAIN f = 1..n /\ IsFiniteSet(1..n)
  BY FS_Interval, FixedBytesAssumption
<1>6. ValueOf(bs, n) = SumFunction(f)
  BY DEF ValueOf
<1>. HIDE DEF f
<1>. QED
  BY <1>4, <1>5, <1>6, SumNat

\* What btcx reads of a message to a denom.
LEMMA BtcxReadsMessage ==
    ASSUME NEW m \in Inbound, m.toContract \in Denom, Len(m.args.amount) >= Uint64Len
    PROVE  /\ BtcxReads(m).toContract = m.toContract
           /\ BtcxReads(m).fromChainId = m.fromChainId
           /\ BtcxReads(m).fromContract = m.fromContract
           /\ BtcxReads(m).args.toBtcAddress = m.args.toAddress
           /\ m.args.toAddress \in Holder
           /\ BtcxReads(m).args.amount \in Nat
<1>1. /\ {"fromChainId", "fromContract", "toContract", "args"} \subseteq DOMAIN m
      /\ m.args.toAddress \in Holder
      /\ m.args.amount \in Seq(0..ByteSize - 1)
  BY AppAssumption
<1>. DEFINE bs == m.args.amount
<1>2. /\ BtcxReads(m).args = [toBtcAddress |-> m.args.toAddress, amount |-> ValueOf(bs, Uint64Len)]
      /\ BtcxReads(m).toContract = m.toContract
      /\ BtcxReads(m).fromChainId = m.fromChainId
      /\ BtcxReads(m).fromContract = m.fromContract
  BY <1>1 DEF BtcxReads
<1>3. Uint64Len \in 1..IntBsLen /\ Uint64Len \in Nat
  BY AppAssumption, FixedBytesAssumption
<1>4. \A i \in 1..Uint64Len : bs[i] \in Nat
  <2>1. \A i \in 1..Uint64Len : i \in 1..Len(bs)
    BY <1>1, <1>3
  <2>2. \A i \in 1..Len(bs) : bs[i] \in 0..ByteSize - 1
    <3>1. bs \in Seq(0..ByteSize - 1)
      BY <1>1
    <3>. HIDE DEF bs
    <3>. QED
      BY <3>1, ElementOfSeq
  <2>. QED
    BY <2>1, <2>2, FixedBytesAssumption
<1>5. ValueOf(bs, Uint64Len) \in Nat
  BY <1>3, <1>4, BytesAreNat
<1>. QED
  BY <1>1, <1>2, <1>5

\* And what ft reads of one that it accepts.
LEMMA FtReadsMessage ==
    ASSUME NEW m \in Inbound, m.toContract \in Denom, ft!CanUnpad(m.args.amount)
    PROVE  m.args.toAddress \in Holder /\ ft!AmountReceived(m) \in Nat
<1>. DEFINE bs == m.args.amount
<1>1. ft!AmountReceived(m) = ValueOf(bs, IntBsLen)
  BY DEF ft!AmountReceived, ft!UnpadFixedBytes, ft!ValueOf, ft!Power, ValueOf, Power,
         ft!SumFunction, ft!SumFunctionOnSet, ft!FoldFunctionOnSet, ft!MapThenFoldSet,
         SumFunction, SumFunctionOnSet, FoldFunctionOnSet, MapThenFoldSet
<1>2. IntBsLen \in 1..IntBsLen /\ \A i \in 1..IntBsLen : bs[i] \in Nat
  BY FixedBytesAssumption DEF ft!CanUnpad, ft!PaddedBytes
<1>3. m.args.toAddress \in Holder
  BY AppAssumption
<1>. QED
  BY <1>1, <1>2, <1>3, BytesAreNat

\* A message that is unlocked mints a bound denom, or moves coins.
LEMMA UnlockTotals ==
    ASSUME TokenInv, NEW m \in Inbound, ReceiveUnlock(m)
    PROVE  SupplyEffect
<1>1. CASE lockproxy!Unlock(m)
  BY <1>1 DEF lockproxy!Unlock, lockproxy!SendCoins, TokenInv, SupplyEffect, SupplyType
<1>2. CASE BtcxUnlock(m)
  <2>1. /\ <<m.toContract, m.fromChainId>> \in DOMAIN btcxAsset
        /\ Len(m.args.amount) >= Uint64Len
        /\ supply' = [supply EXCEPT ![BtcxReads(m).toContract] = @ + BtcxReads(m).args.amount]
    BY <1>2 DEF BtcxUnlock, btcx!ContainToContractAddr, btcx!Unlock, btcx!MintCoins
  <2>2. m.toContract \in Denom /\ denomCreator[m.toContract] # NoAddr
    BY <2>1 DEF TokenInv, BoundInv
  <2>3. BtcxReads(m).toContract = m.toContract /\ BtcxReads(m).args.amount \in Nat
    BY <2>1, <2>2, BtcxReadsMessage
  <2>. QED
    BY <2>1, <2>2, <2>3, OneTotal DEF TokenInv
<1>3. CASE ft!Unlock(m)
  <2>1. /\ <<m.toContract, m.fromChainId>> \in DOMAIN ftAsset
        /\ ft!CanUnpad(m.args.amount)
        /\ supply' = [supply EXCEPT ![m.toContract] = @ + ft!AmountReceived(m)]
    BY <1>3 DEF ft!ContainToContractAddr, ft!Unlock, ft!MintCoins
  <2>2. m.toContract \in Denom /\ denomCreator[m.toContract] # NoAddr
    BY <2>1 DEF TokenInv, BoundInv
  <2>3. ft!AmountReceived(m) \in Nat
    BY <2>1, <2>2, FtReadsMessage
  <2>. QED
    BY <2>1, <2>2, <2>3, OneTotal DEF TokenInv
<1>. QED
  BY <1>1, <1>2, <1>3 DEF ReceiveUnlock, UnlockWith

\* What one step of the app does to totals and bindings.
LEMMA AppTotals ==
    ASSUME TokenInv, [AppNext]_appVars
    PROVE  SupplyEffect /\ BoundInv'
<1>1. StoresInv' /\ (CcmEffect \/ UNCHANGED denomCreator)
  BY AppStep DEF TokenInv
<1>2. \A d \in Denom : denomCreator[d] # NoAddr => denomCreator'[d] # NoAddr
  BY <1>1, BoundStay
<1>3. CASE lockproxy!LockProxyHandler /\ UNCHANGED <<btcxStores, ftStores, unlockedBy>>
  BY <1>2, <1>3, LockProxyTotals DEF TokenInv, BoundInv, btcxStores, ftStores
<1>4. CASE btcx!BtcxHandler /\ UNCHANGED <<lockProxyStores, ftStores, unlockedBy>>
  BY <1>2, <1>4, BtcxTotals DEF TokenInv, BoundInv, ftStores
<1>5. CASE ft!FtHandler /\ UNCHANGED <<lockProxyStores, btcxStores, unlockedBy>>
  BY <1>2, <1>5, FtTotals DEF TokenInv, BoundInv, btcxStores
<1>6. ASSUME NEW m \in Inbound, ReceiveUnlock(m) PROVE SupplyEffect /\ BoundInv'
  BY <1>2, <1>6, UnlockTotals DEF TokenInv, BoundInv, ReceiveUnlock, btcxStores, ftStores
<1>7. CASE UNCHANGED <<btcxStores, ftStores, supply>>
  BY <1>2, <1>7 DEF TokenInv, BoundInv, SupplyEffect, SupplyType, btcxStores, ftStores
<1>. QED
  BY <1>3, <1>4, <1>5, <1>6, <1>7 DEF AppNext, appVars, bankVars, MsgSend, SendCoins

-----------------------------------------------------------------------------
(* Why a total changes *)

\* Coins of denom d burnt with a message sent.
LEMMA BurntWithMessage ==
    ASSUME TokenInv, NEW d \in Denom, NEW n \in Nat, NEW r, r.fromContract = d,
           CreateCrossChainTx(r), supply' = [supply EXCEPT ![d] = @ - n]
    PROVE  Explained
<1>1. PICK tx \in crossChainTxs' \ crossChainTxs : tx.param = r
  BY CreateIsNew DEF TokenInv, AppInv, CcmInv
<1>2. \A e \in Denom : supply'[e] # supply[e] => e = d /\ supply'[e] < supply[e]
  BY DEF TokenInv, SupplyType
<1>. QED
  BY <1>1, <1>2 DEF Explained

\* Coins of denom d minted on a message of the asset bound in a store.
LEMMA MintedOnMessage ==
    ASSUME TokenInv, NEW m \in Inbound, executed' = Append(executed, m),
           NEW n, supply' = [supply EXCEPT ![m.toContract] = n],
           m.fromContract \in Bound(btcxAsset, <<m.toContract, m.fromChainId>>)
                              \cup Bound(ftAsset, <<m.toContract, m.fromChainId>>)
    PROVE  Explained
<1>1. \A e \in Denom : supply'[e] # supply[e] => e = m.toContract
  BY DEF TokenInv, SupplyType
<1>. QED
  BY <1>1 DEF Explained

LEMMA NothingToExplain ==
    ASSUME UNCHANGED supply
    PROVE  Explained
BY DEF Explained

\* lockproxy makes coins of a denom that it creates.
LEMMA LockProxyExplained ==
    ASSUME TokenInv, lockproxy!LockProxyHandler
    PROVE  Explained
<1>1. ASSUME NEW creator \in lockproxy!Signer, NEW proxy \in Account \cup {NoAddr}, NEW d \in Denom,
             NEW n \in Amounts,
             lockproxy!CreateCoinAndDelegateToProxy(creator, d, n, proxy)
      PROVE  Explained
  <2>1. /\ supply' = [supply EXCEPT ![d] = @ + n]
        /\ supply[d] = 0 /\ denomCreator[d] = NoAddr
        /\ denomCreator' = [denomCreator EXCEPT ![d] = creator]
    BY <1>1 DEF lockproxy!CreateCoinAndDelegateToProxy, lockproxy!MintCoins, lockproxy!ExistDenom,
       lockproxy!SetDenomCreator
  <2>2. denomCreator'[d] # NoAddr
    BY <2>1, CcmAssumption DEF TokenInv, AppInv, CcmInv, CcmTypeOK, lockproxy!Signer
  <2>3. \A e \in Denom : supply'[e] # supply[e] => e = d
    BY <2>1 DEF TokenInv, SupplyType
  <2>. QED
    BY <2>1, <2>2, <2>3 DEF Explained
<1>. QED
  BY <1>1, NothingToExplain DEF lockproxy!LockProxyHandler, lockproxy!CreateLockProxy,
     lockproxy!BindProxyHash, lockproxy!BindAssetHash, lockproxy!Lock, lockproxy!SendCoins,
     lockproxy!bankVars

\* btcx burns what it locks.
LEMMA BtcxExplained ==
    ASSUME TokenInv, btcx!BtcxHandler
    PROVE  Explained
<1>1. ASSUME NEW from \in btcx!Signer, NEW d \in Denom, NEW c \in RemoteChain,
             NEW to \in btcx!Holder, NEW n \in Amounts, btcx!Lock(from, d, c, to, n)
      PROVE  Explained
  <2>. DEFINE r == [fromContract |-> d, toChainId |-> c, toContract |-> btcxAsset[<<d, c>>],
                    method |-> "unlock", args |-> btcx!ToArgs(d, c, to, n)]
  <2>1. /\ CreateCrossChainTx(r)
        /\ supply' = [supply EXCEPT ![d] = @ - n]
    BY <1>1 DEF btcx!Lock, btcx!BurnCoins, btcx!CreateCrossChainTx, CreateCrossChainTx
  <2>2. r.fromContract = d /\ n \in Nat
    BY AppAssumption
  <2>. HIDE DEF r
  <2>. QED
    BY <2>1, <2>2, BurntWithMessage
<1>. QED
  BY <1>1, NothingToExplain DEF btcx!BtcxHandler, btcx!CreateDenom, btcx!BindAssetHash, btcx!bankVars

\* ft makes coins of denoms that it creates, and burns what it locks.
LEMMA FtExplained ==
    ASSUME TokenInv, ft!FtHandler
    PROVE  Explained
<1>1. ASSUME NEW creator \in ft!Signer, NEW coins \in [Denom -> Amounts \cup {0}],
             ft!CreateCoins(creator, coins)
      PROVE  Explained
  <2>. DEFINE created == {d \in Denom : coins[d] > 0}
  <2>1. /\ \A d \in created : supply[d] = 0 /\ denomCreator[d] = NoAddr
        /\ denomCreator' = [d \in Denom |-> IF d \in created THEN creator ELSE denomCreator[d]]
        /\ supply' = [d \in Denom |-> supply[d] + coins[d]]
    BY <1>1 DEF ft!CreateCoins, ft!ExistDenom, ft!MintAll
  <2>2. \A d \in Denom : supply[d] \in Nat /\ coins[d] \in Nat
    <3>1. Amounts \cup {0} \subseteq Nat
      BY AppAssumption
    <3>. QED
      BY <3>1 DEF TokenInv, SupplyType
  <2>3. \A d \in Denom : supply'[d] # supply[d] => d \in created
    BY <2>1, <2>2
  <2>. HIDE DEF created
  <2>4. creator # NoAddr
    BY CcmAssumption DEF ft!Signer
  <2>. QED
    BY <2>1, <2>3, <2>4 DEF Explained
<1>2. ASSUME NEW from \in ft!Signer, NEW d \in Denom, NEW c \in RemoteChain,
             NEW to \in ft!Holder, NEW n \in Amounts, ft!Lock(from, d, c, to, n)
      PROVE  Explained
  <2>. DEFINE r == [fromContract |-> d, toChainId |-> c, toContract |-> ftAsset[<<d, c>>],
                    method |-> "unlock",
                    args |-> [toAddress |-> to, amount |-> ft!AmountSent(n)]]
  <2>1. /\ CreateCrossChainTx(r)
        /\ supply' = [supply EXCEPT ![d] = @ - n]
    BY <1>2 DEF ft!Lock, ft!BurnCoins, ft!CreateCrossChainTx, CreateCrossChainTx
  <2>2. r.fromContract = d /\ n \in Nat
    BY AppAssumption
  <2>. HIDE DEF r
  <2>. QED
    BY <2>1, <2>2, BurntWithMessage
<1>. QED
  BY <1>1, <1>2, NothingToExplain DEF ft!FtHandler, ft!CreateDenom, ft!BindAssetHash, ft!bankVars

\* lockproxy pays a message from what it holds; btcx and ft mint for it.
LEMMA UnlockExplained ==
    ASSUME TokenInv, NEW m \in Inbound, ReceiveUnlock(m)
    PROVE  Explained
<1>. DEFINE k == <<m.toContract, m.fromChainId>>
<1>1. executed' = Append(executed, m)
  BY DEF ReceiveUnlock, ExecuteMessage
<1>2. CASE lockproxy!Unlock(m)
  BY <1>2, NothingToExplain DEF lockproxy!Unlock, lockproxy!SendCoins
<1>3. CASE BtcxUnlock(m)
  <2>1. k \in DOMAIN btcxAsset /\ Len(m.args.amount) >= Uint64Len
    BY <1>3 DEF BtcxUnlock, btcx!ContainToContractAddr
  <2>2. m.toContract \in Denom
    BY <2>1 DEF TokenInv, BoundInv
  <2>3. /\ BtcxReads(m).toContract = m.toContract
        /\ BtcxReads(m).fromChainId = m.fromChainId
        /\ BtcxReads(m).fromContract = m.fromContract
    BY <2>1, <2>2, BtcxReadsMessage
  <2>4. /\ btcxAsset[k] = m.fromContract
        /\ supply' = [supply EXCEPT ![m.toContract] = @ + BtcxReads(m).args.amount]
    BY <1>3, <2>3 DEF BtcxUnlock, btcx!Unlock, btcx!MintCoins
  <2>5. m.fromContract \in Bound(btcxAsset, k)
    BY <2>1, <2>4 DEF Bound
  <2>. QED
    BY <1>1, <2>4, <2>5, MintedOnMessage
<1>4. CASE ft!Unlock(m)
  <2>1. /\ k \in DOMAIN ftAsset
        /\ ftAsset[k] = m.fromContract
        /\ supply' = [supply EXCEPT ![m.toContract] = @ + ft!AmountReceived(m)]
    BY <1>4 DEF ft!ContainToContractAddr, ft!Unlock, ft!MintCoins
  <2>2. m.fromContract \in Bound(ftAsset, k)
    BY <2>1 DEF Bound
  <2>. QED
    BY <1>1, <2>1, <2>2, MintedOnMessage
<1>. QED
  BY <1>2, <1>3, <1>4 DEF ReceiveUnlock, UnlockWith

\* Each step of the app.
LEMMA AppExplained ==
    ASSUME TokenInv, [AppNext]_appVars
    PROVE  Explained
<1>1. CASE \E from \in Signer, to \in Account, d \in Denom, n \in Amounts : MsgSend(from, to, d, n)
  BY <1>1, NothingToExplain DEF MsgSend, SendCoins
<1>2. CASE UNCHANGED appVars
  BY <1>2, NothingToExplain DEF appVars, bankVars
<1>. QED
  BY <1>1, <1>2, LockProxyExplained, BtcxExplained, FtExplained, UnlockExplained DEF AppNext

-----------------------------------------------------------------------------
(* Totals that only btcx changes *)

\* A change of one total, of a denom that is bound in btcx or in ft.
LEMMA BoundTotal ==
    ASSUME TokenInv, NEW e \in Denom, NEW c, NEW n, supply' = [supply EXCEPT ![e] = n],
           <<e, c>> \in DOMAIN btcxAsset \cup DOMAIN ftAsset
    PROVE  FixedUnlessBound
<1>1. \A d \in Denom : supply'[d] # supply[d] => d = e
  BY DEF TokenInv, SupplyType
<1>2. denomCreator[e] # NoAddr /\ c \in RemoteChain
  BY DEF TokenInv, BoundInv, AppInv, StoresInv, BtcxStoresInv, FtStoresInv
<1>3. e \in independent \/ <<e, c>> \in DOMAIN btcxAsset
  BY DEF TokenInv, AppInv, StoresInv, FtStoresInv
<1>. QED
  BY <1>1, <1>2, <1>3 DEF FixedUnlessBound

LEMMA SameTotals ==
    ASSUME UNCHANGED supply
    PROVE  FixedUnlessBound
BY DEF FixedUnlessBound

\* Coins are created for denoms that have none.
LEMMA CreationFixed ==
    ASSUME NEW created, \A d \in Denom \cap created : supply[d] = 0,
           \A d \in Denom : supply'[d] # supply[d] => d \in created
    PROVE  FixedUnlessBound
BY DEF FixedUnlessBound

LEMMA HandlersFixed ==
    ASSUME TokenInv, lockproxy!LockProxyHandler \/ btcx!BtcxHandler \/ ft!FtHandler
    PROVE  FixedUnlessBound
<1>1. ASSUME NEW creator \in lockproxy!Signer, NEW proxy \in Account \cup {NoAddr}, NEW d \in Denom,
             NEW n \in Amounts,
             lockproxy!CreateCoinAndDelegateToProxy(creator, d, n, proxy)
      PROVE  FixedUnlessBound
  <2>1. supply' = [supply EXCEPT ![d] = @ + n] /\ supply[d] = 0
    BY <1>1 DEF lockproxy!CreateCoinAndDelegateToProxy, lockproxy!MintCoins, lockproxy!ExistDenom
  <2>2. \A e \in Denom : supply'[e] # supply[e] => e \in {d}
    BY <2>1 DEF TokenInv, SupplyType
  <2>. QED
    BY <2>1, <2>2, CreationFixed
<1>2. ASSUME NEW from \in btcx!Signer, NEW d \in Denom, NEW c \in RemoteChain,
             NEW to \in btcx!Holder, NEW n \in Amounts, btcx!Lock(from, d, c, to, n)
      PROVE  FixedUnlessBound
  BY <1>2, BoundTotal DEF btcx!Lock, btcx!BurnCoins
<1>3. ASSUME NEW creator \in ft!Signer, NEW coins \in [Denom -> Amounts \cup {0}],
             ft!CreateCoins(creator, coins)
      PROVE  FixedUnlessBound
  <2>. DEFINE created == {d \in Denom : coins[d] > 0}
  <2>1. /\ \A d \in created : supply[d] = 0
        /\ supply' = [d \in Denom |-> supply[d] + coins[d]]
    BY <1>3 DEF ft!CreateCoins, ft!ExistDenom, ft!MintAll
  <2>2. \A d \in Denom : supply[d] \in Nat /\ coins[d] \in Nat
    <3>1. Amounts \cup {0} \subseteq Nat
      BY AppAssumption
    <3>. QED
      BY <3>1 DEF TokenInv, SupplyType
  <2>3. \A d \in Denom : supply'[d] # supply[d] => d \in created
    BY <2>1, <2>2
  <2>. HIDE DEF created
  <2>. QED
    BY <2>1, <2>3, CreationFixed
<1>4. ASSUME NEW from \in ft!Signer, NEW d \in Denom, NEW c \in RemoteChain,
             NEW to \in ft!Holder, NEW n \in Amounts, ft!Lock(from, d, c, to, n)
      PROVE  FixedUnlessBound
  BY <1>4, BoundTotal DEF ft!Lock, ft!BurnCoins
<1>5. CASE lockproxy!LockProxyHandler
  BY <1>1, <1>5, SameTotals DEF lockproxy!LockProxyHandler, lockproxy!CreateLockProxy,
     lockproxy!BindProxyHash, lockproxy!BindAssetHash, lockproxy!Lock, lockproxy!SendCoins,
     lockproxy!bankVars
<1>6. CASE btcx!BtcxHandler
  BY <1>2, <1>6, SameTotals DEF btcx!BtcxHandler, btcx!CreateDenom, btcx!BindAssetHash, btcx!bankVars
<1>7. CASE ft!FtHandler
  BY <1>3, <1>4, <1>7, SameTotals DEF ft!FtHandler, ft!CreateDenom, ft!BindAssetHash, ft!bankVars
<1>. QED
  BY <1>5, <1>6, <1>7

\* A message mints a denom bound for its chain.
LEMMA UnlockFixed ==
    ASSUME TokenInv, NEW m \in Inbound, ReceiveUnlock(m)
    PROVE  FixedUnlessBound
<1>1. CASE lockproxy!Unlock(m)
  BY <1>1, SameTotals DEF lockproxy!Unlock, lockproxy!SendCoins
<1>2. CASE BtcxUnlock(m)
  <2>1. /\ <<m.toContract, m.fromChainId>> \in DOMAIN btcxAsset
        /\ Len(m.args.amount) >= Uint64Len
        /\ supply' = [supply EXCEPT ![BtcxReads(m).toContract] = @ + BtcxReads(m).args.amount]
    BY <1>2 DEF BtcxUnlock, btcx!ContainToContractAddr, btcx!Unlock, btcx!MintCoins
  <2>2. m.toContract \in Denom
    BY <2>1 DEF TokenInv, BoundInv
  <2>3. BtcxReads(m).toContract = m.toContract
    BY <2>1, <2>2, BtcxReadsMessage
  <2>. QED
    BY <2>1, <2>2, <2>3, BoundTotal
<1>3. CASE ft!Unlock(m)
  <2>1. /\ <<m.toContract, m.fromChainId>> \in DOMAIN ftAsset
        /\ supply' = [supply EXCEPT ![m.toContract] = @ + ft!AmountReceived(m)]
    BY <1>3 DEF ft!ContainToContractAddr, ft!Unlock, ft!MintCoins
  <2>2. m.toContract \in Denom
    BY <2>1 DEF TokenInv, BoundInv
  <2>. QED
    BY <2>1, <2>2, BoundTotal
<1>. QED
  BY <1>1, <1>2, <1>3 DEF ReceiveUnlock, UnlockWith

\* Each step of the app.
LEMMA AppFixed ==
    ASSUME TokenInv, [AppNext]_appVars
    PROVE  FixedUnlessBound
<1>1. CASE \E from \in Signer, to \in Account, d \in Denom, n \in Amounts : MsgSend(from, to, d, n)
  BY <1>1, SameTotals DEF MsgSend, SendCoins
<1>2. CASE UNCHANGED appVars
  BY <1>2, SameTotals DEF appVars, bankVars
<1>. QED
  BY <1>1, <1>2, HandlersFixed, UnlockFixed DEF AppNext

-----------------------------------------------------------------------------
(* Coins and the messages that account for them *)

\* The bank that the three modules share is ccm's.
LEMMA SameBank ==
    /\ \A f, t, d, n : lockproxy!SendCoins(f, t, d, n) <=> SendCoins(f, t, d, n)
    /\ \A t, d, n : /\ lockproxy!MintCoins(t, d, n) <=> MintCoins(t, d, n)
                    /\ btcx!MintCoins(t, d, n) <=> MintCoins(t, d, n)
                    /\ ft!MintCoins(t, d, n) <=> MintCoins(t, d, n)
    /\ \A f, d, n : /\ btcx!BurnCoins(f, d, n) <=> BurnCoins(f, d, n)
                    /\ ft!BurnCoins(f, d, n) <=> BurnCoins(f, d, n)
    /\ \A t, coins : ft!MintAll(t, coins) <=> MintAll(t, coins)
<1>1. \A f, t, d, n : lockproxy!SendCoins(f, t, d, n) <=> SendCoins(f, t, d, n)
  BY DEF lockproxy!SendCoins, lockproxy!Credited, lockproxy!Debited, SendCoins, Credited, Debited
<1>2. \A t, d, n : /\ lockproxy!MintCoins(t, d, n) <=> MintCoins(t, d, n)
                   /\ btcx!MintCoins(t, d, n) <=> MintCoins(t, d, n)
                   /\ ft!MintCoins(t, d, n) <=> MintCoins(t, d, n)
  BY DEF lockproxy!MintCoins, lockproxy!Credited, btcx!MintCoins, btcx!Credited,
         ft!MintCoins, ft!Credited, MintCoins, Credited
<1>3. \A f, d, n : /\ btcx!BurnCoins(f, d, n) <=> BurnCoins(f, d, n)
                   /\ ft!BurnCoins(f, d, n) <=> BurnCoins(f, d, n)
  BY DEF btcx!BurnCoins, btcx!Debited, ft!BurnCoins, ft!Debited, BurnCoins, Debited
<1>4. \A t, coins : ft!MintAll(t, coins) <=> MintAll(t, coins)
  BY DEF ft!MintAll, MintAll
<1>. QED
  BY <1>1, <1>2, <1>3, <1>4

\* lockproxy recorded the denom of every message that is a proxy's.
LocksRecorded == \A tx \in crossChainTxs : tx.param.fromContract \in Account =>
    tx.crossChainId \in DOMAIN lockedDenom /\ tx.param.args.amount \in Nat

\* Every message executed was unlocked by one keeper.
UnlocksRecorded ==
    /\ unlockedBy \in Seq({"lockproxy", "btcx", "ft"})
    /\ Len(unlockedBy) = Len(executed)
    /\ \A i \in DOMAIN executed : unlockedBy[i] = "lockproxy" => executed[i].args.amount \in Nat

LedgerInv == BankTypeOK /\ CoinsConserved /\ LocksRecorded /\ UnlocksRecorded

\* One step never takes more from what covers lockproxy's messages than it adds
\* to what was released.
EscrowKept == \A d \in Denom :
    balance'["lockproxy"][d] + Released(d)' + Sent(d)
        >= balance["lockproxy"][d] + Released(d) + Sent(d)'

\* Both sums are of finitely many natural numbers.
LEMMA SentIsNat ==
    ASSUME OutgoingInv, LocksRecorded, NEW d
    PROVE  Sent(d) \in Nat
<1>. DEFINE A == {t \in crossChainTxs : /\ t.param.fromContract \in Account
                                        /\ lockedDenom[t.crossChainId] = d}
            f == [tx \in A |-> tx.param.args.amount]
<1>1. DOMAIN f = A /\ IsFiniteSet(A) /\ \A tx \in A : f[tx] \in Nat
  BY MessagesFinite, FS_Subset DEF LocksRecorded
<1>2. Sent(d) = SumFunction(f)
  BY DEF Sent
<1>. HIDE DEF f
<1>. QED
  BY <1>1, <1>2, SumNat

LEMMA ReleasedIsNat ==
    ASSUME IncomingInv, UnlocksRecorded, NEW d
    PROVE  Released(d) \in Nat
<1>. DEFINE A == {j \in DOMAIN executed : /\ unlockedBy[j] = "lockproxy"
                                          /\ executed[j].args.toAssetHash = d}
            f == [i \in A |-> executed[i].args.amount]
<1>1. IsFiniteSet(DOMAIN executed)
  BY FS_Interval DEF IncomingInv
<1>2. DOMAIN f = A /\ IsFiniteSet(A) /\ \A i \in A : f[i] \in Nat
  BY <1>1, FS_Subset DEF UnlocksRecorded
<1>3. Released(d) = SumFunction(f)
  BY DEF Released
<1>. HIDE DEF f, A
<1>. QED
  BY <1>2, <1>3, SumNat

\* What the terms of the inequality are.
LEMMA LedgerTerms ==
    ASSUME AppInv, LedgerInv, NEW d \in Denom
    PROVE  /\ "lockproxy" \in Holder /\ balance["lockproxy"][d] \in Nat
           /\ Sent(d) \in Nat /\ Released(d) \in Nat
<1>1. "lockproxy" \in Holder
  BY AppAssumption DEF Holder
<1>. QED
  BY <1>1, SentIsNat, ReleasedIsNat DEF AppInv, CcmInv, LedgerInv, BankTypeOK

\* Without messages there is nothing to account for.
LEMMA NothingAccounted ==
    ASSUME crossChainTxs = {}, executed = <<>>
    PROVE  \A d : Sent(d) = 0 /\ Released(d) = 0
<1>. SUFFICES ASSUME NEW d PROVE Sent(d) = 0 /\ Released(d) = 0
  OBVIOUS
<1>. DEFINE A == {t \in crossChainTxs : /\ t.param.fromContract \in Account
                                        /\ lockedDenom[t.crossChainId] = d}
            B == {j \in DOMAIN executed : /\ unlockedBy[j] = "lockproxy"
                                          /\ executed[j].args.toAssetHash = d}
            f == [tx \in A |-> tx.param.args.amount]
            g == [i \in B |-> executed[i].args.amount]
<1>1. DOMAIN f = {} /\ DOMAIN g = {}
  OBVIOUS
<1>2. Sent(d) = SumFunction(f) /\ Released(d) = SumFunction(g)
  BY DEF Sent, Released
<1>. HIDE DEF f, g
<1>. QED
  BY <1>1, <1>2, SumEmpty

\* A proxy's message counts for the denom that is recorded with it.
LEMMA SentAfterLock ==
    ASSUME OutgoingInv, LocksRecorded, NEW e, NEW r, r.fromContract \in Account,
           r.args.amount \in Nat, CreateCrossChainTx(r),
           lockedDenom' = Put(lockedDenom, IdBytes[crossChainId], e), NEW d
    PROVE  /\ LocksRecorded'
           /\ Sent(d)' = Sent(d) + (IF e = d THEN r.args.amount ELSE 0)
<1>. DEFINE new == NewTx(r)
            A == {t \in crossChainTxs : /\ t.param.fromContract \in Account
                                        /\ lockedDenom[t.crossChainId] = d}
            B == {t \in crossChainTxs' : /\ t.param.fromContract \in Account
                                         /\ lockedDenom'[t.crossChainId] = d}
            f == [tx \in A |-> tx.param.args.amount]
            g == [tx \in B |-> tx.param.args.amount]
<1>1. /\ crossChainTxs' = crossChainTxs \cup {new} /\ new \notin crossChainTxs
      /\ new.crossChainId = IdBytes[crossChainId] /\ new.param = r
      /\ \A tx \in crossChainTxs : tx.crossChainId # IdBytes[crossChainId]
  BY CreateStores DEF NewTx
<1>. HIDE DEF new
<1>2. /\ lockedDenom'[new.crossChainId] = e
      /\ \A tx \in crossChainTxs : tx.param.fromContract \in Account =>
             lockedDenom'[tx.crossChainId] = lockedDenom[tx.crossChainId]
      /\ LocksRecorded'
  BY <1>1 DEF Put, LocksRecorded
<1>3. IsFiniteSet(A) /\ new \notin A /\ \A tx \in A : tx.param.args.amount \in Nat
  BY <1>1, MessagesFinite, FS_Subset DEF LocksRecorded
<1>4. B = IF e = d THEN A \cup {new} ELSE A
  BY <1>1, <1>2
<1>5. Sent(d) = SumFunction(f) /\ Sent(d)' = SumFunction(g)
  BY DEF Sent
<1>. HIDE DEF A, B
<1>6. Sent(d) \in Int
  BY SentIsNat
<1>7. CASE e = d
  <2>1. /\ DOMAIN f = A /\ IsFiniteSet(A) /\ DOMAIN g = A \cup {new} /\ g[new] = r.args.amount
        /\ new \notin A /\ g[new] \in Int
        /\ \A tx \in A : f[tx] \in Int /\ g[tx] = f[tx]
    BY <1>1, <1>3, <1>4, <1>7
  <2>. HIDE DEF f, g
  <2>2. SumFunction(g) = SumFunction(f) + g[new]
    BY <2>1, SumExtends
  <2>. QED
    BY <1>2, <1>5, <1>7, <2>1, <2>2
<1>8. CASE e # d
  <2>1. f = g
    BY <1>4, <1>8
  <2>. QED
    BY <1>2, <1>5, <1>6, <1>8, <2>1
<1>. QED
  BY <1>7, <1>8

\* A message of another module's counts for none.
LEMMA SentAfterBurn ==
    ASSUME OutgoingInv, LocksRecorded, NEW r, r.fromContract \notin Account,
           CreateCrossChainTx(r), UNCHANGED lockedDenom
    PROVE  LocksRecorded' /\ \A d : Sent(d)' = Sent(d)
<1>1. crossChainTxs' = crossChainTxs \cup {NewTx(r)} /\ NewTx(r).param = r
  BY CreateStores
<1>2. \A d : {t \in crossChainTxs' : /\ t.param.fromContract \in Account
                                     /\ lockedDenom'[t.crossChainId] = d}
               = {t \in crossChainTxs : /\ t.param.fromContract \in Account
                                        /\ lockedDenom[t.crossChainId] = d}
  BY <1>1
<1>3. LocksRecorded'
  BY <1>1 DEF LocksRecorded
<1>. QED
  BY <1>2, <1>3 DEF Sent

\* The amount of a message counts for the asset it names if lockproxy pays it.
LEMMA ReleasedAfterUnlock ==
    ASSUME IncomingInv, UnlocksRecorded, NEW m \in Inbound, ExecuteMessage(m),
           NEW keeper \in {"lockproxy", "btcx", "ft"}, unlockedBy' = Append(unlockedBy, keeper),
           keeper = "lockproxy" => m.args.amount \in Nat, NEW d
    PROVE  /\ UnlocksRecorded'
           /\ Released(d)' = Released(d)
                  + (IF keeper = "lockproxy" /\ m.args.toAssetHash = d THEN m.args.amount ELSE 0)
<1>. DEFINE n == Len(executed)
            Counts(by, w) == by = "lockproxy" /\ w.args.toAssetHash = d
            A == {j \in DOMAIN executed : Counts(unlockedBy[j], executed[j])}
            B == {j \in DOMAIN executed' : Counts(unlockedBy'[j], executed'[j])}
            f == [i \in A |-> executed[i].args.amount]
            g == [i \in B |-> executed'[i].args.amount]
<1>1. /\ n \in Nat /\ n + 1 \notin 1..n
      /\ DOMAIN executed = 1..n /\ IsFiniteSet(DOMAIN executed)
      /\ DOMAIN executed' = 1..n \cup {n + 1}
      /\ executed'[n + 1] = m
      /\ \A i \in 1..n : executed'[i] = executed[i]
  BY ExecuteAppends
<1>2. /\ unlockedBy' \in Seq({"lockproxy", "btcx", "ft"})
      /\ Len(unlockedBy') = n + 1
      /\ unlockedBy'[n + 1] = keeper
      /\ \A i \in 1..n : unlockedBy'[i] = unlockedBy[i]
  BY <1>1 DEF UnlocksRecorded
<1>3. Len(executed') = n + 1
  BY DEF ExecuteMessage, IncomingInv
<1>4. \A i \in 1..n : unlockedBy[i] = "lockproxy" => executed[i].args.amount \in Nat
  BY <1>1 DEF UnlocksRecorded
<1>. HIDE DEF n
<1>5. UnlocksRecorded'
  BY <1>1, <1>2, <1>3, <1>4 DEF UnlocksRecorded
<1>6. Released(d) = SumFunction(f) /\ Released(d)' = SumFunction(g)
  BY DEF Released
<1>7. IsFiniteSet(A) /\ A \subseteq 1..n /\ \A i \in A : executed[i].args.amount \in Nat
  BY <1>1, <1>4, FS_Subset
<1>8. B = IF Counts(keeper, m) THEN A \cup {n + 1} ELSE A
  BY <1>1, <1>2
<1>9. Counts(keeper, m) => m.args.amount \in Nat
  OBVIOUS
<1>. HIDE DEF A, B, Counts
<1>10. Released(d) \in Int
  BY ReleasedIsNat
<1>11. CASE Counts(keeper, m)
  <2>. DEFINE last == n + 1
  <2>1. /\ DOMAIN f = A /\ IsFiniteSet(A) /\ DOMAIN g = A \cup {last} /\ last \notin A
        /\ g[last] = m.args.amount /\ g[last] \in Int
        /\ \A i \in A : f[i] \in Int /\ g[i] = f[i]
    BY <1>1, <1>7, <1>8, <1>9, <1>11
  <2>. HIDE DEF f, g, last
  <2>2. SumFunction(g) = SumFunction(f) + g[last]
    BY <2>1, SumExtends
  <2>. QED
    BY <1>5, <1>6, <1>11, <2>1, <2>2 DEF Counts
<1>12. CASE ~ Counts(keeper, m)
  <2>1. f = g
    BY <1>1, <1>7, <1>8, <1>12
  <2>. QED
    BY <1>5, <1>6, <1>10, <1>12, <2>1 DEF Counts
<1>. QED
  BY <1>11, <1>12

\* Coins minted or burnt change no balance but the holder's.
LEMMA MintRaises ==
    ASSUME BankTypeOK, NEW to \in Holder, NEW e \in Denom, NEW n \in Nat, MintCoins(to, e, n),
           NEW h \in Holder, NEW d \in Denom
    PROVE  balance'[h][d] >= balance[h][d]
<1>1. balance' = [balance EXCEPT ![to] = [balance[to] EXCEPT ![e] = balance[to][e] + n]]
  BY DEF MintCoins, Credited, BankTypeOK
<1>2. balance'[h][d] = IF h = to /\ d = e THEN balance[h][d] + n ELSE balance[h][d]
  BY <1>1 DEF BankTypeOK
<1>. QED
  BY <1>2 DEF BankTypeOK

LEMMA BurnSpares ==
    ASSUME BankTypeOK, NEW from \in Holder, NEW e \in Denom, NEW n \in Nat, BurnCoins(from, e, n),
           NEW h \in Holder, h # from
    PROVE  balance'[h] = balance[h]
BY DEF BurnCoins, Debited, BankTypeOK

LEMMA MintAllRaises ==
    ASSUME BankTypeOK, NEW to \in Holder, NEW coins \in [Denom -> Nat], MintAll(to, coins),
           NEW h \in Holder, NEW d \in Denom
    PROVE  balance'[h][d] >= balance[h][d]
<1>1. balance' = [balance EXCEPT ![to] = [x \in Denom |-> balance[to][x] + coins[x]]]
  BY DEF MintAll, BankTypeOK
<1>2. balance'[h][d] = IF h = to THEN balance[h][d] + coins[d] ELSE balance[h][d]
  BY <1>1 DEF BankTypeOK
<1>. QED
  BY <1>2 DEF BankTypeOK

\* What neither locks nor unlocks in lockproxy and takes nothing out of it.
LEMMA QuietLedger ==
    ASSUME AppInv, LedgerInv, BankTypeOK', CoinsConserved', LocksRecorded', UnlocksRecorded',
           \A d \in Denom : /\ Sent(d)' = Sent(d) /\ Released(d)' = Released(d)
                            /\ balance'["lockproxy"][d] \in Nat
                            /\ balance'["lockproxy"][d] >= balance["lockproxy"][d]
    PROVE  LedgerInv' /\ EscrowKept
<1>1. LedgerInv'
  BY DEF LedgerInv
<1>2. ASSUME NEW d \in Denom
      PROVE  balance'["lockproxy"][d] + Released(d)' + Sent(d)
                 >= balance["lockproxy"][d] + Released(d) + Sent(d)'
  <2>1. /\ Sent(d)' = Sent(d) /\ Released(d)' = Released(d)
        /\ balance'["lockproxy"][d] \in Nat
        /\ balance'["lockproxy"][d] >= balance["lockproxy"][d]
    OBVIOUS
  <2>. QED
    BY <2>1, LedgerTerms
<1>. QED
  BY <1>1, <1>2 DEF EscrowKept

\* The histories of a step that adds nothing to them.
LEMMA QuietHistories ==
    ASSUME LedgerInv, UNCHANGED <<crossChainTxs, lockedDenom, executed, unlockedBy>>
    PROVE  /\ LocksRecorded' /\ UnlocksRecorded'
           /\ \A d : Sent(d)' = Sent(d) /\ Released(d)' = Released(d)
BY DEF LedgerInv, LocksRecorded, UnlocksRecorded, Sent, Released

LEMMA FrameLedger ==
    ASSUME AppInv, LedgerInv,
           UNCHANGED <<crossChainTxs, lockedDenom, executed, unlockedBy, bankVars>>
    PROVE  LedgerInv' /\ EscrowKept
<1>1. BankTypeOK' /\ CoinsConserved'
  BY DEF LedgerInv, BankTypeOK, CoinsConserved, TotalOf, bankVars
<1>2. \A d \in Denom : /\ balance'["lockproxy"][d] \in Nat
                       /\ balance'["lockproxy"][d] >= balance["lockproxy"][d]
  BY LedgerTerms DEF bankVars
<1>. QED
  BY <1>1, <1>2, QuietHistories, QuietLedger

\* lockproxy is paid for a denom it creates, and by what it locks.
LEMMA LockProxyLedger ==
    ASSUME TokenInv, LedgerInv, lockproxy!LockProxyHandler, UNCHANGED unlockedBy
    PROVE  LedgerInv' /\ EscrowKept
<1>1. /\ AppInv /\ OutgoingInv /\ BankTypeOK /\ CoinsConserved /\ LocksRecorded
      /\ "lockproxy" \in Holder /\ Amounts \subseteq Nat /\ lockproxy!Signer \subseteq Account
      /\ Account \subseteq Holder /\ "lockproxy" \notin Account
  BY AppAssumption, BankAssumption
  DEF TokenInv, AppInv, CcmInv, LedgerInv, Holder, lockproxy!Signer
<1>2. CASE UNCHANGED <<lockedDenom, ccmVars, bankVars>>
  BY <1>1, <1>2, FrameLedger DEF ccmVars
<1>3. ASSUME NEW creator, NEW proxy, NEW e \in Denom, NEW n \in Amounts,
             lockproxy!CreateCoinAndDelegateToProxy(creator, e, n, proxy)
      PROVE  LedgerInv' /\ EscrowKept
  <2>1. /\ MintCoins("lockproxy", e, n)
        /\ UNCHANGED <<crossChainTxs, lockedDenom, executed>>
    BY <1>3, SameBank
    DEF lockproxy!CreateCoinAndDelegateToProxy, lockproxy!LockProxyModule
  <2>2. n \in Nat
    BY <1>1
  <2>3. BankTypeOK' /\ CoinsConserved'
    BY <1>1, <2>1, <2>2, MintKeepsBank, MintConserves
  <2>4. \A d \in Denom : /\ balance'["lockproxy"][d] \in Nat
                         /\ balance'["lockproxy"][d] >= balance["lockproxy"][d]
    BY <1>1, <2>1, <2>2, <2>3, MintRaises DEF BankTypeOK
  <2>. QED
    BY <1>1, <2>1, <2>3, <2>4, QuietHistories, QuietLedger
<1>4. ASSUME NEW from \in Account, NEW proxy \in Account, NEW e \in Denom,
             NEW c, NEW to, NEW n \in Amounts, lockproxy!Lock(proxy, from, e, c, to, n)
      PROVE  LedgerInv' /\ EscrowKept
  <2>. DEFINE r == [fromContract |-> proxy, toChainId |-> c,
                    toContract |-> proxyHash[<<proxy, c>>], method |-> "unlock",
                    args |-> lockproxy!ToArgs(proxy, e, c, to, n)]
  <2>1. /\ SendCoins(from, "lockproxy", e, n)
        /\ CreateCrossChainTx(r)
        /\ lockedDenom' = Put(lockedDenom, IdBytes[crossChainId], e)
        /\ UNCHANGED executed
    BY <1>4, SameBank DEF lockproxy!Lock, lockproxy!LockProxyModule, lockproxy!Put, Put,
       lockproxy!CreateCrossChainTx, CreateCrossChainTx
  <2>2. r.args.amount = n /\ r.fromContract = proxy /\ n \in Nat /\ from \in Holder
    BY <1>1 DEF lockproxy!ToArgs
  <2>. HIDE DEF r
  <2>3. BankTypeOK' /\ CoinsConserved'
    BY <1>1, <2>1, <2>2, SendKeepsBank, SendConserves
  <2>4. \A d : LocksRecorded' /\ Sent(d)' = Sent(d) + (IF e = d THEN n ELSE 0)
    BY <1>1, <2>1, <2>2, SentAfterLock
  <2>5. UnlocksRecorded'
    BY <2>1 DEF LedgerInv, UnlocksRecorded
  <2>6. ASSUME NEW d \in Denom
        PROVE  balance'["lockproxy"][d] + Released(d)' + Sent(d)
                   >= balance["lockproxy"][d] + Released(d) + Sent(d)'
    <3>. DEFINE k == IF e = d THEN n ELSE 0
    <3>1. balance'["lockproxy"][d] = balance["lockproxy"][d] + k
      BY <1>1, <2>1, <2>2, SendBalance, LedgerTerms
    <3>2. Released(d)' = Released(d)
      BY <2>1 DEF Released
    <3>3. k \in Nat /\ Sent(d)' = Sent(d) + k
      BY <2>2, <2>4
    <3>. HIDE DEF k
    <3>. QED
      BY <1>1, <3>1, <3>2, <3>3, LedgerTerms
  <2>. QED
    BY <2>3, <2>4, <2>5, <2>6 DEF LedgerInv, EscrowKept
<1>. QED
  BY <1>1, <1>2, <1>3, <1>4
  DEF lockproxy!LockProxyHandler, lockproxy!CreateLockProxy, lockproxy!BindProxyHash,
      lockproxy!BindAssetHash, lockproxy!ccmVars, lockproxy!bankVars, ccmVars, bankVars

\* A user's coins burnt with a message to which no proxy's denom is recorded.
LEMMA BurnLedger ==
    ASSUME TokenInv, LedgerInv, NEW from \in Account, NEW e \in Denom, NEW n \in Nat,
           NEW r, r.fromContract = e, CreateCrossChainTx(r), BurnCoins(from, e, n),
           UNCHANGED <<lockedDenom, executed, unlockedBy>>
    PROVE  LedgerInv' /\ EscrowKept
<1>1. /\ AppInv /\ OutgoingInv /\ BankTypeOK /\ CoinsConserved /\ LocksRecorded
      /\ "lockproxy" \in Holder /\ from \in Holder /\ "lockproxy" # from
      /\ r.fromContract \notin Account
  BY AppAssumption, BankAssumption DEF TokenInv, AppInv, CcmInv, LedgerInv, Holder
<1>2. BankTypeOK' /\ CoinsConserved'
  BY <1>1, BurnKeepsBank, BurnConserves
<1>3. LocksRecorded' /\ \A d : Sent(d)' = Sent(d)
  BY <1>1, SentAfterBurn
<1>4. UnlocksRecorded' /\ \A d : Released(d)' = Released(d)
  BY DEF LedgerInv, UnlocksRecorded, Released
<1>5. balance'["lockproxy"] = balance["lockproxy"]
  BY <1>1, BurnSpares
<1>6. \A d \in Denom : /\ balance'["lockproxy"][d] \in Nat
                       /\ balance'["lockproxy"][d] >= balance["lockproxy"][d]
  BY <1>1, <1>5, LedgerTerms
<1>. QED
  BY <1>1, <1>2, <1>3, <1>4, <1>6, QuietLedger

LEMMA BtcxLedger ==
    ASSUME TokenInv, LedgerInv, btcx!BtcxHandler, UNCHANGED <<lockProxyStores, unlockedBy>>
    PROVE  LedgerInv' /\ EscrowKept
<1>1. AppInv /\ btcx!Signer \subseteq Account /\ Amounts \subseteq Nat /\ UNCHANGED lockedDenom
  BY AppAssumption DEF TokenInv, btcx!Signer, lockProxyStores
<1>2. CASE UNCHANGED <<crossChainTxs, executed, bankVars>>
  BY <1>1, <1>2, FrameLedger
<1>3. ASSUME NEW from \in btcx!Signer, NEW e \in Denom, NEW c \in RemoteChain,
             NEW to \in btcx!Holder, NEW n \in Amounts, btcx!Lock(from, e, c, to, n)
      PROVE  LedgerInv' /\ EscrowKept
  <2>. DEFINE r == [fromContract |-> e, toChainId |-> c, toContract |-> btcxAsset[<<e, c>>],
                    method |-> "unlock", args |-> btcx!ToArgs(e, c, to, n)]
  <2>1. CreateCrossChainTx(r) /\ BurnCoins(from, e, n) /\ UNCHANGED executed
    BY <1>3, SameBank DEF btcx!Lock, btcx!CreateCrossChainTx, CreateCrossChainTx
  <2>2. r.fromContract = e /\ from \in Account /\ n \in Nat
    BY <1>1
  <2>. HIDE DEF r
  <2>. QED
    BY <1>1, <2>1, <2>2, BurnLedger
<1>. QED
  BY <1>2, <1>3 DEF btcx!BtcxHandler, btcx!CreateDenom, btcx!BindAssetHash, btcx!ccmVars,
     btcx!bankVars, bankVars

LEMMA FtLedger ==
    ASSUME TokenInv, LedgerInv, ft!FtHandler, UNCHANGED <<lockProxyStores, unlockedBy>>
    PROVE  LedgerInv' /\ EscrowKept
<1>1. /\ AppInv /\ ft!Signer \subseteq Account /\ Amounts \subseteq Nat /\ UNCHANGED lockedDenom
      /\ BankTypeOK /\ CoinsConserved /\ Account \subseteq Holder /\ "lockproxy" \in Holder
  BY AppAssumption DEF TokenInv, ft!Signer, lockProxyStores, LedgerInv, Holder
<1>2. CASE UNCHANGED <<crossChainTxs, executed, bankVars>>
  BY <1>1, <1>2, FrameLedger
<1>3. ASSUME NEW creator \in ft!Signer, NEW coins \in [Denom -> Amounts \cup {0}],
             ft!CreateCoins(creator, coins)
      PROVE  LedgerInv' /\ EscrowKept
  <2>1. MintAll(creator, coins) /\ UNCHANGED <<crossChainTxs, executed>>
    BY <1>3, SameBank DEF ft!CreateCoins
  <2>2. creator \in Holder /\ coins \in [Denom -> Nat]
    <3>1. Amounts \cup {0} \subseteq Nat
      BY <1>1
    <3>. QED
      BY <1>1, <3>1
  <2>3. BankTypeOK' /\ CoinsConserved'
    BY <1>1, <2>1, <2>2, MintAllConserves
  <2>4. \A d \in Denom : /\ balance'["lockproxy"][d] \in Nat
                         /\ balance'["lockproxy"][d] >= balance["lockproxy"][d]
    BY <1>1, <2>1, <2>2, <2>3, MintAllRaises DEF BankTypeOK
  <2>. QED
    BY <1>1, <2>1, <2>3, <2>4, QuietHistories, QuietLedger
<1>4. ASSUME NEW from \in ft!Signer, NEW e \in Denom, NEW c \in RemoteChain,
             NEW to \in ft!Holder, NEW n \in Amounts, ft!Lock(from, e, c, to, n)
      PROVE  LedgerInv' /\ EscrowKept
  <2>. DEFINE r == [fromContract |-> e, toChainId |-> c, toContract |-> ftAsset[<<e, c>>],
                    method |-> "unlock",
                    args |-> [toAddress |-> to, amount |-> ft!AmountSent(n)]]
  <2>1. CreateCrossChainTx(r) /\ BurnCoins(from, e, n) /\ UNCHANGED executed
    BY <1>4, SameBank DEF ft!Lock, ft!CreateCrossChainTx, CreateCrossChainTx
  <2>2. r.fromContract = e /\ from \in Account /\ n \in Nat
    BY <1>1
  <2>. HIDE DEF r
  <2>. QED
    BY <1>1, <2>1, <2>2, BurnLedger
<1>. QED
  BY <1>2, <1>3, <1>4 DEF ft!FtHandler, ft!CreateDenom, ft!BindAssetHash, ft!ccmVars,
     ft!bankVars, bankVars

\* Coins minted for a message, lockproxy's account included.
LEMMA MintLedger ==
    ASSUME TokenInv, LedgerInv, NEW m \in Inbound, ReceiveUnlock(m),
           NEW keeper \in {"btcx", "ft"}, unlockedBy' = Append(unlockedBy, keeper),
           NEW to \in Holder, NEW e \in Denom, NEW n \in Nat, MintCoins(to, e, n)
    PROVE  LedgerInv' /\ EscrowKept
<1>1. /\ AppInv /\ IncomingInv /\ BankTypeOK /\ CoinsConserved /\ UnlocksRecorded /\ LocksRecorded
      /\ "lockproxy" \in Holder
      /\ ExecuteMessage(m) /\ UNCHANGED <<lockedDenom, crossChainTxs>>
  BY AppAssumption
  DEF TokenInv, AppInv, CcmInv, LedgerInv, Holder, ReceiveUnlock, lockProxyStores
<1>2. BankTypeOK' /\ CoinsConserved'
  BY <1>1, MintKeepsBank, MintConserves
<1>3. LocksRecorded' /\ \A d : Sent(d)' = Sent(d)
  BY <1>1 DEF LocksRecorded, Sent
<1>4. \A d : UnlocksRecorded' /\ Released(d)' = Released(d) + 0
  BY <1>1, ReleasedAfterUnlock
<1>5. \A d : UnlocksRecorded' /\ Released(d)' = Released(d)
  BY <1>1, <1>4, ReleasedIsNat
<1>6. \A d \in Denom : /\ balance'["lockproxy"][d] \in Nat
                       /\ balance'["lockproxy"][d] >= balance["lockproxy"][d]
  BY <1>1, <1>2, MintRaises DEF BankTypeOK
<1>. QED
  BY <1>1, <1>2, <1>3, <1>5, <1>6, QuietLedger

\* What lockproxy pays on a message is counted as released, unless the message
\* names its own account: then nothing leaves it.
LEMMA PayLedger ==
    ASSUME TokenInv, LedgerInv, NEW m \in Inbound, ReceiveUnlock(m), lockproxy!Unlock(m),
           unlockedBy' = Append(unlockedBy, "lockproxy")
    PROVE  LedgerInv' /\ EscrowKept
<1>. DEFINE e == m.args.toAssetHash
            to == m.args.toAddress
            n == m.args.amount
<1>1. /\ <<m.toContract, m.fromChainId>> \in DOMAIN proxyHash
      /\ <<m.toContract, e, m.fromChainId>> \in DOMAIN proxyAsset
      /\ SendCoins("lockproxy", to, e, n)
  BY SameBank DEF lockproxy!Unlock, lockproxy!ContainToContractAddr, lockproxy!LockProxyModule
<1>2. m.toContract \in Account /\ e \in Denom
  BY <1>1 DEF TokenInv, AppInv, StoresInv, ProxyStoresInv
<1>3. to \in Holder /\ n \in Nat
  BY <1>2, AppAssumption DEF lockproxy!Args, lockproxy!Holder, Holder
<1>. HIDE DEF e, to, n
<1>4. /\ AppInv /\ IncomingInv /\ BankTypeOK /\ CoinsConserved /\ UnlocksRecorded /\ LocksRecorded
      /\ "lockproxy" \in Holder
      /\ ExecuteMessage(m) /\ UNCHANGED <<lockedDenom, crossChainTxs>>
  BY AppAssumption
  DEF TokenInv, AppInv, CcmInv, LedgerInv, Holder, ReceiveUnlock, lockProxyStores
<1>5. BankTypeOK' /\ CoinsConserved'
  BY <1>1, <1>2, <1>3, <1>4, SendKeepsBank, SendConserves
<1>6. LocksRecorded' /\ \A d : Sent(d)' = Sent(d)
  BY <1>4 DEF LocksRecorded, Sent
<1>7. \A d : UnlocksRecorded' /\ Released(d)' = Released(d) + (IF e = d THEN n ELSE 0)
  BY <1>3, <1>4, ReleasedAfterUnlock DEF e, n
<1>8. ASSUME NEW d \in Denom
      PROVE  balance'["lockproxy"][d] + Released(d)' + Sent(d)
                 >= balance["lockproxy"][d] + Released(d) + Sent(d)'
  <2>. DEFINE k == IF e = d THEN n ELSE 0
              back == IF to = "lockproxy" THEN k ELSE 0
  <2>1. balance'["lockproxy"][d] = (balance["lockproxy"][d] - k) + back
    BY <1>1, <1>2, <1>3, <1>4, SendBalance
  <2>2. k \in Nat /\ back \in Nat /\ Released(d)' = Released(d) + k /\ Sent(d)' = Sent(d)
    BY <1>3, <1>6, <1>7
  <2>. HIDE DEF k, back
  <2>. QED
    BY <1>4, <2>1, <2>2, LedgerTerms
<1>. QED
  BY <1>5, <1>6, <1>7, <1>8 DEF LedgerInv, EscrowKept

LEMMA UnlockLedger ==
    ASSUME TokenInv, LedgerInv, NEW m \in Inbound, ReceiveUnlock(m)
    PROVE  LedgerInv' /\ EscrowKept
<1>1. PICK keeper \in {"lockproxy", "btcx", "ft"} :
          UnlockWith(keeper, m) /\ unlockedBy' = Append(unlockedBy, keeper)
  BY DEF ReceiveUnlock
<1>2. CASE keeper = "lockproxy" /\ lockproxy!Unlock(m)
  BY <1>1, <1>2, PayLedger
<1>3. CASE keeper = "btcx" /\ BtcxUnlock(m)
  <2>1. /\ <<m.toContract, m.fromChainId>> \in DOMAIN btcxAsset
        /\ Len(m.args.amount) >= Uint64Len
        /\ MintCoins(BtcxReads(m).args.toBtcAddress, BtcxReads(m).toContract,
                     BtcxReads(m).args.amount)
    BY <1>3, SameBank DEF BtcxUnlock, btcx!ContainToContractAddr, btcx!Unlock
  <2>2. m.toContract \in Denom
    BY <2>1 DEF TokenInv, BoundInv
  <2>3. /\ BtcxReads(m).args.toBtcAddress \in Holder
        /\ BtcxReads(m).toContract \in Denom
        /\ BtcxReads(m).args.amount \in Nat
    BY <2>1, <2>2, BtcxReadsMessage
  <2>. QED
    BY <1>1, <1>3, <2>1, <2>3, MintLedger
<1>4. CASE keeper = "ft" /\ ft!Unlock(m)
  <2>1. /\ <<m.toContract, m.fromChainId>> \in DOMAIN ftAsset
        /\ ft!CanUnpad(m.args.amount)
        /\ MintCoins(m.args.toAddress, m.toContract, ft!AmountReceived(m))
    BY <1>4, SameBank DEF ft!ContainToContractAddr, ft!Unlock
  <2>2. m.toContract \in Denom
    BY <2>1 DEF TokenInv, BoundInv
  <2>3. m.args.toAddress \in Holder /\ ft!AmountReceived(m) \in Nat
    BY <2>1, <2>2, FtReadsMessage
  <2>. QED
    BY <1>1, <1>4, <2>1, <2>2, <2>3, MintLedger
<1>. QED
  BY <1>1, <1>2, <1>3, <1>4 DEF UnlockWith

\* Transfers between users pass lockproxy's account by.
LEMMA TransferLedger ==
    ASSUME TokenInv, LedgerInv, NEW from \in Account, NEW to \in Account, NEW e \in Denom,
           NEW n \in Amounts, MsgSend(from, to, e, n),
           UNCHANGED <<lockProxyStores, unlockedBy, ccmVars>>
    PROVE  LedgerInv' /\ EscrowKept
<1>1. /\ AppInv /\ BankTypeOK /\ CoinsConserved
      /\ "lockproxy" \in Holder /\ from \in Holder /\ to \in Holder
      /\ from # "lockproxy" /\ to # "lockproxy" /\ n \in Nat
      /\ SendCoins(from, to, e, n)
      /\ UNCHANGED <<crossChainTxs, lockedDenom, executed, unlockedBy>>
  BY AppAssumption, BankAssumption
  DEF TokenInv, LedgerInv, Holder, MsgSend, lockProxyStores, ccmVars
<1>2. BankTypeOK' /\ CoinsConserved'
  BY <1>1, SendKeepsBank, SendConserves
<1>3. \A d \in Denom : balance'["lockproxy"][d] = (balance["lockproxy"][d] - 0) + 0
  BY <1>1, SendBalance
<1>4. \A d \in Denom : /\ balance'["lockproxy"][d] \in Nat
                       /\ balance'["lockproxy"][d] >= balance["lockproxy"][d]
  BY <1>1, <1>3, LedgerTerms
<1>. QED
  BY <1>1, <1>2, <1>4, QuietHistories, QuietLedger

\* Every step of the app.
LEMMA LedgerStep ==
    ASSUME TokenInv, LedgerInv, [AppNext]_appVars
    PROVE  LedgerInv' /\ EscrowKept
<1>1. CASE UNCHANGED appVars
  BY <1>1, FrameLedger DEF TokenInv, appVars, lockProxyStores, ccmVars
<1>2. CASE \E from \in Signer, to \in Account, d \in Denom, n \in Amounts :
               /\ MsgSend(from, to, d, n)
               /\ UNCHANGED <<lockProxyStores, btcxStores, ftStores, unlockedBy, ccmVars>>
  BY <1>2, TransferLedger DEF Signer
<1>. QED
  BY <1>1, <1>2, LockProxyLedger, BtcxLedger, FtLedger, UnlockLedger DEF AppNext

\* What the invariants say of types is all that the modules' own invariants do.
LEMMA AppTyped ==
    ASSUME TokenInv, LedgerInv
    PROVE  AppTypeOK
<1>1. CcmTypeOK /\ BankTypeOK /\ StoresInv /\ Len(unlockedBy) = Len(executed)
  BY DEF TokenInv, AppInv, CcmInv, LedgerInv, UnlocksRecorded
<1>2. lockproxy!CcmTypeOK /\ btcx!CcmTypeOK /\ ft!CcmTypeOK
  BY <1>1 DEF CcmTypeOK, lockproxy!CcmTypeOK, btcx!CcmTypeOK, ft!CcmTypeOK,
     OutboundTx, lockproxy!OutboundTx, btcx!OutboundTx, ft!OutboundTx,
     Bytes, lockproxy!Bytes, btcx!Bytes, ft!Bytes,
     DoneTxKey, lockproxy!DoneTxKey, btcx!DoneTxKey, ft!DoneTxKey
<1>3. lockproxy!BankTypeOK /\ btcx!BankTypeOK /\ ft!BankTypeOK
  BY <1>1 DEF BankTypeOK, lockproxy!BankTypeOK, btcx!BankTypeOK, ft!BankTypeOK,
     Holder, lockproxy!Holder, btcx!Holder, ft!Holder
<1>. QED
  BY <1>1, <1>2, <1>3
  DEF StoresInv, ProxyStoresInv, BtcxStoresInv, FtStoresInv, AppTypeOK,
      lockproxy!LockProxyTypeOK, btcx!BtcxTypeOK, ft!FtTypeOK

\* What the inequality compares.
EscrowTyped == \A d \in Denom :
    balance["lockproxy"][d] \in Nat /\ Sent(d) \in Nat /\ Released(d) \in Nat

-----------------------------------------------------------------------------
(* The invariant of all lives *)

RestartInv ==
    TokenInv /\ life \in Nat /\ inherited \in [Denom -> Nat] /\ InheritedCoinsFrozen

\* Within a life: nobody's coins stay nobody's.
LEMMA LifeStep ==
    ASSUME RestartInv, [AppNext]_appVars, UNCHANGED <<life, inherited>>
    PROVE  RestartInv'
<1>1. SupplyEffect /\ BoundInv'
  BY AppTotals DEF RestartInv
<1>2. AppInv'
  BY AppStep, EffectKeepsCcm, IncomingStep DEF RestartInv, TokenInv, AppInv
<1>3. \A d \in Denom : denomCreator'[d] # denomCreator[d] => ~ ExistDenom(d)
  BY AppStep DEF RestartInv, TokenInv, CcmEffect, ccmVars
<1>4. ASSUME NEW d \in Denom, inherited[d] > 0
      PROVE  denomCreator'[d] = NoAddr /\ supply'[d] = inherited[d]
  <2>1. denomCreator[d] = NoAddr /\ supply[d] = inherited[d] /\ supply[d] # 0
    BY <1>4 DEF RestartInv, InheritedCoinsFrozen
  <2>2. ExistDenom(d)
    BY <2>1 DEF ExistDenom
  <2>. QED
    BY <1>1, <1>3, <2>1, <2>2 DEF SupplyEffect
<1>. QED
  BY <1>1, <1>2, <1>4 DEF RestartInv, TokenInv, SupplyEffect, InheritedCoinsFrozen

\* A new life starts with empty stores and the totals of the old one.
LEMMA NewLifeStep ==
    ASSUME RestartInv, ExportAndRestart
    PROVE  RestartInv'
<1>1. AppInv'
  <2>1. /\ crossChainId' = 0 /\ crossChainTxs' = {} /\ doneTx' = <<>> /\ executed' = <<>>
        /\ denomCreator' = [d \in Denom |-> NoAddr]
    BY DEF ExportAndRestart, StoresEmpty
  <2>2. CcmInv'
    BY <2>1, CcmAssumption DEF CcmInv, CcmTypeOK, IncomingInv, OutgoingInv, ExecutedOnce,
       DoneMeansExecuted, OutgoingIdsDense, OutboundTx
  <2>3. StoresInv'
    BY DEF ExportAndRestart, StoresEmpty, StoresInv, ProxyStoresInv, BtcxStoresInv, FtStoresInv
  <2>. QED
    BY <2>2, <2>3 DEF AppInv
<1>2. SupplyType' /\ BoundInv'
  BY DEF RestartInv, TokenInv, SupplyType, BoundInv, ExportAndRestart, StoresEmpty, bankVars
<1>3. life' \in Nat /\ inherited' \in [Denom -> Nat] /\ InheritedCoinsFrozen'
  BY DEF RestartInv, TokenInv, SupplyType, InheritedCoinsFrozen, ExportAndRestart, StoresEmpty, bankVars
<1>. QED
  BY <1>1, <1>2, <1>3 DEF RestartInv, TokenInv

\* The invariant of every life.
THEOREM RestartInvariance == RestartSpec => []RestartInv
<1>1. RestartInit => RestartInv
  <2>. SUFFICES ASSUME RestartInit PROVE RestartInv
    OBVIOUS
  <2>1. AppInv /\ supply = GenesisSupply /\ denomCreator = [d \in Denom |-> NoAddr]
    BY AppInitInvariant DEF RestartInit, BankInit
  <2>2. DOMAIN btcxAsset = {} /\ DOMAIN ftAsset = {}
    BY DEF RestartInit, AppInit, btcx!BtcxInit, ft!FtInit
  <2>3. SupplyType /\ BoundInv
    BY <2>1, <2>2, BankAssumption DEF SupplyType, BoundInv
  <2>4. life \in Nat /\ inherited \in [Denom -> Nat] /\ InheritedCoinsFrozen
    BY <2>1, BankAssumption DEF RestartInit, InheritedCoinsFrozen
  <2>. QED
    BY <2>1, <2>3, <2>4 DEF RestartInv, TokenInv
<1>2. RestartInv /\ [RestartNext]_restartVars => RestartInv'
  <2>. SUFFICES ASSUME RestartInv, [RestartNext]_restartVars PROVE RestartInv'
    OBVIOUS
  <2>1. CASE UNCHANGED <<life, inherited, appVars>>
    BY <2>1, LifeStep
  <2>2. CASE Transaction
    BY <2>2, LifeStep DEF Transaction, lifeVars
  <2>3. CASE ExportAndRestart
    BY <2>3, NewLifeStep
  <2>. QED
    BY <2>1, <2>2, <2>3 DEF RestartNext, ChangeParams, ExportPanics, restartVars, lifeVars
<1>. QED
  BY <1>1, <1>2, PTL DEF RestartSpec

\* Coins a life inherits have no creator in it, and their total stands still.
THEOREM InheritedAreFrozen == RestartSpec => []InheritedCoinsFrozen
<1>1. RestartInv => InheritedCoinsFrozen
  BY DEF RestartInv
<1>. QED
  BY RestartInvariance, <1>1, PTL

\* In each life no message is executed twice.
THEOREM RestartNoReplayInLife == RestartSpec => []ExecutedOnce
<1>1. RestartInv => ExecutedOnce
  BY DEF RestartInv, TokenInv, AppInv, CcmInv, IncomingInv
<1>. QED
  BY RestartInvariance, <1>1, PTL

\* In each life the messages sent are numbered densely.
THEOREM RestartIdsDense == RestartSpec => []OutgoingIdsDense
<1>1. RestartInv => OutgoingIdsDense
  BY DEF RestartInv, TokenInv, AppInv, CcmInv, OutgoingInv
<1>. QED
  BY RestartInvariance, <1>1, PTL

\* Steps of RestartSpec are those of a life, or start another.
LEMMA StepOfLife ==
    ASSUME [RestartNext]_restartVars
    PROVE  \/ [AppNext]_appVars
           \/ ExportAndRestart
BY DEF RestartNext, ChangeParams, Transaction, ExportPanics, restartVars

\* The creator of a denom never changes within a life.
THEOREM CreatorsArePermanent == RestartSpec => CreatorsPermanent
<1>1. RestartInv /\ [RestartNext]_restartVars => [life' = life => CreatorsStay]_restartVars
  <2>. SUFFICES ASSUME RestartInv, [RestartNext]_restartVars, life' = life PROVE CreatorsStay
    OBVIOUS
  <2>1. ~ ExportAndRestart
    BY DEF RestartInv, ExportAndRestart
  <2>. QED
    BY <2>1, StepOfLife, CreatorsKept DEF RestartInv, TokenInv
<1>. QED
  BY <1>1, RestartInvariance, PTL DEF RestartSpec, CreatorsPermanent

\* Whichever modules work on a denom, its total changes by its creation, on a
\* message of an asset bound to it, or with a message sent (ft keeper.go:99-134,
\* btcx keeper.go:237-270 and their callers), and never by an export.
THEOREM SuppliesExplained == RestartSpec => SupplyExplained
<1>1. RestartInv /\ [RestartNext]_restartVars => Explained
  BY StepOfLife, AppExplained, NothingToExplain DEF RestartInv, ExportAndRestart, bankVars
<1>. QED
  BY <1>1, RestartInvariance, PTL DEF RestartSpec, SupplyExplained

\* Once a denom that is not independent has coins, its total changes only while
\* it is bound in btcx.
THEOREM FixedSuppliesInApp == RestartSpec => FixedSupplyUnlessInBtcx
<1>1. RestartInv /\ [RestartNext]_restartVars => FixedUnlessBound
  BY StepOfLife, AppFixed, SameTotals DEF RestartInv, ExportAndRestart, bankVars
<1>. QED
  BY <1>1, RestartInvariance, PTL DEF RestartSpec, FixedSupplyUnlessInBtcx

-----------------------------------------------------------------------------
(* Redeem scripts *)

\* Messages with a script come from denoms, and those of btcx have a creator.
ScriptsInv ==
    /\ \A d \in DOMAIN denomToCreator : denomCreator[d] # NoAddr
    /\ \A tx \in crossChainTxs : "redeemScript" \in DOMAIN tx.param.args =>
           tx.param.fromContract \in Denom
    /\ ScriptOfCreatedDenom

\* A step that sends nothing, or a message without a script, and creates no
\* denom in btcx.
LEMMA OthersKeepScripts ==
    ASSUME TokenInv, ScriptsInv, \A d \in Denom : denomCreator[d] # NoAddr => denomCreator'[d] # NoAddr,
           UNCHANGED <<denomToCreator, redeemScript>>,
           \A tx \in crossChainTxs' \ crossChainTxs : "redeemScript" \notin DOMAIN tx.param.args
    PROVE  ScriptsInv'
<1>1. \A d \in DOMAIN denomToCreator : d \in Denom
  BY DEF TokenInv, AppInv, StoresInv, BtcxStoresInv
<1>. QED
  BY <1>1 DEF ScriptsInv, ScriptOfCreatedDenom

\* btcx sends the script that it has, and creates denoms that nobody has sent.
LEMMA BtcxScripts ==
    ASSUME TokenInv, ScriptsInv, btcx!BtcxHandler,
           \A d \in Denom : denomCreator[d] # NoAddr => denomCreator'[d] # NoAddr
    PROVE  ScriptsInv'
<1>1. DOMAIN redeemScript = DOMAIN denomToCreator /\ \A d \in DOMAIN denomToCreator : d \in Denom
  BY DEF TokenInv, AppInv, StoresInv, BtcxStoresInv
<1>2. ASSUME NEW creator \in btcx!Signer, NEW d \in Denom, NEW script \in Script,
             btcx!CreateDenom(creator, d, script)
      PROVE  ScriptsInv'
  <2>1. /\ denomCreator[d] = NoAddr
        /\ denomCreator' = [denomCreator EXCEPT ![d] = creator]
        /\ denomToCreator' = Put(denomToCreator, d, creator)
        /\ redeemScript' = Put(redeemScript, d, script)
        /\ UNCHANGED crossChainTxs
    BY <1>2 DEF btcx!CreateDenom, btcx!ExistDenom, btcx!SetDenomCreator, btcx!Put, Put
  <2>2. /\ DOMAIN denomToCreator' = DOMAIN denomToCreator \cup {d}
        /\ \A e \in DOMAIN redeemScript : e # d => redeemScript'[e] = redeemScript[e]
    BY <2>1 DEF Put
  <2>3. creator # NoAddr /\ denomCreator'[d] = creator
    BY <2>1, CcmAssumption DEF TokenInv, AppInv, CcmInv, CcmTypeOK, btcx!Signer
  <2>4. ASSUME NEW tx \in crossChainTxs, tx.param.toChainId = BtcChainId,
               "redeemScript" \in DOMAIN tx.param.args
        PROVE  LET e == tx.param.fromContract
               IN  /\ denomCreator'[e] # NoAddr
                   /\ tx.param.args.redeemScript =
                          IF e \in DOMAIN denomToCreator' THEN redeemScript'[e] ELSE NoScript
    <3>. DEFINE e == tx.param.fromContract
    <3>1. /\ e \in Denom /\ denomCreator[e] # NoAddr
          /\ tx.param.args.redeemScript =
                 IF e \in DOMAIN denomToCreator THEN redeemScript[e] ELSE NoScript
      BY <2>4 DEF ScriptsInv, ScriptOfCreatedDenom
    <3>2. e # d /\ denomCreator'[e] # NoAddr
      BY <2>1, <3>1
    <3>. QED
      BY <1>1, <2>2, <3>1, <3>2
  <2>. QED
    BY <1>1, <2>1, <2>2, <2>3, <2>4 DEF ScriptsInv, ScriptOfCreatedDenom
<1>3. ASSUME NEW from \in btcx!Signer, NEW d \in Denom, NEW c \in RemoteChain,
             NEW to \in btcx!Holder, NEW n \in Amounts, btcx!Lock(from, d, c, to, n)
      PROVE  ScriptsInv'
  <2>. DEFINE r == [fromContract |-> d, toChainId |-> c, toContract |-> btcxAsset[<<d, c>>],
                    method |-> "unlock", args |-> btcx!ToArgs(d, c, to, n)]
              tx == [crossChainId |-> IdBytes[crossChainId], param |-> r]
  <2>1. /\ <<d, c>> \in DOMAIN btcxAsset
        /\ crossChainTxs' = crossChainTxs \cup {tx}
        /\ UNCHANGED <<denomToCreator, redeemScript, denomCreator>>
    BY <1>3 DEF btcx!Lock, btcx!CreateCrossChainTx, btcx!scriptVars
  <2>2. denomCreator[d] # NoAddr
    BY <2>1 DEF TokenInv, BoundInv
  <2>3. /\ tx.param.fromContract = d /\ tx.param.toChainId = c
        /\ c = BtcChainId => tx.param.args.redeemScript =
                                 IF d \in DOMAIN denomToCreator THEN redeemScript[d] ELSE NoScript
    BY <1>1 DEF btcx!ToArgs, btcx!GetRedeemScript
  <2>. HIDE DEF tx
  <2>. QED
    BY <2>1, <2>2, <2>3 DEF ScriptsInv, ScriptOfCreatedDenom
<1>4. CASE UNCHANGED <<denomToCreator, redeemScript, crossChainTxs>>
  BY <1>4, OthersKeepScripts
<1>. QED
  BY <1>2, <1>3, <1>4 DEF btcx!BtcxHandler, btcx!BindAssetHash, btcx!scriptVars, btcx!ccmVars

\* Messages of lockproxy and of ft carry no script.
LEMMA OthersSendNoScript ==
    ASSUME lockproxy!LockProxyHandler \/ ft!FtHandler
    PROVE  \A tx \in crossChainTxs' \ crossChainTxs : "redeemScript" \notin DOMAIN tx.param.args
<1>. DEFINE Goal == \A tx \in crossChainTxs' \ crossChainTxs :
                        "redeemScript" \notin DOMAIN tx.param.args
<1>1. ASSUME NEW from \in lockproxy!Signer, NEW proxy \in Account, NEW d \in Denom,
             NEW c \in RemoteChain, NEW to \in lockproxy!Holder, NEW n \in Amounts,
             lockproxy!Lock(proxy, from, d, c, to, n)
      PROVE  Goal
  <2>1. \A tx \in crossChainTxs' \ crossChainTxs :
            DOMAIN tx.param.args = {"toAssetHash", "toAddress", "amount"}
    BY <1>1 DEF lockproxy!Lock, lockproxy!CreateCrossChainTx, lockproxy!ToArgs
  <2>. QED
    BY <2>1
<1>2. ASSUME NEW from \in ft!Signer, NEW d \in Denom, NEW c \in RemoteChain,
             NEW to \in ft!Holder, NEW n \in Amounts, ft!Lock(from, d, c, to, n)
      PROVE  Goal
  <2>1. \A tx \in crossChainTxs' \ crossChainTxs :
            DOMAIN tx.param.args = {"toAddress", "amount"}
    BY <1>2 DEF ft!Lock, ft!CreateCrossChainTx
  <2>. QED
    BY <2>1
<1>3. ASSUME UNCHANGED crossChainTxs PROVE Goal
  BY <1>3
<1>. HIDE DEF Goal
<1>4. ASSUME lockproxy!LockProxyHandler PROVE Goal
  BY <1>1, <1>3, <1>4 DEF lockproxy!LockProxyHandler, lockproxy!CreateLockProxy,
     lockproxy!CreateCoinAndDelegateToProxy, lockproxy!BindProxyHash, lockproxy!BindAssetHash,
     lockproxy!ccmVars
<1>5. ASSUME ft!FtHandler PROVE Goal
  BY <1>2, <1>3, <1>5 DEF ft!FtHandler, ft!CreateCoins, ft!CreateDenom, ft!BindAssetHash, ft!ccmVars
<1>. QED
  BY <1>4, <1>5 DEF Goal

\* Each step of the app.
LEMMA ScriptsStep ==
    ASSUME TokenInv, ScriptsInv, [AppNext]_appVars
    PROVE  ScriptsInv'
<1>1. \A d \in Denom : denomCreator[d] # NoAddr => denomCreator'[d] # NoAddr
  BY AppStep, BoundStay DEF TokenInv
<1>2. CASE /\ lockproxy!LockProxyHandler \/ ft!FtHandler
           /\ UNCHANGED btcxStores
  BY <1>1, <1>2, OthersSendNoScript, OthersKeepScripts DEF btcxStores
<1>3. CASE btcx!BtcxHandler
  BY <1>1, <1>3, BtcxScripts
<1>4. CASE UNCHANGED <<btcxStores, crossChainTxs>>
  BY <1>1, <1>4, OthersKeepScripts DEF btcxStores
<1>. QED
  BY <1>2, <1>3, <1>4 DEF AppNext, appVars, ReceiveUnlock, ccmVars

\* A message goes to bitcoin with the script its denom was created with in btcx
\* or, when another module created it, with none (btcx keeper.go:127-140).
THEOREM ScriptsAreSent == RestartSpec => []ScriptOfCreatedDenom
<1>1. RestartInit => ScriptsInv
  <2>. SUFFICES ASSUME RestartInit PROVE ScriptsInv
    OBVIOUS
  <2>1. crossChainTxs = {} /\ denomToCreator = <<>>
    BY AppInitInvariant DEF RestartInit, AppInit, btcx!BtcxInit
  <2>. QED
    BY <2>1 DEF ScriptsInv, ScriptOfCreatedDenom
<1>2. RestartInv /\ ScriptsInv /\ [RestartNext]_restartVars => ScriptsInv'
  <2>. SUFFICES ASSUME RestartInv, ScriptsInv, [RestartNext]_restartVars PROVE ScriptsInv'
    OBVIOUS
  <2>1. CASE [AppNext]_appVars
    BY <2>1, ScriptsStep DEF RestartInv
  <2>2. CASE ExportAndRestart
    BY <2>2 DEF ExportAndRestart, StoresEmpty, ScriptsInv, ScriptOfCreatedDenom
  <2>. QED
    BY <2>1, <2>2, StepOfLife
<1>3. ScriptsInv => ScriptOfCreatedDenom
  BY DEF ScriptsInv
<1>. QED
  BY <1>1, <1>2, <1>3, RestartInvariance, PTL DEF RestartSpec

-----------------------------------------------------------------------------
(* Coins over several lives *)

LivesInv == LedgerInv /\ past \in [sent: [Denom -> Nat], released: [Denom -> Nat]]

\* A new life keeps the coins, accounts for nothing any more and remembers what
\* was accounted for.
LEMMA NewLifeLedger ==
    ASSUME RestartInv, LivesInv, ExportAndRestart
    PROVE  /\ LivesInv'
           /\ UNCHANGED balance
           /\ \A d \in Denom : /\ Sent(d)' = 0 /\ Released(d)' = 0
                               /\ past'.sent[d] = past.sent[d] + Sent(d)
                               /\ past'.released[d] = past.released[d] + Released(d)
<1>1. /\ crossChainTxs' = {} /\ executed' = <<>> /\ unlockedBy' = <<>>
      /\ UNCHANGED bankVars
      /\ past' = [sent |-> [d \in Denom |-> past.sent[d] + Sent(d)],
                  released |-> [d \in Denom |-> past.released[d] + Released(d)]]
  BY DEF ExportAndRestart, StoresEmpty
<1>2. LedgerInv'
  <2>1. BankTypeOK' /\ CoinsConserved'
    BY <1>1 DEF LivesInv, LedgerInv, BankTypeOK, CoinsConserved, TotalOf, bankVars
  <2>2. LocksRecorded' /\ UnlocksRecorded'
    BY <1>1 DEF LocksRecorded, UnlocksRecorded
  <2>. QED
    BY <2>1, <2>2 DEF LedgerInv
<1>3. \A d \in Denom : Sent(d) \in Nat /\ Released(d) \in Nat
  BY LedgerTerms DEF RestartInv, TokenInv, LivesInv
<1>4. /\ past.sent \in [Denom -> Nat] /\ past.released \in [Denom -> Nat]
  BY DEF LivesInv
<1>5. past' \in [sent: [Denom -> Nat], released: [Denom -> Nat]]
  <2>1. \A d \in Denom : past.sent[d] + Sent(d) \in Nat /\ past.released[d] + Released(d) \in Nat
    BY <1>3, <1>4
  <2>. QED
    BY <1>1, <2>1
<1>6. ASSUME NEW d \in Denom
      PROVE  Sent(d)' = 0 /\ Released(d)' = 0
  <2>. DEFINE A == {t \in crossChainTxs' : /\ t.param.fromContract \in Account
                                           /\ lockedDenom'[t.crossChainId] = d}
              B == {j \in DOMAIN executed' : /\ unlockedBy'[j] = "lockproxy"
                                             /\ executed'[j].args.toAssetHash = d}
              f == [tx \in A |-> tx.param.args.amount]
              g == [i \in B |-> executed'[i].args.amount]
  <2>1. DOMAIN f = {} /\ DOMAIN g = {}
    BY <1>1
  <2>2. Sent(d)' = SumFunction(f) /\ Released(d)' = SumFunction(g)
    BY DEF Sent, Released
  <2>. HIDE DEF f, g
  <2>. QED
    BY <2>1, <2>2, SumEmpty
<1>. QED
  BY <1>1, <1>2, <1>5, <1>6 DEF LivesInv, bankVars

\* A step of a life, or one that leaves the app alone.
LEMMA LifeLedger ==
    ASSUME RestartInv, LivesInv, [RestartNext]_restartVars
    PROVE  \/ LivesInv' /\ EscrowKept /\ UNCHANGED past
           \/ ExportAndRestart
<1>1. ASSUME [AppNext]_appVars, UNCHANGED past
      PROVE  LivesInv' /\ EscrowKept
  BY <1>1, LedgerStep DEF RestartInv, LivesInv
<1>. QED
  BY <1>1 DEF RestartNext, ChangeParams, Transaction, ExportPanics, restartVars, lifeVars

THEOREM LivesInvariance == RestartSpec => []LivesInv
<1>1. RestartInit => LivesInv
  <2>. SUFFICES ASSUME RestartInit PROVE LivesInv
    OBVIOUS
  <2>1. /\ BankTypeOK /\ CoinsConserved
        /\ executed = <<>> /\ unlockedBy = <<>> /\ crossChainTxs = {}
    BY AppInitInvariant, BankInitInvariant DEF RestartInit
  <2>2. LedgerInv
    BY <2>1 DEF LedgerInv, LocksRecorded, UnlocksRecorded
  <2>. QED
    BY <2>2 DEF LivesInv, RestartInit, NothingDone
<1>2. RestartInv /\ LivesInv /\ [RestartNext]_restartVars => LivesInv'
  BY LifeLedger, NewLifeLedger
<1>. QED
  BY <1>1, <1>2, RestartInvariance, PTL DEF RestartSpec

\* No export loses or makes a coin, though the stores behind the coins are lost
\* with it.
THEOREM RestartConserves == RestartSpec => []CoinsConserved
<1>1. LivesInv => CoinsConserved
  BY DEF LivesInv, LedgerInv
<1>. QED
  BY <1>1, LivesInvariance, PTL

\* Every module's stores have their types, whatever the others do.
THEOREM AppTypeCorrect == RestartSpec => []AppTypeOK
<1>1. RestartInv /\ LivesInv => AppTypeOK
  BY AppTyped DEF RestartInv, LivesInv
<1>. QED
  BY <1>1, RestartInvariance, LivesInvariance, PTL

\* What lockproxy holds covers what it sent in this life and has not paid back,
\* for denoms that btcx and ft mint and burn at the same time.
THEOREM EscrowIsCovered == RestartSpec => []EscrowCoversMessages
<1>1. RestartInv /\ LivesInv => EscrowTyped
  BY LedgerTerms DEF RestartInv, TokenInv, LivesInv, EscrowTyped
<1>2. RestartInit /\ EscrowTyped => EscrowCoversMessages
  <2>. SUFFICES ASSUME RestartInit, EscrowTyped, NEW d \in Denom
                PROVE  balance["lockproxy"][d] + Released(d) >= Sent(d)
    BY DEF EscrowCoversMessages
  <2>1. Sent(d) = 0 /\ Released(d) = 0
    BY AppInitInvariant, NothingAccounted DEF RestartInit
  <2>. QED
    BY <2>1 DEF EscrowTyped
<1>3. RestartInv /\ LivesInv /\ EscrowTyped /\ EscrowTyped' /\ EscrowCoversMessages
          /\ [RestartNext]_restartVars => EscrowCoversMessages'
  <2>. SUFFICES ASSUME RestartInv, LivesInv, EscrowTyped, EscrowTyped', EscrowCoversMessages,
                       [RestartNext]_restartVars, NEW d \in Denom
                PROVE  balance'["lockproxy"][d] + Released(d)' >= Sent(d)'
    BY DEF EscrowCoversMessages
  <2>1. balance["lockproxy"][d] \in Nat /\ Sent(d) \in Nat /\ Released(d) \in Nat
    BY DEF EscrowTyped
  <2>2. balance'["lockproxy"][d] \in Nat /\ Sent(d)' \in Nat /\ Released(d)' \in Nat
    BY DEF EscrowTyped
  <2>3. CASE EscrowKept
    <3>1. balance'["lockproxy"][d] + Released(d)' + Sent(d)
              >= balance["lockproxy"][d] + Released(d) + Sent(d)'
      BY <2>3 DEF EscrowKept
    <3>2. balance["lockproxy"][d] + Released(d) >= Sent(d)
      BY DEF EscrowCoversMessages
    <3>. QED
      BY <2>1, <2>2, <3>1, <3>2
  <2>4. CASE ExportAndRestart
    <3>1. Sent(d)' = 0 /\ Released(d)' = 0
      BY <2>4, NewLifeLedger
    <3>. QED
      BY <2>2, <3>1
  <2>. QED
    BY <2>3, <2>4, LifeLedger
<1>. QED
  BY <1>1, <1>2, <1>3, RestartInvariance, LivesInvariance, PTL DEF RestartSpec

\* What was sent before an export stays backed by coins in all lives after it.
THEOREM EscrowOutlives == RestartSpec => []EscrowOutlivesRestart
<1>. DEFINE PastTyped == \A d \in Denom : past.sent[d] \in Nat /\ past.released[d] \in Nat
<1>1. RestartInv /\ LivesInv => EscrowTyped /\ PastTyped
  <2>. SUFFICES ASSUME RestartInv, LivesInv PROVE EscrowTyped /\ PastTyped
    OBVIOUS
  <2>1. EscrowTyped
    BY LedgerTerms DEF RestartInv, TokenInv, LivesInv, EscrowTyped
  <2>2. PastTyped
    BY DEF LivesInv
  <2>. QED
    BY <2>1, <2>2
<1>2. RestartInit /\ EscrowTyped => EscrowOutlivesRestart
  <2>. SUFFICES ASSUME RestartInit, EscrowTyped, NEW d \in Denom
                PROVE  balance["lockproxy"][d] + past.released[d] + Released(d)
                           >= past.sent[d] + Sent(d)
    BY DEF EscrowOutlivesRestart
  <2>1. Sent(d) = 0 /\ Released(d) = 0
    BY AppInitInvariant, NothingAccounted DEF RestartInit
  <2>2. past.sent[d] = 0 /\ past.released[d] = 0
    BY DEF RestartInit, NothingDone
  <2>. QED
    BY <2>1, <2>2 DEF EscrowTyped
<1>3. RestartInv /\ LivesInv /\ EscrowTyped /\ EscrowTyped' /\ PastTyped
          /\ EscrowOutlivesRestart /\ [RestartNext]_restartVars => EscrowOutlivesRestart'
  <2>. SUFFICES ASSUME RestartInv, LivesInv, EscrowTyped, EscrowTyped', PastTyped,
                       EscrowOutlivesRestart, [RestartNext]_restartVars, NEW d \in Denom
                PROVE  balance'["lockproxy"][d] + past'.released[d] + Released(d)'
                           >= past'.sent[d] + Sent(d)'
    BY DEF EscrowOutlivesRestart
  <2>1. /\ balance["lockproxy"][d] \in Nat /\ Sent(d) \in Nat /\ Released(d) \in Nat
        /\ past.sent[d] \in Nat /\ past.released[d] \in Nat
    BY DEF EscrowTyped
  <2>2. balance'["lockproxy"][d] \in Nat /\ Sent(d)' \in Nat /\ Released(d)' \in Nat
    BY DEF EscrowTyped
  <2>3. balance["lockproxy"][d] + past.released[d] + Released(d) >= past.sent[d] + Sent(d)
    BY DEF EscrowOutlivesRestart
  <2>4. CASE EscrowKept /\ UNCHANGED past
    <3>1. balance'["lockproxy"][d] + Released(d)' + Sent(d)
              >= balance["lockproxy"][d] + Released(d) + Sent(d)'
      BY <2>4 DEF EscrowKept
    <3>. QED
      BY <2>1, <2>2, <2>3, <2>4, <3>1
  <2>5. CASE ExportAndRestart
    <3>1. /\ Sent(d)' = 0 /\ Released(d)' = 0
          /\ past'.sent[d] = past.sent[d] + Sent(d)
          /\ past'.released[d] = past.released[d] + Released(d)
          /\ UNCHANGED balance
      BY <2>5, NewLifeLedger
    <3>. QED
      BY <2>1, <2>3, <3>1
  <2>. QED
    BY <2>4, <2>5, LifeLedger
<1>. QED
  BY <1>1, <1>2, <1>3, RestartInvariance, LivesInvariance, PTL DEF RestartSpec
=============================================================================
