-------------------------- MODULE LockProxyProofs --------------------------
(***************************************************************************)
(* Proofs about LockProxy for every set of accounts, denoms and messages:  *)
(* its type invariant, that messages are sent in the name of bound proxies *)
(* only, that coins leave the module account only for a message of a bound *)
(* contract, and that what the account holds is what messages account for. *)
(***************************************************************************)
EXTENDS LockProxy, CrossChainManagerProofs

\* What the handlers of lockproxy keep, next to the invariants of ccm.
ProxyInv ==
    /\ BankTypeOK
    /\ lockProxies \subseteq Account
    /\ DOMAIN proxyHash \subseteq Account \X RemoteChain
    /\ \A k \in DOMAIN proxyHash : proxyHash[k] \in Contract
    /\ DOMAIN assetHash \subseteq Account \X Denom \X RemoteChain
    /\ \A k \in DOMAIN assetHash : assetHash[k] \in Asset
    /\ BindingsHaveProxies

LockProxyInv == CcmInv /\ ProxyInv

-----------------------------------------------------------------------------
(* The handlers *)

\* What every handler that leaves the bindings alone keeps of them, provided
\* it sends nothing.
LEMMA FrameProxies ==
    ASSUME ProxyInv, BankTypeOK', UNCHANGED <<proxyVars, crossChainTxs>>
    PROVE  ProxyInv'
BY DEF ProxyInv, BindingsHaveProxies, proxyVars

\* A new proxy has no bindings, and those of the others stay.
LEMMA CreateLockProxyStep ==
    ASSUME LockProxyInv, NEW creator \in Account, CreateLockProxy(creator)
    PROVE  LockProxyInv'
<1>1. CcmInv'
  BY FrameStep DEF LockProxyInv, CreateLockProxy
<1>2. ProxyInv'
  BY DEF LockProxyInv, ProxyInv, CreateLockProxy, BindingsHaveProxies, BankTypeOK,
         ccmVars, bankVars
<1>. QED
  BY <1>1, <1>2 DEF LockProxyInv

\* A created denom is the creator's and its coins are the module account's.
LEMMA CreateCoinStep ==
    ASSUME LockProxyInv, NEW creator \in Account, NEW proxy,
           NEW d \in Denom, NEW n \in Amounts,
           CreateCoinAndDelegateToProxy(creator, d, n, proxy)
    PROVE  LockProxyInv'
<1>1. CcmInv'
  BY CreatorStep DEF LockProxyInv, CreateCoinAndDelegateToProxy
<1>2. LockProxyModule \in Holder /\ n \in Nat
  BY LockProxyAssumption DEF Holder
<1>3. BankTypeOK'
  BY <1>2, MintKeepsBank DEF LockProxyInv, ProxyInv, CreateCoinAndDelegateToProxy
<1>4. ProxyInv'
  BY <1>3, FrameProxies DEF LockProxyInv, CreateCoinAndDelegateToProxy
<1>. QED
  BY <1>1, <1>4 DEF LockProxyInv

\* A binding is its operator's, who has a proxy.
LEMMA BindProxyStep ==
    ASSUME LockProxyInv, NEW operator \in Account, NEW c \in RemoteChain,
           NEW hash \in Contract, BindProxyHash(operator, c, hash)
    PROVE  LockProxyInv'
<1>1. CcmInv'
  BY FrameStep DEF LockProxyInv, BindProxyHash
<1>2. /\ operator \in lockProxies
      /\ proxyHash' = Put(proxyHash, <<operator, c>>, hash)
      /\ UNCHANGED <<lockProxies, assetHash, crossChainTxs, balance, supply, accounts>>
  BY CcmAssumption DEF BindProxyHash, EnsureLockProxyExist, ccmVars, bankVars
<1>3. /\ DOMAIN proxyHash' = DOMAIN proxyHash \cup {<<operator, c>>}
      /\ \A k \in DOMAIN proxyHash' :
             proxyHash'[k] = IF k = <<operator, c>> THEN hash ELSE proxyHash[k]
  BY <1>2 DEF Put
<1>4. DOMAIN proxyHash' \subseteq Account \X RemoteChain
  BY <1>3 DEF LockProxyInv, ProxyInv
<1>5. \A k \in DOMAIN proxyHash' : proxyHash'[k] \in Contract
  BY <1>3 DEF LockProxyInv, ProxyInv
<1>6. BindingsHaveProxies'
  BY <1>2, <1>3 DEF LockProxyInv, ProxyInv, BindingsHaveProxies
<1>. QED
  BY <1>1, <1>2, <1>4, <1>5, <1>6 DEF LockProxyInv, ProxyInv, BankTypeOK

\* So is the binding of an asset.
LEMMA BindAssetStep ==
    ASSUME LockProxyInv, NEW operator \in Account, NEW d \in Denom, NEW c \in RemoteChain,
           NEW hash \in Asset, BindAssetHash(operator, d, c, hash)
    PROVE  LockProxyInv'
<1>1. CcmInv'
  BY FrameStep DEF LockProxyInv, BindAssetHash
<1>2. /\ operator \in lockProxies
      /\ assetHash' = Put(assetHash, <<operator, d, c>>, hash)
      /\ UNCHANGED <<lockProxies, proxyHash, crossChainTxs, balance, supply, accounts>>
  BY CcmAssumption DEF BindAssetHash, EnsureLockProxyExist, ccmVars, bankVars
<1>3. /\ DOMAIN assetHash' = DOMAIN assetHash \cup {<<operator, d, c>>}
      /\ \A k \in DOMAIN assetHash' :
             assetHash'[k] = IF k = <<operator, d, c>> THEN hash ELSE assetHash[k]
  BY <1>2 DEF Put
<1>4. DOMAIN assetHash' \subseteq Account \X Denom \X RemoteChain
  BY <1>3 DEF LockProxyInv, ProxyInv
<1>5. \A k \in DOMAIN assetHash' : assetHash'[k] \in Asset
  BY <1>3 DEF LockProxyInv, ProxyInv
<1>6. BindingsHaveProxies'
  BY <1>2, <1>3 DEF LockProxyInv, ProxyInv, BindingsHaveProxies
<1>. QED
  BY <1>1, <1>2, <1>4, <1>5, <1>6 DEF LockProxyInv, ProxyInv, BankTypeOK

\* Lock looks the contract up by the proxy's name, so the name has a binding.
LEMMA LockStep ==
    ASSUME LockProxyInv, NEW proxy \in Account, NEW from \in Account, NEW d \in Denom,
           NEW c \in RemoteChain, NEW to \in Holder, NEW n \in Amounts,
           Lock(proxy, from, d, c, to, n)
    PROVE  LockProxyInv'
<1>. DEFINE args == ToArgs(proxy, d, c, to, n)
            r == [fromContract |-> proxy, toChainId |-> c,
                  toContract |-> proxyHash[<<proxy, c>>], method |-> "unlock", args |-> args]
            tx == [crossChainId |-> IdBytes[crossChainId], param |-> r]
<1>1. /\ SendCoins(from, LockProxyModule, d, n)
      /\ <<proxy, c>> \in DOMAIN proxyHash
      /\ CreateCrossChainTx(r)
      /\ UNCHANGED <<proxyVars, doneTx, denomCreator, executed>>
  BY DEF Lock
<1>2. args \in Args
  <2>1. GetAssetHash(proxy, d, c) \in {<<>>} \cup Asset \cup Denom
    BY DEF GetAssetHash, LockProxyInv, ProxyInv
  <2>. QED
    BY <2>1 DEF ToArgs, Args
<1>3. r \in Outbound
  BY <1>1, <1>2, LockProxyAssumption DEF LockParam, LockProxyInv, ProxyInv
<1>4. CcmInv'
  BY <1>1, <1>3, OutgoingStep DEF LockProxyInv
<1>5. from \in Holder /\ LockProxyModule \in Holder /\ n \in Nat
  BY LockProxyAssumption DEF Holder
<1>6. BankTypeOK'
  BY <1>1, <1>5, SendKeepsBank DEF LockProxyInv, ProxyInv
<1>7. crossChainTxs' = crossChainTxs \cup {tx}
  BY <1>1 DEF CreateCrossChainTx
<1>8. tx.param.fromContract = proxy /\ tx.param.toChainId = c
  OBVIOUS
<1>9. BindingsHaveProxies'
  BY <1>1, <1>7, <1>8 DEF LockProxyInv, ProxyInv, BindingsHaveProxies, proxyVars
<1>. QED
  BY <1>1, <1>4, <1>6, <1>9 DEF LockProxyInv, ProxyInv, proxyVars

\* The asset of a message that is executed is a bound denom.
LEMMA ReceiveStep ==
    ASSUME LockProxyInv, NEW m \in UnlockMsg, ReceiveUnlock(m)
    PROVE  LockProxyInv'
<1>1. m \in Inbound /\ m.args \in Args
  BY LockProxyAssumption DEF UnlockMsg
<1>2. /\ ExecuteMessage(m)
      /\ <<m.toContract, m.args.toAssetHash, m.fromChainId>> \in DOMAIN assetHash
      /\ SendCoins(LockProxyModule, m.args.toAddress, m.args.toAssetHash, m.args.amount)
      /\ UNCHANGED <<proxyVars, crossChainId, crossChainTxs, denomCreator>>
  BY DEF ReceiveUnlock, Unlock
<1>3. CcmInv'
  BY <1>1, <1>2, IncomingStep DEF LockProxyInv
<1>4. m.args.toAssetHash \in Denom
  BY <1>2 DEF LockProxyInv, ProxyInv
<1>5. m.args.toAddress \in Holder /\ m.args.amount \in Nat /\ LockProxyModule \in Holder
  BY <1>1, LockProxyAssumption DEF Args, Holder
<1>6. BankTypeOK'
  BY <1>2, <1>4, <1>5, SendKeepsBank DEF LockProxyInv, ProxyInv
<1>. QED
  BY <1>2, <1>3, <1>6, FrameProxies DEF LockProxyInv

\* Every step keeps the invariant: one handler of the module at a time.
LEMMA LockProxyStep ==
    ASSUME LockProxyInv, [LockProxyNext]_lockProxyVars
    PROVE  LockProxyInv'
<1>1. CASE UNCHANGED <<proxyVars, ccmVars>> /\ BankTypeOK'
  BY <1>1, FrameStep, FrameProxies DEF LockProxyInv, ccmVars
<1>2. CASE \E from \in Signer, to \in Account, d \in Denom, n \in Amounts :
               MsgSend(from, to, d, n) /\ UNCHANGED <<proxyVars, lockedDenom, ccmVars>>
  <2>1. BankTypeOK'
    BY <1>2, SendKeepsBank, LockProxyAssumption
    DEF MsgSend, Signer, Holder, LockProxyInv, ProxyInv
  <2>. QED
    BY <1>1, <1>2, <2>1
<1>3. CASE UNCHANGED lockProxyVars
  BY <1>1, <1>3 DEF lockProxyVars, bankVars, BankTypeOK, LockProxyInv, ProxyInv
<1>4. Signer \subseteq Account
  BY DEF Signer
<1>. QED
  BY <1>2, <1>3, <1>4, CreateLockProxyStep, CreateCoinStep, BindProxyStep, BindAssetStep,
     LockStep, ReceiveStep DEF LockProxyNext, LockProxyHandler

-----------------------------------------------------------------------------
(* The theorems *)

\* A chain starts without proxies, bindings and messages.
LEMMA LockProxyInitInvariant ==
    ASSUME LockProxyInit
    PROVE  LockProxyInv
<1>1. CcmInv
  BY CcmInitInvariant DEF LockProxyInit
<1>2. BankTypeOK
  BY BankAssumption DEF LockProxyInit, CcmInit, BankInit, BankTypeOK
<1>3. /\ lockProxies = {} /\ crossChainTxs = {}
      /\ DOMAIN proxyHash = {} /\ DOMAIN assetHash = {}
  BY DEF LockProxyInit, CcmInit
<1>. QED
  BY <1>1, <1>2, <1>3 DEF LockProxyInv, ProxyInv, BindingsHaveProxies

\* The handlers keep the invariant of ccm and that of lockproxy together.
THEOREM LockProxyInvariance == LockProxySpec => []LockProxyInv
<1>1. LockProxyInit => LockProxyInv
  BY LockProxyInitInvariant
<1>2. LockProxyInv /\ [LockProxyNext]_lockProxyVars => LockProxyInv'
  BY LockProxyStep
<1>. QED
  BY <1>1, <1>2, PTL DEF LockProxySpec

\* The stores of lockproxy, ccm and bank hold values of their types; no balance
\* and no total is ever negative.
THEOREM LockProxyTypeCorrect == LockProxySpec => []LockProxyTypeOK
<1>1. LockProxyInv => LockProxyTypeOK
  BY DEF LockProxyInv, ProxyInv, CcmInv, LockProxyTypeOK
<1>. QED
  BY <1>1, LockProxyInvariance, PTL

\* Bindings belong to created proxies, and every message sent names one of them
\* (Lock, keeper.go:187-234, does not check that the proxy exists).
THEOREM BoundProxies == LockProxySpec => []BindingsHaveProxies
<1>1. LockProxyInv => BindingsHaveProxies
  BY DEF LockProxyInv, ProxyInv
<1>. QED
  BY <1>1, LockProxyInvariance, PTL

\* Only a message of the bound contract takes coins out of the module account:
\* each other handler pays into it or leaves it alone.
LEMMA ReleaseStep ==
    ASSUME LockProxyInv, [LockProxyNext]_lockProxyVars
    PROVE  Release
<1>. SUFFICES ASSUME NEW d \in Denom,
                     balance'[LockProxyModule][d] < balance[LockProxyModule][d]
              PROVE  \E m \in UnlockMsg :
                         /\ executed' = Append(executed, m)
                         /\ m.toContract \in lockProxies
                         /\ m.fromContract = proxyHash[<<m.toContract, m.fromChainId>>]
                         /\ <<m.toContract, d, m.fromChainId>> \in DOMAIN assetHash
                         /\ balance[LockProxyModule][d] - balance'[LockProxyModule][d]
                                = m.args.amount
  BY DEF Release
<1>1. /\ BankTypeOK
      /\ LockProxyModule \in Module /\ LockProxyModule \in Holder
      /\ Account \subseteq Holder /\ LockProxyModule \notin Account
      /\ Signer \subseteq Account /\ Amounts \subseteq Nat
  BY BankAssumption, LockProxyAssumption DEF LockProxyInv, ProxyInv, Holder, Signer
<1>2. balance[LockProxyModule][d] \in Nat
  BY <1>1 DEF BankTypeOK
<1>3. ASSUME UNCHANGED balance PROVE FALSE
  BY <1>2, <1>3
<1>4. ASSUME NEW from \in Account, NEW to \in Holder, NEW e \in Denom, NEW n \in Amounts,
             SendCoins(from, to, e, n)
      PROVE  FALSE
  BY <1>1, <1>4, SendEffect
<1>5. CASE \E creator \in Signer : CreateLockProxy(creator)
  BY <1>3, <1>5 DEF CreateLockProxy, bankVars
<1>6. CASE \E creator \in Signer, proxy \in Account \cup {NoAddr}, e \in Denom, n \in Amounts :
               CreateCoinAndDelegateToProxy(creator, e, n, proxy)
  <2>1. PICK e \in Denom, n \in Amounts : MintCoins(LockProxyModule, e, n)
    BY <1>6 DEF CreateCoinAndDelegateToProxy
  <2>2. balance' = [balance EXCEPT ![LockProxyModule] =
                        [balance[LockProxyModule] EXCEPT ![e] = balance[LockProxyModule][e] + n]]
    BY <1>1, <2>1 DEF BankTypeOK, MintCoins, Credited
  <2>3. balance'[LockProxyModule][d] =
            IF e = d THEN balance[LockProxyModule][d] + n ELSE balance[LockProxyModule][d]
    BY <1>1, <2>2 DEF BankTypeOK
  <2>4. n \in Nat
    BY <1>1
  <2>5. ~ balance'[LockProxyModule][d] < balance[LockProxyModule][d]
    <3>1. CASE e = d
      <4>1. \A x \in Nat : ~ x + n < x
        BY <2>4
      <4>. QED
        BY <1>2, <2>3, <3>1, <4>1
    <3>2. CASE e # d
      BY <1>2, <2>3, <3>2
    <3>. QED
      BY <3>1, <3>2
  <2>. QED
    BY <2>5
<1>7. CASE \E operator \in Signer, c \in RemoteChain, hash \in Contract :
               BindProxyHash(operator, c, hash)
  BY <1>3, <1>7 DEF BindProxyHash, bankVars
<1>8. CASE \E operator \in Signer, e \in Denom, c \in RemoteChain, hash \in Asset :
               BindAssetHash(operator, e, c, hash)
  BY <1>3, <1>8 DEF BindAssetHash, bankVars
<1>9. CASE \E from \in Signer, proxy \in Account, e \in Denom, c \in RemoteChain,
               to \in Holder, n \in Amounts : Lock(proxy, from, e, c, to, n)
  BY <1>1, <1>4, <1>9 DEF Lock
<1>10. CASE \E m \in UnlockMsg : ReceiveUnlock(m)
  <2>1. PICK m \in UnlockMsg : ReceiveUnlock(m)
    BY <1>10
  <2>2. /\ executed' = Append(executed, m)
        /\ <<m.toContract, m.fromChainId>> \in DOMAIN proxyHash
        /\ m.fromContract = proxyHash[<<m.toContract, m.fromChainId>>]
        /\ <<m.toContract, m.args.toAssetHash, m.fromChainId>> \in DOMAIN assetHash
        /\ SendCoins(LockProxyModule, m.args.toAddress, m.args.toAssetHash, m.args.amount)
    BY <2>1 DEF ReceiveUnlock, ExecuteMessage, Unlock, ContainToContractAddr
  <2>3. m.args.toAssetHash \in Denom
    BY <2>2 DEF LockProxyInv, ProxyInv
  <2>4. m.args.toAddress \in Holder /\ m.args.amount \in Nat
    BY <1>1, LockProxyAssumption DEF Args
  <2>5. /\ d = m.args.toAssetHash
        /\ balance[LockProxyModule][d] - balance'[LockProxyModule][d] = m.args.amount
    BY <1>1, <2>2, <2>3, <2>4, SendEffect
  <2>6. m.toContract \in lockProxies
    BY <2>2 DEF LockProxyInv, ProxyInv, BindingsHaveProxies
  <2>. QED
    BY <2>2, <2>5, <2>6
<1>11. CASE \E from \in Signer, to \in Account, e \in Denom, n \in Amounts :
                MsgSend(from, to, e, n) /\ UNCHANGED <<proxyVars, lockedDenom, ccmVars>>
  BY <1>1, <1>4, <1>11 DEF MsgSend
<1>12. CASE UNCHANGED lockProxyVars
  BY <1>3, <1>12 DEF lockProxyVars, bankVars
<1>. QED
  BY <1>5, <1>6, <1>7, <1>8, <1>9, <1>10, <1>11, <1>12 DEF LockProxyNext, LockProxyHandler

\* A contract releases only what the proxy it is bound to at that moment has
\* bound, once per message, and a contract that was replaced releases nothing.
THEOREM ReleasedByBound == LockProxySpec => ReleasedByBoundProxy
<1>1. LockProxyInv /\ [LockProxyNext]_lockProxyVars => [Release]_lockProxyVars
  BY ReleaseStep
<1>. QED
  BY <1>1, LockProxyInvariance, PTL DEF LockProxySpec, ReleasedByBoundProxy

-----------------------------------------------------------------------------
(* The sums *)

\* Every message sent is one of Lock's, whose denom was recorded.
LocksRecorded == \A tx \in crossChainTxs :
    tx.crossChainId \in DOMAIN lockedDenom /\ tx.param.args.amount \in Nat

\* What the sums need, next to the invariants above.
EscrowInv ==
    /\ CoinsConserved
    /\ LocksRecorded
    /\ executed \in Seq(UnlockMsg)
    /\ EscrowBacksMessages

\* Both sums are of finitely many natural numbers.
LEMMA SentIsNat ==
    ASSUME OutgoingInv, LocksRecorded, NEW d
    PROVE  Sent(d) \in Nat
<1>. DEFINE A == {t \in crossChainTxs : lockedDenom[t.crossChainId] = d}
            f == [tx \in A |-> tx.param.args.amount]
<1>1. DOMAIN f = A /\ IsFiniteSet(A) /\ \A tx \in A : f[tx] \in Nat
  BY MessagesFinite, FS_Subset DEF LocksRecorded
<1>2. Sent(d) = SumFunction(f)
  BY DEF Sent
<1>. HIDE DEF f
<1>. QED
  BY <1>1, <1>2, SumNat

LEMMA ReleasedIsNat ==
    ASSUME executed \in Seq(UnlockMsg), NEW d
    PROVE  Released(d) \in Nat
<1>. DEFINE A == {j \in DOMAIN executed : /\ executed[j].args.toAssetHash = d
                                          /\ executed[j].args.toAddress # LockProxyModule}
            f == [i \in A |-> executed[i].args.amount]
<1>1. IsFiniteSet(DOMAIN executed)
  BY FS_Interval
<1>2. \A i \in DOMAIN executed : executed[i].args.amount \in Nat
  <2>1. \A i \in DOMAIN executed : executed[i] \in UnlockMsg
    OBVIOUS
  <2>. QED
    BY <2>1, LockProxyAssumption DEF Args
<1>3. DOMAIN f = A /\ IsFiniteSet(A) /\ \A i \in A : f[i] \in Nat
  BY <1>1, <1>2, FS_Subset
<1>4. Released(d) = SumFunction(f)
  BY DEF Released
<1>. HIDE DEF f, A
<1>. QED
  BY <1>3, <1>4, SumNat

\* A message sent counts for the denom that is recorded with it.
LEMMA SentAfterLock ==
    ASSUME OutgoingInv, LocksRecorded, NEW e, NEW r, r.args.amount \in Nat,
           CreateCrossChainTx(r), lockedDenom' = Put(lockedDenom, IdBytes[crossChainId], e),
           NEW d
    PROVE  /\ LocksRecorded'
           /\ Sent(d) \in Int
           /\ Sent(d)' = Sent(d) + (IF e = d THEN r.args.amount ELSE 0)
<1>. DEFINE new == NewTx(r)
            A == {t \in crossChainTxs : lockedDenom[t.crossChainId] = d}
            B == {t \in crossChainTxs' : lockedDenom'[t.crossChainId] = d}
            f == [tx \in A |-> tx.param.args.amount]
            g == [tx \in B |-> tx.param.args.amount]
<1>1. /\ crossChainTxs' = crossChainTxs \cup {new} /\ new \notin crossChainTxs
      /\ new.crossChainId = IdBytes[crossChainId] /\ new.param = r
      /\ \A tx \in crossChainTxs : tx.crossChainId # IdBytes[crossChainId]
  BY CreateStores DEF NewTx
<1>. HIDE DEF new
<1>2. /\ lockedDenom'[new.crossChainId] = e
      /\ \A tx \in crossChainTxs :
             lockedDenom'[tx.crossChainId] = lockedDenom[tx.crossChainId]
      /\ LocksRecorded'
  BY <1>1 DEF Put, LocksRecorded
<1>3. IsFiniteSet(A) /\ new \notin A /\ \A tx \in A : tx.param.args.amount \in Nat
  BY <1>1, MessagesFinite, FS_Subset DEF LocksRecorded
<1>4. B = IF e = d THEN A \cup {new} ELSE A
  BY <1>1, <1>2
<1>5. Sent(d) = SumFunction(f) /\ Sent(d)' = SumFunction(g)
  BY DEF Sent
<1>. HIDE DEF A, B
<1>6. Sent(d) \in Int
  BY SentIsNat
<1>7. CASE e = d
  <2>1. /\ DOMAIN f = A /\ DOMAIN g = A \cup {new} /\ g[new] = r.args.amount
        /\ \A tx \in A : f[tx] \in Int /\ g[tx] = f[tx]
    BY <1>1, <1>3, <1>4, <1>7
  <2>. HIDE DEF f, g
  <2>. QED
    BY <1>2, <1>3, <1>5, <1>6, <1>7, <2>1, SumExtends
<1>8. CASE e # d
  <2>1. f = g
    BY <1>4, <1>8
  <2>. QED
    BY <1>2, <1>5, <1>6, <1>8, <2>1
<1>. QED
  BY <1>7, <1>8

\* A message that takes coins out counts for the asset it names.
LEMMA ReleasedAfterUnlock ==
    ASSUME IncomingInv, executed \in Seq(UnlockMsg), NEW m \in UnlockMsg, ExecuteMessage(m), NEW d
    PROVE  /\ executed' \in Seq(UnlockMsg)
           /\ Released(d) \in Int
           /\ Released(d)' = Released(d)
                  + (IF m.args.toAssetHash = d /\ m.args.toAddress # LockProxyModule
                     THEN m.args.amount ELSE 0)
<1>. DEFINE n == Len(executed)
            Counts(w) == w.args.toAssetHash = d /\ w.args.toAddress # LockProxyModule
            A == {j \in DOMAIN executed : Counts(executed[j])}
            B == {j \in DOMAIN executed' : Counts(executed'[j])}
            f == [i \in A |-> executed[i].args.amount]
            g == [i \in B |-> executed'[i].args.amount]
<1>1. /\ n \in Nat /\ n + 1 \notin 1..n
      /\ DOMAIN executed = 1..n /\ IsFiniteSet(DOMAIN executed)
      /\ DOMAIN executed' = 1..n \cup {n + 1}
      /\ executed'[n + 1] = m
      /\ \A i \in 1..n : executed'[i] = executed[i]
  BY ExecuteAppends DEF UnlockMsg
<1>2. executed' \in Seq(UnlockMsg)
  BY DEF ExecuteMessage
<1>3. \A w \in UnlockMsg : w.args.amount \in Nat
  BY LockProxyAssumption DEF Args
<1>4. \A i \in 1..n : executed[i] \in UnlockMsg
  OBVIOUS
<1>5. Released(d) = SumFunction(f) /\ Released(d)' = SumFunction(g)
  BY DEF Released
<1>. HIDE DEF n
<1>6. IsFiniteSet(A) /\ A \subseteq 1..n
  BY <1>1, FS_Subset
<1>7. B = IF Counts(m) THEN A \cup {n + 1} ELSE A
  BY <1>1
<1>. HIDE DEF A, B, Counts
<1>8. Released(d) \in Int
  BY ReleasedIsNat
<1>9. CASE Counts(m)
  <2>. DEFINE last == n + 1
  <2>1. /\ DOMAIN f = A /\ IsFiniteSet(A) /\ DOMAIN g = A \cup {last} /\ last \notin A
        /\ g[last] = m.args.amount /\ g[last] \in Int
        /\ \A i \in A : f[i] \in Int /\ g[i] = f[i]
    BY <1>1, <1>3, <1>4, <1>6, <1>7, <1>9
  <2>. HIDE DEF f, g, last
  <2>2. SumFunction(g) = SumFunction(f) + g[last]
    BY <2>1, SumExtends
  <2>. QED
    BY <1>2, <1>5, <1>8, <1>9, <2>1, <2>2 DEF Counts
<1>10. CASE ~ Counts(m)
  <2>1. f = g
    BY <1>1, <1>6, <1>7, <1>10
  <2>. HIDE DEF f, g
  <2>2. Released(d)' = Released(d)
    BY <1>5, <2>1
  <2>. QED
    BY <1>2, <1>8, <1>10, <2>2, SMTT(30) DEF Counts
<1>. QED
  BY <1>9, <1>10

\* What the terms of the equation are.
LEMMA EscrowTerms ==
    ASSUME LockProxyInv, NEW d \in Denom
    PROVE  /\ balance[LockProxyModule][d] \in Nat /\ supply[d] \in Nat
           /\ GenesisBalance[LockProxyModule][d] \in Nat /\ GenesisSupply[d] \in Nat
<1>1. LockProxyModule \in Holder
  BY LockProxyAssumption DEF Holder
<1>. QED
  BY <1>1, BankAssumption DEF LockProxyInv, ProxyInv, BankTypeOK

\* What neither sends nor releases anything and leaves the bank alone keeps it.
LEMMA FrameEscrow ==
    ASSUME EscrowInv, UNCHANGED <<lockedDenom, crossChainTxs, executed, balance, supply>>
    PROVE  EscrowInv'
BY DEF EscrowInv, CoinsConserved, TotalOf, LocksRecorded, EscrowBacksMessages, Sent, Released

\* The coins of a new denom are all in the module account.
LEMMA CreateCoinEscrow ==
    ASSUME LockProxyInv, EscrowInv, NEW creator, NEW proxy, NEW e \in Denom, NEW n \in Amounts,
           CreateCoinAndDelegateToProxy(creator, e, n, proxy)
    PROVE  EscrowInv'
<1>1. /\ MintCoins(LockProxyModule, e, n)
      /\ UNCHANGED <<lockedDenom, crossChainTxs, executed>>
  BY DEF CreateCoinAndDelegateToProxy
<1>2. LockProxyModule \in Holder /\ n \in Nat /\ BankTypeOK
  BY LockProxyAssumption DEF Holder, LockProxyInv, ProxyInv
<1>3. CoinsConserved'
  BY <1>1, <1>2, MintConserves DEF EscrowInv
<1>4. LocksRecorded' /\ executed' \in Seq(UnlockMsg)
  BY <1>1 DEF EscrowInv, LocksRecorded
<1>5. ASSUME NEW d \in Denom
      PROVE  balance'[LockProxyModule][d] + Released(d)'
                 = GenesisBalance[LockProxyModule][d] + (supply'[d] - GenesisSupply[d]) + Sent(d)'
  <2>. DEFINE k == IF d = e THEN n ELSE 0
  <2>1. supply'[d] = supply[d] + k
    BY <1>1, <1>2 DEF MintCoins, BankTypeOK
  <2>2. balance'[LockProxyModule][d] = balance[LockProxyModule][d] + k
    BY <1>1, <1>2 DEF MintCoins, Credited, BankTypeOK
  <2>3. Sent(d)' = Sent(d) /\ Released(d)' = Released(d)
    BY <1>1 DEF Sent, Released
  <2>4. k \in Nat
    BY <1>2
  <2>5. Sent(d) \in Int /\ Released(d) \in Int
    BY SentIsNat, ReleasedIsNat DEF LockProxyInv, CcmInv, EscrowInv
  <2>6. balance[LockProxyModule][d] + Released(d)
            = GenesisBalance[LockProxyModule][d] + (supply[d] - GenesisSupply[d]) + Sent(d)
    BY DEF EscrowInv, EscrowBacksMessages
  <2>. HIDE DEF k
  <2>. QED
    BY <2>1, <2>2, <2>3, <2>4, <2>5, <2>6, EscrowTerms
<1>. QED
  BY <1>3, <1>4, <1>5 DEF EscrowInv, EscrowBacksMessages

\* Coins locked enter the account together with their message.
LEMMA LockEscrow ==
    ASSUME LockProxyInv, EscrowInv, NEW proxy, NEW from \in Account, NEW e \in Denom,
           NEW c, NEW to, NEW n \in Amounts, Lock(proxy, from, e, c, to, n)
    PROVE  EscrowInv'
<1>. DEFINE r == [fromContract |-> proxy, toChainId |-> c,
                  toContract |-> proxyHash[<<proxy, c>>], method |-> "unlock",
                  args |-> ToArgs(proxy, e, c, to, n)]
<1>1. /\ SendCoins(from, LockProxyModule, e, n)
      /\ CreateCrossChainTx(r)
      /\ lockedDenom' = Put(lockedDenom, IdBytes[crossChainId], e)
      /\ UNCHANGED executed
  BY DEF Lock
<1>2. r.args.amount = n
  BY DEF ToArgs
<1>. HIDE DEF r
<1>3. /\ LockProxyModule \in Holder /\ from \in Holder /\ from # LockProxyModule
      /\ n \in Nat /\ BankTypeOK
  BY LockProxyAssumption, BankAssumption DEF Holder, LockProxyInv, ProxyInv
<1>4. CoinsConserved'
  BY <1>1, <1>3, SendConserves DEF EscrowInv
<1>5. /\ OutgoingInv /\ LocksRecorded /\ executed' \in Seq(UnlockMsg)
      /\ executed \in Seq(UnlockMsg)
  BY <1>1 DEF LockProxyInv, CcmInv, EscrowInv
<1>6. \A d : /\ LocksRecorded' /\ Sent(d) \in Int
             /\ Sent(d)' = Sent(d) + (IF e = d THEN n ELSE 0)
  BY <1>1, <1>2, <1>3, <1>5, SentAfterLock
<1>7. ASSUME NEW d \in Denom
      PROVE  balance'[LockProxyModule][d] + Released(d)'
                 = GenesisBalance[LockProxyModule][d] + (supply'[d] - GenesisSupply[d]) + Sent(d)'
  <2>. DEFINE k == IF e = d THEN n ELSE 0
  <2>1. balance'[LockProxyModule][d] = balance[LockProxyModule][d] + k
    BY <1>1, <1>3, SendBalance, EscrowTerms
  <2>2. supply' = supply /\ Released(d)' = Released(d)
    BY <1>1 DEF SendCoins, Released
  <2>3. k \in Nat /\ Sent(d)' = Sent(d) + k /\ Sent(d) \in Int
    BY <1>3, <1>6
  <2>4. Released(d) \in Int
    BY <1>5, ReleasedIsNat
  <2>5. balance[LockProxyModule][d] + Released(d)
            = GenesisBalance[LockProxyModule][d] + (supply[d] - GenesisSupply[d]) + Sent(d)
    BY DEF EscrowInv, EscrowBacksMessages
  <2>. HIDE DEF k
  <2>. QED
    BY <2>1, <2>2, <2>3, <2>4, <2>5, EscrowTerms
<1>. QED
  BY <1>4, <1>5, <1>6, <1>7 DEF EscrowInv, EscrowBacksMessages

\* Coins leave it with the message that claims them, unless they come back at
\* once because the module account is the address it names.
LEMMA ReceiveEscrow ==
    ASSUME LockProxyInv, EscrowInv, NEW m \in UnlockMsg, ReceiveUnlock(m)
    PROVE  EscrowInv'
<1>. DEFINE e == m.args.toAssetHash
            to == m.args.toAddress
            n == m.args.amount
<1>1. /\ ExecuteMessage(m)
      /\ SendCoins(LockProxyModule, to, e, n)
      /\ <<m.toContract, e, m.fromChainId>> \in DOMAIN assetHash
      /\ UNCHANGED <<lockedDenom, crossChainTxs>>
  BY DEF ReceiveUnlock, Unlock
<1>2. /\ LockProxyModule \in Holder /\ to \in Holder /\ n \in Nat /\ e \in Denom
      /\ BankTypeOK
  BY <1>1, LockProxyAssumption DEF Args, Holder, LockProxyInv, ProxyInv
<1>3. CoinsConserved'
  BY <1>1, <1>2, SendConserves DEF EscrowInv
<1>4. /\ IncomingInv /\ OutgoingInv /\ LocksRecorded /\ LocksRecorded'
      /\ executed \in Seq(UnlockMsg)
  BY <1>1 DEF LockProxyInv, CcmInv, EscrowInv, LocksRecorded
<1>5. \A d : /\ executed' \in Seq(UnlockMsg) /\ Released(d) \in Int
             /\ Released(d)' = Released(d)
                                 + (IF e = d /\ to # LockProxyModule THEN n ELSE 0)
  BY <1>1, <1>4, ReleasedAfterUnlock
<1>. HIDE DEF e, to, n
<1>6. ASSUME NEW d \in Denom
      PROVE  balance'[LockProxyModule][d] + Released(d)'
                 = GenesisBalance[LockProxyModule][d] + (supply'[d] - GenesisSupply[d]) + Sent(d)'
  <2>. DEFINE k == IF e = d /\ to # LockProxyModule THEN n ELSE 0
  <2>1. balance'[LockProxyModule][d] = balance[LockProxyModule][d] - k
    BY <1>1, <1>2, SendBalance, EscrowTerms
  <2>2. supply' = supply /\ Sent(d)' = Sent(d)
    BY <1>1 DEF SendCoins, Sent
  <2>3. k \in Nat /\ Released(d)' = Released(d) + k /\ Released(d) \in Int
    BY <1>2, <1>5
  <2>4. Sent(d) \in Int
    BY <1>4, SentIsNat
  <2>5. balance[LockProxyModule][d] + Released(d)
            = GenesisBalance[LockProxyModule][d] + (supply[d] - GenesisSupply[d]) + Sent(d)
    BY DEF EscrowInv, EscrowBacksMessages
  <2>. HIDE DEF k
  <2>. QED
    BY <2>1, <2>2, <2>3, <2>4, <2>5, EscrowTerms
<1>. QED
  BY <1>3, <1>4, <1>5, <1>6 DEF EscrowInv, EscrowBacksMessages

\* Transfers between users pass the account by.
LEMMA TransferEscrow ==
    ASSUME LockProxyInv, EscrowInv, NEW from \in Account, NEW to \in Account, NEW e \in Denom,
           NEW n \in Amounts, MsgSend(from, to, e, n),
           UNCHANGED <<proxyVars, lockedDenom, ccmVars>>
    PROVE  EscrowInv'
<1>1. /\ SendCoins(from, to, e, n)
      /\ UNCHANGED <<lockedDenom, crossChainTxs, executed>>
  BY DEF MsgSend, ccmVars
<1>2. /\ LockProxyModule \in Holder /\ from \in Holder /\ to \in Holder
      /\ from # LockProxyModule /\ to # LockProxyModule
      /\ n \in Nat /\ BankTypeOK
  BY LockProxyAssumption, BankAssumption DEF Holder, LockProxyInv, ProxyInv
<1>3. CoinsConserved'
  BY <1>1, <1>2, SendConserves DEF EscrowInv
<1>4. LocksRecorded' /\ executed' \in Seq(UnlockMsg)
  BY <1>1 DEF EscrowInv, LocksRecorded
<1>5. \A d \in Denom : balance'[LockProxyModule][d] = balance[LockProxyModule][d]
  BY <1>1, <1>2, SendBalance, EscrowTerms
<1>6. \A d \in Denom : supply' = supply /\ Sent(d)' = Sent(d) /\ Released(d)' = Released(d)
  BY <1>1 DEF SendCoins, Sent, Released
<1>7. EscrowBacksMessages'
  BY <1>5, <1>6 DEF EscrowInv, EscrowBacksMessages
<1>. QED
  BY <1>3, <1>4, <1>7 DEF EscrowInv

LEMMA EscrowStep ==
    ASSUME LockProxyInv, EscrowInv, [LockProxyNext]_lockProxyVars
    PROVE  EscrowInv'
<1>1. Signer \subseteq Account
  BY DEF Signer
<1>2. CASE UNCHANGED <<lockedDenom, ccmVars, bankVars>>
  BY <1>2, FrameEscrow DEF ccmVars, bankVars
<1>3. CASE UNCHANGED lockProxyVars
  BY <1>2, <1>3 DEF lockProxyVars
<1>4. CASE LockProxyHandler
  <2>1. ASSUME NEW creator \in Signer, CreateLockProxy(creator)
        PROVE  EscrowInv'
    BY <1>2, <2>1 DEF CreateLockProxy
  <2>2. ASSUME NEW operator, NEW c, NEW hash, BindProxyHash(operator, c, hash)
        PROVE  EscrowInv'
    BY <1>2, <2>2 DEF BindProxyHash
  <2>3. ASSUME NEW operator, NEW d, NEW c, NEW hash, BindAssetHash(operator, d, c, hash)
        PROVE  EscrowInv'
    BY <1>2, <2>3 DEF BindAssetHash
  <2>. QED
    BY <1>1, <1>4, <2>1, <2>2, <2>3, CreateCoinEscrow, LockEscrow DEF LockProxyHandler
<1>. QED
  BY <1>1, <1>3, <1>4, ReceiveEscrow, TransferEscrow DEF LockProxyNext

\* At the start there are no messages, and the coins of the genesis file.
LEMMA EscrowInitInvariant ==
    ASSUME LockProxyInit
    PROVE  EscrowInv
<1>1. BankInit /\ crossChainTxs = {} /\ executed = <<>>
  BY DEF LockProxyInit, CcmInit
<1>2. CoinsConserved /\ LocksRecorded /\ executed \in Seq(UnlockMsg)
  BY <1>1, BankInitInvariant DEF LocksRecorded
<1>3. \A d : Sent(d) = 0 /\ Released(d) = 0
  BY <1>1, SumEmpty DEF Sent, Released
<1>4. LockProxyInv
  BY LockProxyInitInvariant
<1>5. EscrowBacksMessages
  BY <1>1, <1>3, <1>4, EscrowTerms DEF EscrowBacksMessages, BankInit
<1>. QED
  BY <1>2, <1>5 DEF EscrowInv

THEOREM EscrowInvariance == LockProxySpec => []EscrowInv
<1>1. LockProxyInit => EscrowInv
  BY EscrowInitInvariant
<1>2. LockProxyInv /\ EscrowInv /\ [LockProxyNext]_lockProxyVars => EscrowInv'
  BY EscrowStep
<1>. QED
  BY <1>1, <1>2, LockProxyInvariance, PTL DEF LockProxySpec

\* Every message that another chain can act on is backed by coins, whatever the
\* proxies that share the module account do (keeper.go:187-281).
THEOREM MessagesAreBacked == LockProxySpec => []EscrowBacksMessages
<1>1. EscrowInv => EscrowBacksMessages
  BY DEF EscrowInv
<1>. QED
  BY <1>1, EscrowInvariance, PTL

\* The total of a denom is what its holders have.
THEOREM LockProxyConserves == LockProxySpec => []CoinsConserved
<1>1. EscrowInv => CoinsConserved
  BY DEF EscrowInv
<1>. QED
  BY <1>1, EscrowInvariance, PTL
=============================================================================
