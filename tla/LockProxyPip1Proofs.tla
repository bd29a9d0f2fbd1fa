------------------------ MODULE LockProxyPip1Proofs ------------------------
(***************************************************************************)
(* Proofs about LockProxyPip1 for every set of accounts, contracts, assets *)
(* and messages: its types, that no balance of a registry falls below      *)
(* zero, that nonces are dense, that messages are routed by registries,    *)
(* that a registry is drawn on by its own contract alone, and that the     *)
(* balances of the registries agree with the messages and the coins.       *)
(***************************************************************************)
EXTENDS LockProxyPip1, CrossChainManagerProofs

\* What the handlers of lockproxypip1 keep, next to the invariants of ccm.  No
\* nonce is taken without an outgoing id, so the bound on ids bounds nonces.
BooksInv ==
    /\ BankTypeOK
    /\ lockProxies \subseteq Account
    /\ registry \subseteq Registry
    /\ DOMAIN books \subseteq registry
    /\ \A k \in DOMAIN books : books[k] \in Nat
    /\ nonce \in 0..crossChainId
    /\ RoutedIffRegistered
    /\ NoncesDense

Pip1Inv == CcmInv /\ BooksInv

-----------------------------------------------------------------------------
(* Coins and books *)

\* A fee and the rest are paid in two transfers, or in one without a fee.
LEMMA SendWithFeeKeepsBank ==
    ASSUME BankTypeOK, NEW from \in Holder, NEW feeTo, NEW fee \in Nat, fee > 0 => feeTo \in Holder,
           NEW to \in Holder, NEW rest \in Nat, NEW d \in Denom,
           SendWithFee(from, feeTo, fee, to, rest, d)
    PROVE  BankTypeOK'
<1>1. CASE fee = 0
  BY <1>1, SendKeepsBank DEF SendWithFee
<1>2. CASE fee # 0
  <2>. DEFINE paid == Credited(Debited(balance, from, d, fee), feeTo, d, fee)
  <2>1. /\ balance[from][d] >= fee
        /\ paid[from][d] >= rest
        /\ balance' = Credited(Debited(paid, from, d, rest), to, d, rest)
        /\ accounts' = accounts \cup {feeTo, to}
        /\ UNCHANGED supply
    BY <1>2 DEF SendWithFee
  <2>2. feeTo \in Holder
    BY <1>2
  <2>3. Debited(balance, from, d, fee) \in [Holder -> [Denom -> Nat]]
    BY <2>1, DebitedCoins DEF BankTypeOK
  <2>4. paid \in [Holder -> [Denom -> Nat]]
    BY <2>2, <2>3, CreditedCoins
  <2>. HIDE DEF paid
  <2>5. Debited(paid, from, d, rest) \in [Holder -> [Denom -> Nat]]
    BY <2>1, <2>4, DebitedCoins
  <2>6. balance' \in [Holder -> [Denom -> Nat]]
    BY <2>1, <2>5, CreditedCoins
  <2>. QED
    BY <2>1, <2>2, <2>6 DEF BankTypeOK
<1>. QED
  BY <1>1, <1>2

\* Only the registry that is written changes its balance.
LEMMA IncreaseEffect ==
    ASSUME \A j \in DOMAIN books : books[j] \in Nat,
           NEW k, NEW n \in Nat, IncreaseBalance(k, n)
    PROVE  /\ DOMAIN books' = DOMAIN books \cup {k}
           /\ \A j \in DOMAIN books' : books'[j] \in Nat
           /\ \A j \in DOMAIN books : books'[j] >= books[j]
<1>1. GetBalance(k) \in Nat /\ (k \in DOMAIN books => GetBalance(k) = books[k])
  BY DEF GetBalance
<1>. QED
  BY <1>1 DEF IncreaseBalance, Put

LEMMA DecreaseEffect ==
    ASSUME \A j \in DOMAIN books : books[j] \in Nat,
           NEW k, NEW n \in Nat, DecreaseBalance(k, n)
    PROVE  /\ DOMAIN books' = DOMAIN books \cup {k}
           /\ \A j \in DOMAIN books' : books'[j] \in Nat
           /\ \A j : j # k => GetBalance(j)' = GetBalance(j)
<1>1. GetBalance(k) \in Nat /\ GetBalance(k) - n \in Nat
  BY DEF GetBalance, DecreaseBalance
<1>2. books' = [j \in DOMAIN books \cup {k} |-> IF j = k THEN GetBalance(k) - n ELSE books[j]]
  BY DEF DecreaseBalance, Put
<1>. QED
  BY <1>1, <1>2 DEF GetBalance

-----------------------------------------------------------------------------
(* The handlers *)

\* A new registry writes the marker of its proxy and chain.
LEMMA UpdateKeepsRouting ==
    ASSUME RoutedIffRegistered, NEW k, UpdateRegistry(k)
    PROVE  RoutedIffRegistered'
<1>1. /\ registry' = registry \cup {k}
      /\ bindChainId' = bindChainId \cup {<<k.proxy, k.chain>>}
  BY DEF UpdateRegistry
<1>. QED
  BY <1>1 DEF RoutedIffRegistered

LEMMA CreateProxyStep ==
    ASSUME Pip1Inv, NEW creator \in Account, CreateLockProxy(creator)
    PROVE  Pip1Inv'
<1>1. CcmInv'
  BY FrameStep DEF Pip1Inv, CreateLockProxy
<1>2. BooksInv'
  BY DEF Pip1Inv, BooksInv, CreateLockProxy, ccmVars, bankVars, BankTypeOK,
         RoutedIffRegistered, NoncesDense, UnlocksSent
<1>. QED
  BY <1>1, <1>2 DEF Pip1Inv

\* A created coin sends a message too, which is not an unlock message.
LEMMA CreateCoinStep ==
    ASSUME Pip1Inv, NEW creator \in Account, NEW k \in Registry, NEW n \in Amounts,
           CreateCoinAndDelegateToProxy(creator, k.denom, n, k)
    PROVE  Pip1Inv'
<1>. DEFINE r == [fromContract |-> k.proxy, toChainId |-> k.chain,
                  toContract |-> k.nativeProxy, method |-> "registerAsset",
                  args |-> [assetHash |-> k.denom, nativeAssetHash |-> k.nativeAsset]]
            tx == [crossChainId |-> IdBytes[crossChainId], param |-> r]
<1>1. /\ SetDenomCreator(k.denom, creator)
      /\ UpdateRegistry(k)
      /\ MintCoins(LockProxyModule, k.denom, n)
      /\ IncreaseBalance(k, n)
      /\ CreateCrossChainTx(r)
      /\ UNCHANGED <<lockProxies, nonce, doneTx, executed>>
  BY DEF CreateCoinAndDelegateToProxy
<1>2. k \in [proxy: Proxy, denom: Denom, chain: RemoteChain,
             nativeProxy: Contract, nativeAsset: Asset]
  BY DEF Registry
<1>3. r \in LockParam
  BY <1>2 DEF LockParam, RegisterAssetTxArgs
<1>4. CcmInv'
  <2>1. OutgoingInv'
    BY <1>1, <1>3, CreateKeepsOutgoing, LockProxyPip1Assumption DEF Pip1Inv, CcmInv
  <2>2. IncomingInv'
    BY <1>1 DEF Pip1Inv, CcmInv, IncomingInv, ExecutedOnce, DoneMeansExecuted, DoneTxKey
  <2>3. denomCreator' \in [Denom -> {NoAddr} \cup Account]
    BY <1>1, <1>2 DEF Pip1Inv, CcmInv, CcmTypeOK, SetDenomCreator
  <2>. QED
    BY <2>1, <2>2, <2>3 DEF CcmInv, CcmTypeOK, IncomingInv, OutgoingInv
<1>5. n \in Nat /\ LockProxyModule \in Holder
  BY LockProxyPip1Assumption DEF Holder
<1>6. BankTypeOK'
  BY <1>1, <1>2, <1>5, MintKeepsBank DEF Pip1Inv, BooksInv
<1>7. DOMAIN books' \subseteq registry' /\ \A j \in DOMAIN books' : books'[j] \in Nat
  BY <1>1, <1>5, IncreaseEffect DEF UpdateRegistry, Pip1Inv, BooksInv
<1>8. registry' \subseteq Registry /\ RoutedIffRegistered'
  BY <1>1, UpdateKeepsRouting DEF UpdateRegistry, Pip1Inv, BooksInv
<1>9. nonce' \in 0..crossChainId'
  BY <1>1 DEF CreateCrossChainTx, Pip1Inv, BooksInv, CcmInv, CcmTypeOK
<1>10. UnlocksSent' = UnlocksSent
  <2>1. crossChainTxs' = crossChainTxs \cup {tx} /\ tx.param.method # "unlock"
    BY <1>1 DEF CreateCrossChainTx
  <2>. QED
    BY <2>1 DEF UnlocksSent
<1>11. NoncesDense'
  BY <1>1, <1>10 DEF NoncesDense, Pip1Inv, BooksInv
<1>. QED
  BY <1>1, <1>4, <1>6, <1>7, <1>8, <1>9, <1>11 DEF Pip1Inv, BooksInv

\* A sent unlock message carries the next nonce.
LEMMA SendKeepsNonces ==
    ASSUME NoncesDense, nonce \in Nat, NEW tx, tx.param.method = "unlock",
           tx.param.args.nonce = nonce + 1, nonce' = nonce + 1,
           crossChainTxs' = crossChainTxs \cup {tx}
    PROVE  NoncesDense'
<1>1. UnlocksSent' = UnlocksSent \cup {tx}
  BY DEF UnlocksSent
<1>2. {t.param.args.nonce : t \in UnlocksSent} = 1..nonce
  BY DEF NoncesDense
<1>3. {t.param.args.nonce : t \in UnlocksSent'} = (1..nonce) \cup {nonce + 1}
  BY <1>1, <1>2
<1>4. (1..nonce) \cup {nonce + 1} = 1..nonce'
  OBVIOUS
<1>5. \A t \in UnlocksSent : t.param.args.nonce # nonce + 1
  <2>1. \A t \in UnlocksSent : t.param.args.nonce \in 1..nonce
    BY <1>2
  <2>2. nonce + 1 \notin 1..nonce
    OBVIOUS
  <2>. QED
    BY <2>1, <2>2
<1>6. \A s, t \in UnlocksSent' : s.param.args.nonce = t.param.args.nonce => s = t
  BY <1>1, <1>5 DEF NoncesDense
<1>. QED
  BY <1>3, <1>4, <1>6 DEF NoncesDense

LEMMA LockStep ==
    ASSUME Pip1Inv, NEW k \in Registry, k.proxy # NoAddr, NEW from \in Account,
           NEW to \in Recipient, NEW n \in Amounts, NEW deductFeeInLock \in BOOLEAN,
           NEW fee \in Fees, NEW feeTo \in FeeAddress,
           Lock(k, from, to, n, deductFeeInLock, fee, feeTo)
    PROVE  Pip1Inv'
<1>. DEFINE deducted == Deducted(deductFeeInLock, fee)
            args == [fromAssetHash |-> k.denom, toAssetHash |-> k.nativeAsset,
                     toAddress |-> to, amount |-> n - deducted,
                     feeAmount |-> fee - deducted, feeAddress |-> feeTo,
                     fromAddress |-> from, nonce |-> nonce']
            r == [fromContract |-> k.proxy, toChainId |-> k.chain,
                  toContract |-> k.nativeProxy, method |-> "unlock", args |-> args]
            tx == [crossChainId |-> IdBytes[crossChainId], param |-> r]
<1>1. /\ k \in registry
      /\ nonce' = nonce + 1
      /\ deducted <= n
      /\ SendWithFee(from, feeTo, deducted, LockProxyModule, n - deducted, k.denom)
      /\ CreateCrossChainTx(r)
      /\ IncreaseBalance(k, n - deducted)
      /\ UNCHANGED <<lockProxies, registry, bindChainId, doneTx, denomCreator, executed>>
  BY DEF Lock, GetNextNonce
<1>2. k \in [proxy: Proxy, denom: Denom, chain: RemoteChain,
             nativeProxy: Contract, nativeAsset: Asset]
  BY DEF Registry
<1>3. /\ n \in Nat /\ deducted \in Fees /\ deducted \in Nat /\ fee - deducted \in Fees
      /\ n - deducted \in Nat /\ n - deducted \in Amounts \cup {0}
  <2>1. n \in Nat /\ fee \in Nat /\ 0 \in Fees
    BY LockProxyPip1Assumption
  <2>2. deducted = fee \/ deducted = 0
    BY DEF Deducted
  <2>3. fee - fee = 0 /\ fee - 0 = fee
    BY <2>1
  <2>4. deducted \in Fees /\ deducted \in Nat /\ fee - deducted \in Fees
    BY <2>1, <2>2, <2>3
  <2>. HIDE DEF deducted
  <2>5. n - deducted \in Nat
    BY <1>1, <2>1, <2>4
  <2>. QED
    BY <1>1, <2>1, <2>4, <2>5, LockProxyPip1Assumption
<1>. HIDE DEF deducted
<1>4. /\ crossChainId \in 0..MaxCrossChainId - 1
      /\ crossChainId' = crossChainId + 1
      /\ crossChainTxs' = crossChainTxs \cup {tx}
      /\ nonce \in 0..crossChainId
  BY <1>1, CcmAssumption DEF CreateCrossChainTx, Pip1Inv, BooksInv, CcmInv, CcmTypeOK
<1>5. nonce' \in 0..crossChainId' /\ nonce' \in 0..MaxCrossChainId /\ nonce \in Nat
  BY <1>1, <1>4, CcmAssumption
<1>6. args \in TxArgs
  <2>1. feeTo \in Holder
    BY LockProxyPip1Assumption
  <2>. QED
    BY <1>2, <1>3, <1>5 DEF TxArgs
<1>7. k.proxy \in Account
  BY <1>2 DEF Proxy
<1>8. r \in Outbound
  BY <1>2, <1>6, <1>7, LockProxyPip1Assumption DEF LockParam
<1>9. CcmInv'
  BY <1>1, <1>8, OutgoingStep DEF Pip1Inv
<1>10. from \in Holder /\ feeTo \in Holder /\ LockProxyModule \in Holder
  BY LockProxyPip1Assumption DEF Holder
<1>11. BankTypeOK'
  BY <1>1, <1>2, <1>3, <1>10, SendWithFeeKeepsBank DEF Pip1Inv, BooksInv
<1>12. DOMAIN books' \subseteq registry' /\ \A j \in DOMAIN books' : books'[j] \in Nat
  BY <1>1, <1>3, IncreaseEffect DEF Pip1Inv, BooksInv
<1>13. tx.param.method = "unlock" /\ tx.param.args.nonce = nonce + 1
  BY <1>1
<1>14. NoncesDense'
  BY <1>1, <1>4, <1>5, <1>13, SendKeepsNonces DEF Pip1Inv, BooksInv
<1>15. RoutedIffRegistered'
  BY <1>1 DEF RoutedIffRegistered, Pip1Inv, BooksInv
<1>. QED
  BY <1>1, <1>5, <1>9, <1>11, <1>12, <1>14, <1>15 DEF Pip1Inv, BooksInv

\* What an unlock message carries, when it is executed.
LEMMA UnlockFacts ==
    ASSUME Pip1Inv, NEW m \in UnlockMsg, ReceiveUnlock(m)
    PROVE  /\ m \in Inbound /\ ExecuteMessage(m)
           /\ KeyOf(m) \in registry /\ KeyOf(m).denom \in Denom
           /\ m.args.amount \in Nat
           /\ DecreaseBalance(KeyOf(m), m.args.amount)
           /\ BankTypeOK'
           /\ UNCHANGED <<lockProxies, registry, bindChainId, nonce, created,
                          crossChainId, crossChainTxs, denomCreator>>
<1>. DEFINE args == m.args
<1>1. /\ m \in Inbound /\ ExecuteMessage(m)
      /\ KeyOf(m) \in registry
      /\ args.feeAmount > 0 => args.feeAmount <= args.amount /\ args.feeAddress # NoAddr
      /\ SendWithFee(LockProxyModule, args.feeAddress, args.feeAmount,
                     args.toAddress, args.amount - args.feeAmount, args.toAssetHash)
      /\ DecreaseBalance(KeyOf(m), args.amount)
      /\ UNCHANGED <<lockProxies, registry, bindChainId, nonce, created,
                     crossChainId, crossChainTxs, denomCreator>>
  BY DEF ReceiveUnlock, Unlock, UnlockMsg
<1>2. args \in TxArgs /\ args.toAddress \in Holder
  BY LockProxyPip1Assumption
<1>3. args.amount \in Nat /\ args.feeAmount \in Nat
  BY <1>2, LockProxyPip1Assumption DEF TxArgs
<1>4. args.feeAddress \in FeeAddress \cup {NoAddr}
  BY <1>2 DEF TxArgs
<1>5. args.feeAmount > 0 => args.feeAddress \in Holder
  BY <1>1, <1>4, LockProxyPip1Assumption
<1>6. args.amount - args.feeAmount \in Nat
  BY <1>1, <1>3
<1>7. KeyOf(m).denom = args.toAssetHash /\ KeyOf(m).denom \in Denom
  BY <1>1 DEF KeyOf, RegistryKey, Registry, Pip1Inv, BooksInv
<1>8. LockProxyModule \in Holder
  BY LockProxyPip1Assumption DEF Holder
<1>. HIDE DEF args
<1>9. BankTypeOK'
  BY <1>1, <1>2, <1>3, <1>5, <1>6, <1>7, <1>8, SendWithFeeKeepsBank DEF Pip1Inv, BooksInv
<1>. QED
  BY <1>1, <1>3, <1>7, <1>9 DEF args

LEMMA ReceiveUnlockStep ==
    ASSUME Pip1Inv, NEW m \in UnlockMsg, ReceiveUnlock(m)
    PROVE  Pip1Inv'
<1>1. CcmInv'
  BY UnlockFacts, IncomingStep DEF Pip1Inv
<1>2. DOMAIN books' \subseteq registry' /\ \A j \in DOMAIN books' : books'[j] \in Nat
  <2>1. /\ m.args.amount \in Nat /\ DecreaseBalance(KeyOf(m), m.args.amount)
        /\ KeyOf(m) \in registry /\ registry' = registry
    BY UnlockFacts
  <2>2. \A j \in DOMAIN books : books[j] \in Nat
    BY DEF Pip1Inv, BooksInv
  <2>3. /\ DOMAIN books' = DOMAIN books \cup {KeyOf(m)}
        /\ \A j \in DOMAIN books' : books'[j] \in Nat
    BY <2>1, <2>2, DecreaseEffect
  <2>. QED
    BY <2>1, <2>3 DEF Pip1Inv, BooksInv
<1>. QED
  BY <1>1, <1>2, UnlockFacts
  DEF Pip1Inv, BooksInv, RoutedIffRegistered, NoncesDense, UnlocksSent

\* A message registers an asset as CreateCoinAndDelegateToProxy does.
LEMMA ReceiveRegisterStep ==
    ASSUME Pip1Inv, NEW m \in RegisterMsg, ReceiveRegisterAsset(m)
    PROVE  Pip1Inv'
<1>. DEFINE k == RegistryKey(m.toContract, m.args.assetHash, m.fromChainId,
                             m.fromContract, m.args.nativeAssetHash)
<1>1. /\ ExecuteMessage(m)
      /\ UpdateRegistry(k)
      /\ UNCHANGED <<lockProxies, books, nonce, crossChainId, crossChainTxs,
                     denomCreator, bankVars>>
  BY DEF ReceiveRegisterAsset, RegisterAsset
<1>2. m \in Inbound /\ m.args \in RegisterAssetTxArgs
  BY LockProxyPip1Assumption DEF RegisterMsg
<1>3. CcmInv'
  BY <1>1, <1>2, IncomingStep DEF Pip1Inv
<1>4. k \in Registry
  BY <1>2, LockProxyPip1Assumption DEF RegistryKey, Registry, RegisterAssetTxArgs
<1>. HIDE DEF k
<1>5. registry' = registry \cup {k} /\ RoutedIffRegistered'
  BY <1>1, UpdateKeepsRouting DEF UpdateRegistry, Pip1Inv, BooksInv
<1>. QED
  BY <1>1, <1>3, <1>4, <1>5
  DEF Pip1Inv, BooksInv, BankTypeOK, bankVars, NoncesDense, UnlocksSent

\* What touches neither the module nor ccm.
LEMMA FrameBooks ==
    ASSUME Pip1Inv, BankTypeOK', UNCHANGED <<proxyVars, ccmVars>>
    PROVE  Pip1Inv'
<1>1. CcmInv'
  BY FrameStep DEF Pip1Inv
<1>. QED
  BY <1>1 DEF Pip1Inv, BooksInv, proxyVars, ccmVars, RoutedIffRegistered, NoncesDense, UnlocksSent

\* Every step keeps the invariant: one handler of the module at a time.
LEMMA Pip1Step ==
    ASSUME Pip1Inv, [Pip1Next]_pip1Vars
    PROVE  Pip1Inv'
<1>1. CASE \E from \in Signer, to \in Account, d \in Denom, n \in Amounts :
               MsgSend(from, to, d, n) /\ UNCHANGED <<proxyVars, ccmVars>>
  <2>1. BankTypeOK'
    BY <1>1, SendKeepsBank, LockProxyPip1Assumption
    DEF MsgSend, Signer, Holder, Pip1Inv, BooksInv
  <2>. QED
    BY <1>1, <2>1, FrameBooks
<1>2. CASE UNCHANGED pip1Vars
  <2>1. BankTypeOK'
    BY <1>2 DEF pip1Vars, bankVars, BankTypeOK, Pip1Inv, BooksInv
  <2>. QED
    BY <1>2, <2>1, FrameBooks DEF pip1Vars
<1>3. CASE Pip1Handler
  BY <1>3, CreateProxyStep, CreateCoinStep, LockStep DEF Pip1Handler, Signer
<1>4. CASE \E m \in UnlockMsg : ReceiveUnlock(m)
  BY <1>4, ReceiveUnlockStep
<1>5. CASE \E m \in RegisterMsg : ReceiveRegisterAsset(m)
  BY <1>5, ReceiveRegisterStep
<1>. QED
  BY <1>1, <1>2, <1>3, <1>4, <1>5 DEF Pip1Next

-----------------------------------------------------------------------------
(* The theorems *)

\* A chain starts without registries, books and messages.
LEMMA Pip1InitInvariant ==
    ASSUME Pip1Init
    PROVE  Pip1Inv
<1>1. CcmInv
  BY CcmInitInvariant DEF Pip1Init
<1>2. BankTypeOK
  BY BankAssumption DEF Pip1Init, CcmInit, BankInit, BankTypeOK
<1>3. /\ lockProxies = {} /\ registry = {} /\ bindChainId = {} /\ DOMAIN books = {}
      /\ nonce = 0 /\ crossChainTxs = {} /\ crossChainId = 0
  BY DEF Pip1Init, CcmInit
<1>4. NoncesDense
  <2>1. UnlocksSent = {}
    BY <1>3 DEF UnlocksSent
  <2>. QED
    BY <1>3, <2>1 DEF NoncesDense
<1>. QED
  BY <1>1, <1>2, <1>3, <1>4 DEF Pip1Inv, BooksInv, RoutedIffRegistered

\* The handlers keep the invariant of ccm and that of the books together.
THEOREM Pip1Invariance == Pip1Spec => []Pip1Inv
<1>1. Pip1Init => Pip1Inv
  BY Pip1InitInvariant
<1>2. Pip1Inv /\ [Pip1Next]_pip1Vars => Pip1Inv'
  BY Pip1Step
<1>. QED
  BY <1>1, <1>2, PTL DEF Pip1Spec

\* The stores hold values of their types: no balance of a registry, a holder or
\* the module account is ever negative.
THEOREM Pip1TypeCorrect == Pip1Spec => []Pip1TypeOK
<1>1. ASSUME Pip1Inv PROVE Pip1TypeOK
  <2>1. bindChainId \subseteq Proxy \X RemoteChain
    BY <1>1 DEF Pip1Inv, BooksInv, RoutedIffRegistered, Registry
  <2>2. nonce \in 0..MaxCrossChainId
    BY <1>1, CcmAssumption DEF Pip1Inv, BooksInv, CcmInv, CcmTypeOK
  <2>. QED
    BY <1>1, <2>1, <2>2 DEF Pip1Inv, BooksInv, CcmInv, Pip1TypeOK
<1>. QED
  BY <1>1, Pip1Invariance, PTL

\* Nonces number the unlock messages sent without gaps (keeper.go:252-279).
THEOREM NoncesAreDense == Pip1Spec => []NoncesDense
<1>1. Pip1Inv => NoncesDense
  BY DEF Pip1Inv, BooksInv
<1>. QED
  BY <1>1, Pip1Invariance, PTL

\* The markers that route messages to the module agree with its registries,
\* which handlers and messages write in any order (keeper.go:78-80, 112-129).
THEOREM RoutedByRegistry == Pip1Spec => []RoutedIffRegistered
<1>1. Pip1Inv => RoutedIffRegistered
  BY DEF Pip1Inv, BooksInv
<1>. QED
  BY <1>1, Pip1Invariance, PTL

\* Only an unlock message of a registry's own contract lowers its balance.
LEMMA DrawStep ==
    ASSUME Pip1Inv, [Pip1Next]_pip1Vars
    PROVE  Draw
<1>. SUFFICES ASSUME NEW k \in DOMAIN books, books'[k] < books[k]
              PROVE  /\ \E m \in UnlockMsg : executed' = Append(executed, m) /\ KeyOf(m) = k
                     /\ \A j \in registry \ {k} : GetBalance(j)' = GetBalance(j)
  BY DEF Draw
<1>1. \A j \in DOMAIN books : books[j] \in Nat
  BY DEF Pip1Inv, BooksInv
<1>2. ASSUME UNCHANGED books PROVE FALSE
  BY <1>1, <1>2
<1>3. ASSUME NEW j, NEW n \in Nat, IncreaseBalance(j, n) PROVE FALSE
  <2>1. books'[k] \in Nat /\ books'[k] >= books[k]
    BY <1>1, <1>3, IncreaseEffect
  <2>. QED
    BY <1>1, <2>1
<1>4. CASE \E m \in UnlockMsg : ReceiveUnlock(m)
  <2>1. PICK m \in UnlockMsg : ReceiveUnlock(m)
    BY <1>4
  <2>2. /\ m.args.amount \in Nat
        /\ DecreaseBalance(KeyOf(m), m.args.amount)
        /\ executed' = Append(executed, m)
    BY <2>1, UnlockFacts DEF ExecuteMessage
  <2>3. \A j : j # KeyOf(m) => GetBalance(j)' = GetBalance(j)
    BY <1>1, <2>2, DecreaseEffect
  <2>4. k \in DOMAIN books'
    BY <1>1, <2>2, DecreaseEffect
  <2>5. GetBalance(k) = books[k] /\ GetBalance(k)' = books'[k]
    BY <2>4 DEF GetBalance
  <2>6. GetBalance(k)' # GetBalance(k)
    BY <1>1, <2>5
  <2>7. k = KeyOf(m)
    BY <2>3, <2>6
  <2>. QED
    BY <2>2, <2>3, <2>7
<1>5. CASE \E creator \in Signer : CreateLockProxy(creator)
  BY <1>2, <1>5 DEF CreateLockProxy
<1>6. CASE \E creator \in Signer, n \in Amounts, j \in Registry :
               CreateCoinAndDelegateToProxy(creator, j.denom, n, j)
  BY <1>3, <1>6, LockProxyPip1Assumption DEF CreateCoinAndDelegateToProxy
<1>7. ASSUME NEW j, NEW from, NEW to, NEW n \in Amounts, NEW deductFeeInLock \in BOOLEAN,
             NEW fee \in Fees, NEW feeTo, Lock(j, from, to, n, deductFeeInLock, fee, feeTo)
      PROVE  FALSE
  <2>1. n \in Nat /\ Deducted(deductFeeInLock, fee) \in Nat
    BY LockProxyPip1Assumption DEF Deducted
  <2>2. /\ Deducted(deductFeeInLock, fee) <= n
        /\ IncreaseBalance(j, n - Deducted(deductFeeInLock, fee))
    BY <1>7 DEF Lock
  <2>3. n - Deducted(deductFeeInLock, fee) \in Nat
    BY <2>1, <2>2
  <2>. QED
    BY <1>3, <2>2, <2>3
<1>8. CASE \E m \in RegisterMsg : ReceiveRegisterAsset(m)
  BY <1>2, <1>8 DEF ReceiveRegisterAsset
<1>9. CASE \E from \in Signer, to \in Account, d \in Denom, n \in Amounts :
               MsgSend(from, to, d, n) /\ UNCHANGED <<proxyVars, ccmVars>>
  BY <1>2, <1>9 DEF proxyVars
<1>10. CASE UNCHANGED pip1Vars
  BY <1>2, <1>10 DEF pip1Vars, proxyVars
<1>. QED
  BY <1>4, <1>5, <1>6, <1>7, <1>8, <1>9, <1>10 DEF Pip1Next, Pip1Handler

\* A registry is drawn on by one message at a time, of its own contract: what
\* was locked for one contract is never released to another.
THEOREM DrawnByOwnContract == Pip1Spec => DrawnByItsContract
<1>1. Pip1Inv /\ [Pip1Next]_pip1Vars => [Draw]_pip1Vars
  BY DrawStep
<1>. QED
  BY <1>1, Pip1Invariance, PTL DEF Pip1Spec, DrawnByItsContract
-----------------------------------------------------------------------------
(* The sums *)

\* The coins of d on the books of all registries.
Booked(d) == SumFunction([k \in {j \in DOMAIN books : j.denom = d} |-> books[k]])

\* Messages concern registered assets, and the amounts in them are numbers.
UnlocksRecorded ==
    /\ \A tx \in UnlocksSent : KeyOfSent(tx) \in registry /\ tx.param.args.amount \in Nat
    /\ \A i \in DOMAIN executed : executed[i].method = "unlock" =>
           KeyOf(executed[i]) \in registry /\ executed[i].args.amount \in Nat
    /\ DOMAIN created \subseteq registry
    /\ \A k \in DOMAIN created : created[k] \in Nat

\* What the sums need, next to the invariants above.
AccountsInv ==
    /\ CoinsConserved
    /\ IsFiniteSet(DOMAIN books)
    /\ EscrowCoversBooks
    /\ UnlocksRecorded
    /\ BooksMatchMessages

\* What a holder has after a fee and the rest are paid.
LEMMA SendWithFeeBalance ==
    ASSUME BankTypeOK, NEW from \in Holder, NEW feeTo, NEW fee \in Nat, fee > 0 => feeTo \in Holder,
           NEW to \in Holder, NEW rest \in Nat, NEW d \in Denom,
           SendWithFee(from, feeTo, fee, to, rest, d),
           NEW h \in Holder, NEW x \in Denom
    PROVE  balance'[h][x] = balance[h][x] - (IF h = from /\ x = d THEN fee + rest ELSE 0)
                                          + (IF h = feeTo /\ x = d THEN fee ELSE 0)
                                          + (IF h = to /\ x = d THEN rest ELSE 0)
<1>. DEFINE was == balance[h][x]
<1>1. balance \in [Holder -> [Denom -> Nat]] /\ was \in Nat
  BY DEF BankTypeOK
<1>2. CASE fee = 0
  <2>1. balance'[h][x] = was - (IF h = from /\ x = d THEN rest ELSE 0)
                             + (IF h = to /\ x = d THEN rest ELSE 0)
    BY <1>2, SendBalance DEF SendWithFee
  <2>. QED
    BY <1>1, <1>2, <2>1
<1>3. CASE fee # 0
  <2>. DEFINE b1 == Debited(balance, from, d, fee)
              b2 == Credited(b1, feeTo, d, fee)
              b3 == Debited(b2, from, d, rest)
  <2>1. /\ b2[from][d] >= rest /\ balance[from][d] >= fee
        /\ balance' = Credited(b3, to, d, rest)
        /\ feeTo \in Holder
    BY <1>3 DEF SendWithFee
  <2>2. b1 \in [Holder -> [Denom -> Nat]]
    BY <1>1, <2>1, DebitedCoins
  <2>3. b1[h][x] = IF h = from /\ x = d THEN was - fee ELSE was
    BY <1>1 DEF Debited
  <2>. HIDE DEF b1
  <2>4. b2 \in [Holder -> [Denom -> Nat]]
    BY <2>1, <2>2, CreditedCoins
  <2>5. b2[h][x] = IF h = feeTo /\ x = d THEN b1[h][x] + fee ELSE b1[h][x]
    BY <2>1, <2>2 DEF Credited
  <2>. HIDE DEF b2
  <2>6. b3 \in [Holder -> [Denom -> Nat]]
    BY <2>1, <2>4, DebitedCoins
  <2>7. b3[h][x] = IF h = from /\ x = d THEN b2[h][x] - rest ELSE b2[h][x]
    BY <2>4 DEF Debited
  <2>. HIDE DEF b3
  <2>8. balance'[h][x] = IF h = to /\ x = d THEN b3[h][x] + rest ELSE b3[h][x]
    BY <2>1, <2>6 DEF Credited
  <2>9. b1[h][x] \in Nat /\ b2[h][x] \in Nat /\ b3[h][x] \in Nat
    BY <2>2, <2>4, <2>6
  <2>. HIDE DEF was
  <2>. QED
    BY <1>1, <2>3, <2>5, <2>7, <2>8, <2>9 DEF was
<1>. QED
  BY <1>2, <1>3

LEMMA SendWithFeeConserves ==
    ASSUME BankTypeOK, CoinsConserved, NEW from \in Holder, NEW feeTo, NEW fee \in Nat,
           fee > 0 => feeTo \in Holder, NEW to \in Holder, NEW rest \in Nat, NEW d \in Denom,
           SendWithFee(from, feeTo, fee, to, rest, d)
    PROVE  CoinsConserved'
<1>1. balance \in [Holder -> [Denom -> Nat]] /\ supply \in [Denom -> Nat]
  BY DEF BankTypeOK
<1>2. CASE fee = 0
  BY <1>2, SendConserves DEF SendWithFee
<1>3. CASE fee # 0
  <2>. DEFINE b1 == Debited(balance, from, d, fee)
              b2 == Credited(b1, feeTo, d, fee)
              b3 == Debited(b2, from, d, rest)
  <2>1. /\ b2[from][d] >= rest /\ balance[from][d] >= fee
        /\ balance' = Credited(b3, to, d, rest)
        /\ feeTo \in Holder /\ supply' = supply
    BY <1>3 DEF SendWithFee
  <2>2. b1 \in [Holder -> [Denom -> Nat]]
    BY <1>1, <2>1, DebitedCoins
  <2>3. ASSUME NEW x \in Denom
        PROVE  /\ TotalOf(balance, x) \in Int
               /\ TotalOf(b1, x) = TotalOf(balance, x) - (IF x = d THEN fee ELSE 0)
    BY <1>1, <2>1, DebitedTotal
  <2>. HIDE DEF b1
  <2>4. b2 \in [Holder -> [Denom -> Nat]]
    BY <2>1, <2>2, CreditedCoins
  <2>5. ASSUME NEW x \in Denom
        PROVE  TotalOf(b2, x) = TotalOf(b1, x) + (IF x = d THEN fee ELSE 0)
    BY <2>1, <2>2, CreditedTotal
  <2>. HIDE DEF b2
  <2>6. b3 \in [Holder -> [Denom -> Nat]]
    BY <2>1, <2>4, DebitedCoins
  <2>7. ASSUME NEW x \in Denom
        PROVE  TotalOf(b3, x) = TotalOf(b2, x) - (IF x = d THEN rest ELSE 0)
    BY <2>1, <2>4, DebitedTotal
  <2>. HIDE DEF b3
  <2>8. ASSUME NEW x \in Denom
        PROVE  TotalOf(Credited(b3, to, d, rest), x) = TotalOf(b3, x) + (IF x = d THEN rest ELSE 0)
    BY <2>6, CreditedTotal
  <2>9. ASSUME NEW x \in Denom PROVE supply'[x] = TotalOf(balance', x)
    <3>1. TotalOf(balance', x) = TotalOf(b3, x) + (IF x = d THEN rest ELSE 0)
      BY <2>1, <2>8
    <3>. QED
      BY <2>1, <2>3, <2>5, <2>7, <3>1 DEF CoinsConserved
  <2>. QED
    BY <2>9 DEF CoinsConserved, TotalOf
<1>. QED
  BY <1>2, <1>3

\* What a write to the books makes of a registry's balance and of the sum.
LEMMA BooksAfter ==
    ASSUME \A j \in DOMAIN books : books[j] \in Nat, IsFiniteSet(DOMAIN books),
           NEW k, NEW v \in Nat, books' = Put(books, k, v)
    PROVE  /\ IsFiniteSet(DOMAIN books')
           /\ \A j : GetBalance(j) \in Nat /\ GetBalance(j)' = IF j = k THEN v ELSE GetBalance(j)
           /\ \A d : /\ Booked(d) \in Int
                     /\ Booked(d)' = Booked(d) + (IF k.denom = d THEN v - GetBalance(k) ELSE 0)
<1>1. /\ DOMAIN books' = DOMAIN books \cup {k}
      /\ books' = [j \in DOMAIN books \cup {k} |-> IF j = k THEN v ELSE books[j]]
  BY DEF Put
<1>2. IsFiniteSet(DOMAIN books')
  BY <1>1, FS_AddElement
<1>3. \A j : GetBalance(j) \in Nat /\ GetBalance(j)' = IF j = k THEN v ELSE GetBalance(j)
  BY <1>1 DEF GetBalance
<1>4. ASSUME NEW d
      PROVE  /\ Booked(d) \in Int
             /\ Booked(d)' = Booked(d) + (IF k.denom = d THEN v - GetBalance(k) ELSE 0)
  <2>. DEFINE A == {j \in DOMAIN books : j.denom = d}
              B == {j \in DOMAIN books' : j.denom = d}
              f == [j \in A |-> books[j]]
              g == [j \in B |-> books'[j]]
  <2>1. Booked(d) = SumFunction(f) /\ Booked(d)' = SumFunction(g)
    BY DEF Booked
  <2>2. DOMAIN f = A /\ IsFiniteSet(A) /\ \A j \in A : f[j] \in Nat
    BY FS_Subset
  <2>3. Booked(d) \in Int
    <3>. HIDE DEF f, A
    <3>1. SumFunction(f) \in Nat
      BY <2>2, SumNat
    <3>. QED
      BY <2>1, <3>1
  <2>4. CASE k.denom # d
    <3>1. A = B /\ \A j \in A : books'[j] = books[j]
      BY <1>1, <2>4
    <3>2. f = g
      BY <3>1
    <3>. QED
      BY <2>1, <2>3, <2>4, <3>2
  <2>5. CASE k.denom = d /\ k \in DOMAIN books
    <3>1. /\ DOMAIN f = A /\ IsFiniteSet(DOMAIN f) /\ DOMAIN g = DOMAIN f /\ k \in DOMAIN f
          /\ \A j \in DOMAIN f : f[j] \in Int /\ (j # k => g[j] = f[j])
          /\ g[k] = v /\ g[k] \in Int /\ f[k] = GetBalance(k)
      BY <1>1, <2>2, <2>5 DEF GetBalance
    <3>. HIDE DEF f, g, A, B
    <3>2. SumFunction(g) = SumFunction(f) + (g[k] - f[k])
      BY <3>1, SumChanges
    <3>. QED
      BY <2>1, <2>3, <2>5, <3>1, <3>2
  <2>6. CASE k.denom = d /\ k \notin DOMAIN books
    <3>1. /\ DOMAIN f = A /\ IsFiniteSet(DOMAIN f) /\ DOMAIN g = DOMAIN f \cup {k} /\ k \notin DOMAIN f
          /\ \A j \in DOMAIN f : f[j] \in Int /\ g[j] = f[j]
          /\ g[k] = v /\ g[k] \in Int /\ GetBalance(k) = 0
      BY <1>1, <2>2, <2>6 DEF GetBalance
    <3>. HIDE DEF f, g, A, B
    <3>2. SumFunction(g) = SumFunction(f) + g[k]
      BY <3>1, SumExtends
    <3>. QED
      BY <2>1, <2>3, <2>6, <3>1, <3>2
  <2>. QED
    BY <2>4, <2>5, <2>6
<1>. QED
  BY <1>2, <1>3, <1>4

\* Both sums are of finitely many natural numbers.
LEMMA SumsAreNat ==
    ASSUME CcmInv, UnlocksRecorded, NEW k
    PROVE  Sent(k) \in Nat /\ Released(k) \in Nat
<1>. DEFINE A == {t \in UnlocksSent : KeyOfSent(t) = k}
            f == [tx \in A |-> tx.param.args.amount]
            B == {j \in DOMAIN executed : executed[j].method = "unlock" /\ KeyOf(executed[j]) = k}
            g == [i \in B |-> executed[i].args.amount]
<1>1. IsFiniteSet(UnlocksSent) /\ IsFiniteSet(DOMAIN executed)
  BY MessagesFinite, FS_Interval, FS_Subset DEF CcmInv, IncomingInv, UnlocksSent
<1>2. DOMAIN f = A /\ IsFiniteSet(A) /\ \A tx \in A : f[tx] \in Nat
  BY <1>1, FS_Subset DEF UnlocksRecorded
<1>3. DOMAIN g = B /\ IsFiniteSet(B) /\ \A i \in B : g[i] \in Nat
  BY <1>1, FS_Subset DEF UnlocksRecorded
<1>4. Sent(k) = SumFunction(f) /\ Released(k) = SumFunction(g)
  BY DEF Sent, Released
<1>. HIDE DEF f, A, g, B
<1>. QED
  BY <1>2, <1>3, <1>4, SumNat

\* No message concerns an asset that is not registered.
LEMMA NothingUnlocked ==
    ASSUME UnlocksRecorded, NEW k, k \notin registry
    PROVE  Sent(k) = 0 /\ Released(k) = 0 /\ k \notin DOMAIN created
<1>1. /\ {t \in UnlocksSent : KeyOfSent(t) = k} = {}
      /\ {j \in DOMAIN executed : executed[j].method = "unlock" /\ KeyOf(executed[j]) = k} = {}
  BY DEF UnlocksRecorded
<1>. QED
  BY <1>1, SumEmpty DEF Sent, Released, UnlocksRecorded

\* An unlock message sent counts for the registry that it names.
LEMMA SentAfterLock ==
    ASSUME CcmInv, UnlocksRecorded, NEW r, CreateCrossChainTx(r), r.method = "unlock",
           NEW j \in registry, KeyOfSent(NewTx(r)) = j, r.args.amount \in Nat,
           UNCHANGED <<executed, registry, created>>, NEW k
    PROVE  /\ UnlocksRecorded'
           /\ Sent(k)' = Sent(k) + (IF j = k THEN r.args.amount ELSE 0)
<1>. DEFINE new == NewTx(r)
            A == {t \in UnlocksSent : KeyOfSent(t) = k}
            B == {t \in UnlocksSent' : KeyOfSent(t) = k}
            f == [tx \in A |-> tx.param.args.amount]
            g == [tx \in B |-> tx.param.args.amount]
<1>1. /\ crossChainTxs' = crossChainTxs \cup {new} /\ new \notin crossChainTxs
      /\ new.param = r /\ KeyOfSent(new) = j
  BY CreateStores DEF CcmInv
<1>. HIDE DEF new
<1>2. UnlocksSent' = UnlocksSent \cup {new} /\ new \notin UnlocksSent
  BY <1>1 DEF UnlocksSent
<1>3. UnlocksRecorded'
  <2>1. \A tx \in UnlocksSent' : KeyOfSent(tx) \in registry' /\ tx.param.args.amount \in Nat
    BY <1>1, <1>2 DEF UnlocksRecorded
  <2>. QED
    BY <2>1 DEF UnlocksRecorded
<1>4. IsFiniteSet(A) /\ new \notin A /\ \A tx \in A : tx.param.args.amount \in Nat
  <2>1. IsFiniteSet(UnlocksSent)
    BY MessagesFinite, FS_Subset DEF CcmInv, UnlocksSent
  <2>. QED
    BY <1>2, <2>1, FS_Subset DEF UnlocksRecorded
<1>5. B = IF j = k THEN A \cup {new} ELSE A
  BY <1>1, <1>2
<1>6. Sent(k) = SumFunction(f) /\ Sent(k)' = SumFunction(g) /\ Sent(k) \in Nat
  BY SumsAreNat DEF Sent
<1>. HIDE DEF A, B
<1>7. CASE j = k
  <2>1. /\ DOMAIN f = A /\ IsFiniteSet(A) /\ DOMAIN g = A \cup {new} /\ g[new] = r.args.amount
        /\ \A tx \in A : f[tx] \in Int /\ g[tx] = f[tx]
    BY <1>1, <1>4, <1>5, <1>7
  <2>. HIDE DEF f, g
  <2>2. SumFunction(g) = SumFunction(f) + g[new]
    BY <1>4, <2>1, SumExtends
  <2>. QED
    BY <1>3, <1>6, <1>7, <2>1, <2>2
<1>8. CASE j # k
  <2>1. f = g
    BY <1>5, <1>8
  <2>. QED
    BY <1>3, <1>6, <1>8, <2>1
<1>. QED
  BY <1>7, <1>8

\* An executed message counts for the registry that it draws on, if it does.
LEMMA ReleasedAfterMessage ==
    ASSUME CcmInv, UnlocksRecorded, NEW m \in Inbound, ExecuteMessage(m),
           m.method = "unlock" => KeyOf(m) \in registry /\ m.args.amount \in Nat,
           registry \subseteq registry', UNCHANGED <<crossChainTxs, created>>, NEW k
    PROVE  /\ UnlocksRecorded'
           /\ Released(k)' = Released(k)
                  + (IF m.method = "unlock" /\ KeyOf(m) = k THEN m.args.amount ELSE 0)
<1>. DEFINE n == Len(executed)
            Counts(w) == w.method = "unlock" /\ KeyOf(w) = k
            A == {j \in DOMAIN executed : Counts(executed[j])}
            B == {j \in DOMAIN executed' : Counts(executed'[j])}
            f == [i \in A |-> executed[i].args.amount]
            g == [i \in B |-> executed'[i].args.amount]
<1>1. /\ n \in Nat /\ n + 1 \notin 1..n
      /\ DOMAIN executed = 1..n /\ IsFiniteSet(DOMAIN executed)
      /\ DOMAIN executed' = 1..n \cup {n + 1}
      /\ executed'[n + 1] = m
      /\ \A i \in 1..n : executed'[i] = executed[i]
  BY ExecuteAppends DEF CcmInv
<1>. HIDE DEF n
<1>2. UnlocksRecorded'
  <2>1. \A i \in DOMAIN executed' : executed'[i].method = "unlock" =>
            KeyOf(executed'[i]) \in registry' /\ executed'[i].args.amount \in Nat
    BY <1>1 DEF UnlocksRecorded
  <2>2. UnlocksSent' = UnlocksSent
    BY DEF UnlocksSent
  <2>. QED
    BY <2>1, <2>2 DEF UnlocksRecorded
<1>3. Released(k) = SumFunction(f) /\ Released(k)' = SumFunction(g) /\ Released(k) \in Nat
  BY SumsAreNat DEF Released
<1>4. IsFiniteSet(A) /\ A \subseteq 1..n /\ \A i \in A : executed[i].args.amount \in Nat
  BY <1>1, FS_Subset DEF UnlocksRecorded
<1>5. B = IF Counts(m) THEN A \cup {n + 1} ELSE A
  <2>. HIDE DEF Counts
  <2>. QED
    BY <1>1
<1>6. CASE Counts(m)
  <2>. DEFINE last == n + 1
  <2>1. m.args.amount \in Nat
    BY <1>6
  <2>. HIDE DEF A, B, Counts
  <2>2. /\ DOMAIN f = A /\ IsFiniteSet(A) /\ DOMAIN g = A \cup {last} /\ last \notin A
        /\ g[last] = m.args.amount /\ g[last] \in Int
        /\ \A i \in A : f[i] \in Int /\ g[i] = f[i]
    BY <1>1, <1>4, <1>5, <1>6, <2>1
  <2>. HIDE DEF f, g, last
  <2>3. SumFunction(g) = SumFunction(f) + g[last]
    BY <2>2, SumExtends
  <2>. QED
    BY <1>2, <1>3, <1>6, <2>2, <2>3 DEF Counts
<1>7. CASE ~ Counts(m)
  <2>. HIDE DEF A, B, Counts
  <2>1. f = g
    BY <1>1, <1>4, <1>5, <1>7
  <2>. QED
    BY <1>2, <1>3, <1>7, <2>1 DEF Counts
<1>. QED
  BY <1>6, <1>7

\* What a handler changes of neither books, messages nor registries.
LEMMA FrameAccounts ==
    ASSUME AccountsInv, CoinsConserved',
           UNCHANGED <<registry, books, created, crossChainTxs, executed>>,
           \A d \in Denom : balance'[LockProxyModule][d] = balance[LockProxyModule][d]
    PROVE  AccountsInv'
<1>1. /\ \A d : Booked(d)' = Booked(d)
      /\ \A k : Sent(k)' = Sent(k) /\ Released(k)' = Released(k) /\ GetBalance(k)' = GetBalance(k)
      /\ UnlocksSent' = UnlocksSent
  BY DEF Booked, Sent, Released, GetBalance, UnlocksSent
<1>2. UnlocksRecorded'
  BY <1>1 DEF AccountsInv, UnlocksRecorded
<1>3. EscrowCoversBooks' /\ BooksMatchMessages'
  BY <1>1 DEF AccountsInv, EscrowCoversBooks, Booked, BooksMatchMessages
<1>. QED
  BY <1>2, <1>3 DEF AccountsInv

\* A new registry has no messages yet, and starts with the coins created for it.
LEMMA CreateCoinAccounts ==
    ASSUME Pip1Inv, AccountsInv, NEW creator \in Account, NEW k \in Registry, NEW n \in Amounts,
           CreateCoinAndDelegateToProxy(creator, k.denom, n, k)
    PROVE  AccountsInv'
<1>. DEFINE r == [fromContract |-> k.proxy, toChainId |-> k.chain,
                  toContract |-> k.nativeProxy, method |-> "registerAsset",
                  args |-> [assetHash |-> k.denom, nativeAssetHash |-> k.nativeAsset]]
<1>1. /\ k \notin registry /\ registry' = registry \cup {k}
      /\ MintCoins(LockProxyModule, k.denom, n)
      /\ books' = Put(books, k, GetBalance(k) + n)
      /\ CreateCrossChainTx(r)
      /\ created' = Put(created, k, n)
      /\ UNCHANGED executed
  BY DEF CreateCoinAndDelegateToProxy, UpdateRegistry, IncreaseBalance
<1>2. r.method # "unlock"
  OBVIOUS
<1>. HIDE DEF r
<1>3. /\ n \in Nat /\ k.denom \in Denom /\ LockProxyModule \in Holder
      /\ BankTypeOK /\ CcmInv /\ balance \in [Holder -> [Denom -> Nat]]
      /\ \A j \in DOMAIN books : books[j] \in Nat
      /\ DOMAIN books \subseteq registry
  BY LockProxyPip1Assumption DEF Registry, Holder, Pip1Inv, BooksInv, BankTypeOK
<1>4. GetBalance(k) = 0
  BY <1>1, <1>3 DEF GetBalance
<1>5. CoinsConserved'
  BY <1>1, <1>3, MintConserves DEF AccountsInv
<1>6. /\ IsFiniteSet(DOMAIN books')
      /\ \A j : GetBalance(j)' = IF j = k THEN n ELSE GetBalance(j)
      /\ \A d : /\ Booked(d) \in Int
                /\ Booked(d)' = Booked(d) + (IF k.denom = d THEN n ELSE 0)
  <2>1. books' = Put(books, k, n) /\ IsFiniteSet(DOMAIN books) /\ n - 0 = n
    BY <1>1, <1>3, <1>4 DEF AccountsInv
  <2>2. /\ IsFiniteSet(DOMAIN books')
        /\ \A j : GetBalance(j)' = IF j = k THEN n ELSE GetBalance(j)
        /\ \A d : /\ Booked(d) \in Int
                  /\ Booked(d)' = Booked(d) + (IF k.denom = d THEN n - GetBalance(k) ELSE 0)
    BY <1>3, <2>1, BooksAfter
  <2>. QED
    BY <1>4, <2>1, <2>2
<1>7. UnlocksSent' = UnlocksSent
  BY <1>1, <1>2, CreateStores DEF UnlocksSent, CcmInv, Pip1Inv
<1>8. UnlocksRecorded'
  BY <1>1, <1>3, <1>7 DEF Put, AccountsInv, UnlocksRecorded
<1>9. \A j : Sent(j)' = Sent(j) /\ Released(j)' = Released(j)
  BY <1>1, <1>7 DEF Sent, Released
<1>10. EscrowCoversBooks'
  <2>. SUFFICES ASSUME NEW d \in Denom PROVE balance'[LockProxyModule][d] >= Booked(d)'
    BY DEF EscrowCoversBooks, Booked
  <2>1. balance'[LockProxyModule][d]
            = balance[LockProxyModule][d] + (IF k.denom = d THEN n ELSE 0)
    BY <1>1, <1>3 DEF MintCoins, Credited
  <2>2. balance[LockProxyModule][d] >= Booked(d) /\ balance[LockProxyModule][d] \in Nat
    BY <1>3 DEF AccountsInv, EscrowCoversBooks, Booked
  <2>. QED
    BY <1>3, <1>6, <2>1, <2>2
<1>11. BooksMatchMessages'
  <2>1. Sent(k) = 0 /\ Released(k) = 0 /\ k \notin DOMAIN created
    BY <1>1, NothingUnlocked DEF AccountsInv
  <2>2. /\ DOMAIN created' = DOMAIN created \cup {k} /\ created'[k] = n
        /\ \A j \in DOMAIN created : created'[j] = created[j]
    BY <1>1, <2>1 DEF Put
  <2>3. GetBalance(k)' + Released(k)' = Sent(k)' + (IF k \in DOMAIN created' THEN created'[k] ELSE 0)
    BY <1>3, <1>6, <1>9, <2>1, <2>2
  <2>4. \A j \in registry :
            GetBalance(j)' + Released(j)' = Sent(j)' + (IF j \in DOMAIN created' THEN created'[j] ELSE 0)
    BY <1>1, <1>6, <1>9, <2>2 DEF AccountsInv, BooksMatchMessages
  <2>. QED
    BY <1>1, <2>3, <2>4 DEF BooksMatchMessages
<1>. QED
  BY <1>5, <1>6, <1>8, <1>10, <1>11 DEF AccountsInv

\* What is locked, without the fee, is what its message says and what the
\* registry gets; a fee for the module account itself is on no book.
LEMMA LockAccounts ==
    ASSUME Pip1Inv, AccountsInv, NEW k \in Registry, NEW from \in Account,
           NEW to, NEW n \in Amounts, NEW deductFeeInLock \in BOOLEAN,
           NEW fee \in Fees, NEW feeTo \in FeeAddress,
           Lock(k, from, to, n, deductFeeInLock, fee, feeTo)
    PROVE  AccountsInv'
<1>. DEFINE deducted == Deducted(deductFeeInLock, fee)
            rest == n - deducted
            r == [fromContract |-> k.proxy, toChainId |-> k.chain,
                  toContract |-> k.nativeProxy, method |-> "unlock",
                  args |-> [fromAssetHash |-> k.denom, toAssetHash |-> k.nativeAsset,
                            toAddress |-> to, amount |-> rest,
                            feeAmount |-> fee - deducted, feeAddress |-> feeTo,
                            fromAddress |-> from, nonce |-> nonce']]
<1>1. /\ k \in registry
      /\ deducted <= n
      /\ SendWithFee(from, feeTo, deducted, LockProxyModule, rest, k.denom)
      /\ CreateCrossChainTx(r)
      /\ books' = Put(books, k, GetBalance(k) + rest)
      /\ UNCHANGED <<registry, created, executed>>
  BY DEF Lock, IncreaseBalance
<1>2. deducted \in Nat /\ rest \in Nat
  <2>1. n \in Nat /\ deducted \in Nat
    BY LockProxyPip1Assumption DEF Deducted
  <2>. HIDE DEF deducted
  <2>. QED
    BY <1>1, <2>1
<1>3. r.method = "unlock" /\ r.args.amount = rest /\ KeyOfSent(NewTx(r)) = k
  <2>1. k = RegistryKey(k.proxy, k.denom, k.chain, k.nativeProxy, k.nativeAsset)
    BY DEF Registry, RegistryKey
  <2>2. KeyOfSent(NewTx(r)) = RegistryKey(k.proxy, k.denom, k.chain, k.nativeProxy, k.nativeAsset)
    <3>1. NewTx(r).param = r
      BY DEF NewTx
    <3>2. /\ r.fromContract = k.proxy /\ r.args.fromAssetHash = k.denom /\ r.toChainId = k.chain
          /\ r.toContract = k.nativeProxy /\ r.args.toAssetHash = k.nativeAsset
      OBVIOUS
    <3>. HIDE DEF r
    <3>. QED
      BY <3>1, <3>2 DEF KeyOfSent
  <2>. QED
    BY <2>1, <2>2
<1>. HIDE DEF r, rest, deducted
<1>4. /\ k.denom \in Denom /\ LockProxyModule \in Holder /\ from \in Holder /\ feeTo \in Holder
      /\ from # LockProxyModule
      /\ BankTypeOK /\ CcmInv /\ balance \in [Holder -> [Denom -> Nat]]
      /\ \A j \in DOMAIN books : books[j] \in Nat
  BY LockProxyPip1Assumption, BankAssumption DEF Registry, Holder, Pip1Inv, BooksInv, BankTypeOK
<1>5. CoinsConserved'
  BY <1>1, <1>2, <1>4, SendWithFeeConserves DEF AccountsInv
<1>6. /\ IsFiniteSet(DOMAIN books')
      /\ \A j : GetBalance(j) \in Nat
                /\ GetBalance(j)' = IF j = k THEN GetBalance(j) + rest ELSE GetBalance(j)
      /\ \A d : /\ Booked(d) \in Int
                /\ Booked(d)' = Booked(d) + (IF k.denom = d THEN rest ELSE 0)
  <2>. DEFINE v == GetBalance(k) + rest
  <2>1. GetBalance(k) \in Nat
    BY <1>4 DEF GetBalance
  <2>2. v \in Nat /\ v - GetBalance(k) = rest /\ v = GetBalance(k) + rest
    BY <1>2, <2>1
  <2>3. books' = Put(books, k, v) /\ IsFiniteSet(DOMAIN books)
    BY <1>1 DEF AccountsInv
  <2>. HIDE DEF v
  <2>4. /\ IsFiniteSet(DOMAIN books')
        /\ \A j : GetBalance(j) \in Nat /\ GetBalance(j)' = IF j = k THEN v ELSE GetBalance(j)
        /\ \A d : /\ Booked(d) \in Int
                  /\ Booked(d)' = Booked(d) + (IF k.denom = d THEN v - GetBalance(k) ELSE 0)
    BY <1>4, <2>2, <2>3, BooksAfter
  <2>. QED
    BY <2>2, <2>4
<1>7. \A j : /\ UnlocksRecorded' /\ Sent(j) \in Nat /\ Released(j) \in Nat
             /\ Sent(j)' = Sent(j) + (IF k = j THEN rest ELSE 0)
             /\ Released(j)' = Released(j)
  <2>1. \A j : UnlocksRecorded' /\ Sent(j)' = Sent(j) + (IF k = j THEN rest ELSE 0)
    BY <1>1, <1>2, <1>3, <1>4, SentAfterLock DEF AccountsInv
  <2>2. \A j : Released(j)' = Released(j)
    BY <1>1 DEF Released
  <2>. QED
    BY <1>4, <2>1, <2>2, SumsAreNat DEF AccountsInv
<1>8. EscrowCoversBooks'
  <2>. SUFFICES ASSUME NEW d \in Denom PROVE balance'[LockProxyModule][d] >= Booked(d)'
    BY DEF EscrowCoversBooks, Booked
  <2>1. balance'[LockProxyModule][d]
            = balance[LockProxyModule][d]
                - (IF LockProxyModule = from /\ d = k.denom THEN deducted + rest ELSE 0)
                + (IF LockProxyModule = feeTo /\ d = k.denom THEN deducted ELSE 0)
                + (IF LockProxyModule = LockProxyModule /\ d = k.denom THEN rest ELSE 0)
    <3>. DEFINE e == k.denom
    <3>1. /\ e \in Denom
          /\ deducted > 0 => feeTo \in Holder
          /\ SendWithFee(from, feeTo, deducted, LockProxyModule, rest, e)
      BY <1>1, <1>4
    <3>. HIDE DEF e
    <3>2. balance'[LockProxyModule][d]
              = balance[LockProxyModule][d]
                  - (IF LockProxyModule = from /\ d = e THEN deducted + rest ELSE 0)
                  + (IF LockProxyModule = feeTo /\ d = e THEN deducted ELSE 0)
                  + (IF LockProxyModule = LockProxyModule /\ d = e THEN rest ELSE 0)
      BY <1>2, <1>4, <3>1, SendWithFeeBalance
    <3>. QED
      BY <3>2 DEF e
  <2>2. balance[LockProxyModule][d] >= Booked(d) /\ balance[LockProxyModule][d] \in Nat
    BY <1>4 DEF AccountsInv, EscrowCoversBooks, Booked
  <2>. QED
    BY <1>2, <1>4, <1>6, <2>1, <2>2
<1>9. BooksMatchMessages'
  <2>. SUFFICES ASSUME NEW j \in registry
                PROVE  GetBalance(j)' + Released(j)'
                           = Sent(j)' + (IF j \in DOMAIN created THEN created[j] ELSE 0)
    BY <1>1 DEF BooksMatchMessages
  <2>. DEFINE start == IF j \in DOMAIN created THEN created[j] ELSE 0
  <2>1. GetBalance(j) + Released(j) = Sent(j) + start
    BY DEF AccountsInv, BooksMatchMessages
  <2>2. start \in Nat
    BY DEF AccountsInv, UnlocksRecorded
  <2>. HIDE DEF start
  <2>3. GetBalance(j)' + Released(j)' = Sent(j)' + start
    BY <1>2, <1>6, <1>7, <2>1, <2>2
  <2>. QED
    BY <2>3 DEF start
<1>. QED
  BY <1>5, <1>6, <1>7, <1>8, <1>9 DEF AccountsInv

\* A message releases what it takes off the books, the fee included, unless the
\* module account itself is paid.
LEMMA UnlockAccounts ==
    ASSUME Pip1Inv, AccountsInv, NEW m \in UnlockMsg, ReceiveUnlock(m)
    PROVE  AccountsInv'
<1>. DEFINE k == KeyOf(m)
            e == m.args.toAssetHash
            n == m.args.amount
            fee == m.args.feeAmount
            feeTo == m.args.feeAddress
            to == m.args.toAddress
            rest == n - fee
<1>1. /\ m \in Inbound /\ m.method = "unlock" /\ ExecuteMessage(m)
      /\ k \in registry /\ k.denom = e /\ e \in Denom
      /\ fee > 0 => fee <= n /\ feeTo # NoAddr
      /\ SendWithFee(LockProxyModule, feeTo, fee, to, rest, e)
      /\ GetBalance(k) >= n
      /\ books' = Put(books, k, GetBalance(k) - n)
      /\ UNCHANGED <<registry, created, crossChainTxs>>
  <2>1. k \in registry /\ k.denom = e
    BY DEF ReceiveUnlock, Unlock, KeyOf, RegistryKey
  <2>2. e \in Denom
    BY <2>1 DEF Registry, Pip1Inv, BooksInv
  <2>. QED
    BY <2>1, <2>2 DEF ReceiveUnlock, Unlock, UnlockMsg, DecreaseBalance
<1>2. /\ n \in Nat /\ fee \in Nat /\ to \in Holder
      /\ feeTo \in FeeAddress \cup {NoAddr}
  BY LockProxyPip1Assumption DEF TxArgs
<1>3. /\ fee > 0 => feeTo \in Holder
      /\ rest \in Nat /\ rest + fee = n
  BY <1>1, <1>2, LockProxyPip1Assumption
<1>. HIDE DEF k, e, n, fee, feeTo, to, rest
<1>4. /\ LockProxyModule \in Holder
      /\ BankTypeOK /\ CcmInv /\ balance \in [Holder -> [Denom -> Nat]]
      /\ \A j \in DOMAIN books : books[j] \in Nat
  BY LockProxyPip1Assumption DEF Holder, Pip1Inv, BooksInv, BankTypeOK
<1>5. CoinsConserved'
  BY <1>1, <1>2, <1>3, <1>4, SendWithFeeConserves DEF AccountsInv
<1>6. /\ IsFiniteSet(DOMAIN books')
      /\ \A j : GetBalance(j) \in Nat
                /\ GetBalance(j)' = IF j = k THEN GetBalance(j) - n ELSE GetBalance(j)
      /\ \A d : /\ Booked(d) \in Int
                /\ Booked(d)' = Booked(d) - (IF e = d THEN n ELSE 0)
  <2>. DEFINE v == GetBalance(k) - n
  <2>1. GetBalance(k) \in Nat
    BY <1>4 DEF GetBalance
  <2>2. v \in Nat /\ v - GetBalance(k) = 0 - n /\ v = GetBalance(k) - n
    BY <1>1, <1>2, <2>1
  <2>3. books' = Put(books, k, v) /\ IsFiniteSet(DOMAIN books)
    BY <1>1 DEF AccountsInv
  <2>. HIDE DEF v
  <2>4. /\ IsFiniteSet(DOMAIN books')
        /\ \A j : GetBalance(j) \in Nat /\ GetBalance(j)' = IF j = k THEN v ELSE GetBalance(j)
        /\ \A d : /\ Booked(d) \in Int
                  /\ Booked(d)' = Booked(d) + (IF k.denom = d THEN v - GetBalance(k) ELSE 0)
    BY <1>4, <2>2, <2>3, BooksAfter
  <2>5. ASSUME NEW d
        PROVE  Booked(d) \in Int /\ Booked(d)' = Booked(d) - (IF e = d THEN n ELSE 0)
    <3>1. Booked(d) \in Int /\ Booked(d)' = Booked(d) + (IF e = d THEN 0 - n ELSE 0)
      BY <1>1, <2>2, <2>4
    <3>. QED
      BY <1>2, <3>1
  <2>. QED
    BY <2>2, <2>4, <2>5
<1>7. \A j : /\ UnlocksRecorded' /\ Sent(j) \in Nat /\ Released(j) \in Nat
             /\ Released(j)' = Released(j) + (IF k = j THEN n ELSE 0)
             /\ Sent(j)' = Sent(j)
  <2>1. \A j : UnlocksRecorded' /\ Released(j)' = Released(j) + (IF k = j THEN n ELSE 0)
    BY <1>1, <1>2, <1>4, ReleasedAfterMessage DEF AccountsInv, k, n
  <2>2. \A j : Sent(j)' = Sent(j)
    BY <1>1 DEF Sent, UnlocksSent
  <2>. QED
    BY <1>4, <2>1, <2>2, SumsAreNat DEF AccountsInv
<1>8. EscrowCoversBooks'
  <2>. SUFFICES ASSUME NEW d \in Denom PROVE balance'[LockProxyModule][d] >= Booked(d)'
    BY DEF EscrowCoversBooks, Booked
  <2>1. balance'[LockProxyModule][d]
            = balance[LockProxyModule][d]
                - (IF LockProxyModule = LockProxyModule /\ d = e THEN fee + rest ELSE 0)
                + (IF LockProxyModule = feeTo /\ d = e THEN fee ELSE 0)
                + (IF LockProxyModule = to /\ d = e THEN rest ELSE 0)
    BY <1>1, <1>2, <1>3, <1>4, SendWithFeeBalance
  <2>2. balance[LockProxyModule][d] >= Booked(d) /\ balance[LockProxyModule][d] \in Nat
    BY <1>4 DEF AccountsInv, EscrowCoversBooks, Booked
  <2>. QED
    BY <1>2, <1>3, <1>6, <2>1, <2>2
<1>9. BooksMatchMessages'
  <2>. SUFFICES ASSUME NEW j \in registry
                PROVE  GetBalance(j)' + Released(j)'
                           = Sent(j)' + (IF j \in DOMAIN created THEN created[j] ELSE 0)
    BY <1>1 DEF BooksMatchMessages
  <2>. DEFINE start == IF j \in DOMAIN created THEN created[j] ELSE 0
  <2>1. GetBalance(j) + Released(j) = Sent(j) + start
    BY DEF AccountsInv, BooksMatchMessages
  <2>2. start \in Nat
    BY DEF AccountsInv, UnlocksRecorded
  <2>. HIDE DEF start
  <2>3. GetBalance(j)' + Released(j)' = Sent(j)' + start
    BY <1>2, <1>6, <1>7, <2>1, <2>2
  <2>. QED
    BY <2>3 DEF start
<1>. QED
  BY <1>5, <1>6, <1>7, <1>8, <1>9 DEF AccountsInv

\* A registry made by a message starts without coins.
LEMMA RegisterAccounts ==
    ASSUME Pip1Inv, AccountsInv, NEW m \in RegisterMsg, ReceiveRegisterAsset(m)
    PROVE  AccountsInv'
<1>. DEFINE k == RegistryKey(m.toContract, m.args.assetHash, m.fromChainId,
                             m.fromContract, m.args.nativeAssetHash)
<1>1. /\ ExecuteMessage(m)
      /\ k \notin registry /\ registry' = registry \cup {k}
      /\ m \in Inbound /\ m.method # "unlock"
      /\ UNCHANGED <<books, created, crossChainTxs, balance, supply>>
  BY DEF ReceiveRegisterAsset, RegisterAsset, UpdateRegistry, RegisterMsg, bankVars
<1>. HIDE DEF k
<1>2. \A j : /\ UnlocksRecorded' /\ Released(j) \in Nat
             /\ Released(j)' = Released(j)
  <2>1. \A j : UnlocksRecorded' /\ Released(j)' = Released(j) + 0 /\ Released(j) \in Nat
    BY <1>1, ReleasedAfterMessage, SumsAreNat DEF AccountsInv, Pip1Inv
  <2>. QED
    BY <2>1
<1>3. \A j : Sent(j)' = Sent(j) /\ GetBalance(j)' = GetBalance(j) /\ Booked(j)' = Booked(j)
  BY <1>1 DEF Sent, UnlocksSent, GetBalance, Booked
<1>4. /\ Sent(k) = 0 /\ Released(k) = 0 /\ k \notin DOMAIN created
      /\ GetBalance(k) = 0
  BY <1>1, NothingUnlocked DEF AccountsInv, GetBalance, Pip1Inv, BooksInv
<1>5. BooksMatchMessages'
  BY <1>1, <1>2, <1>3, <1>4 DEF AccountsInv, BooksMatchMessages
<1>6. CoinsConserved' /\ EscrowCoversBooks'
  BY <1>1, <1>3 DEF AccountsInv, CoinsConserved, TotalOf, EscrowCoversBooks, Booked
<1>. QED
  BY <1>1, <1>2, <1>5, <1>6 DEF AccountsInv

LEMMA AccountsStep ==
    ASSUME Pip1Inv, AccountsInv, [Pip1Next]_pip1Vars
    PROVE  AccountsInv'
<1>1. Signer \subseteq Account
  BY DEF Signer
<1>2. ASSUME UNCHANGED <<registry, books, created, crossChainTxs, executed, balance, supply>>
      PROVE  AccountsInv'
  <2>1. CoinsConserved'
    BY <1>2 DEF AccountsInv, CoinsConserved, TotalOf
  <2>. QED
    BY <1>2, <2>1, FrameAccounts
<1>3. CASE \E from \in Signer, to \in Account, d \in Denom, n \in Amounts :
               MsgSend(from, to, d, n) /\ UNCHANGED <<proxyVars, ccmVars>>
  <2>1. PICK from \in Account, to \in Account, e \in Denom, n \in Amounts :
            SendCoins(from, to, e, n) /\ UNCHANGED <<proxyVars, ccmVars>>
    BY <1>1, <1>3 DEF MsgSend
  <2>2. /\ LockProxyModule \in Holder /\ from \in Holder /\ to \in Holder
        /\ from # LockProxyModule /\ to # LockProxyModule
        /\ n \in Nat /\ BankTypeOK /\ balance \in [Holder -> [Denom -> Nat]]
    BY LockProxyPip1Assumption, BankAssumption DEF Holder, Pip1Inv, BooksInv, BankTypeOK
  <2>3. CoinsConserved'
    BY <2>1, <2>2, SendConserves DEF AccountsInv
  <2>4. \A d \in Denom : balance'[LockProxyModule][d] = balance[LockProxyModule][d]
    BY <2>1, <2>2, SendBalance
  <2>. QED
    BY <2>1, <2>3, <2>4, FrameAccounts DEF proxyVars, ccmVars
<1>4. CASE Pip1Handler
  <2>1. ASSUME NEW creator, CreateLockProxy(creator) PROVE AccountsInv'
    BY <1>2, <2>1 DEF CreateLockProxy, ccmVars, bankVars
  <2>. QED
    BY <1>1, <1>4, <2>1, CreateCoinAccounts, LockAccounts DEF Pip1Handler
<1>5. CASE UNCHANGED pip1Vars
  BY <1>2, <1>5 DEF pip1Vars, proxyVars, ccmVars, bankVars
<1>. QED
  BY <1>3, <1>4, <1>5, UnlockAccounts, RegisterAccounts DEF Pip1Next

\* At the start there are no registries, books and messages.
LEMMA AccountsInitInvariant ==
    ASSUME Pip1Init
    PROVE  AccountsInv
<1>1. /\ BankInit /\ crossChainTxs = {} /\ executed = <<>>
      /\ registry = {} /\ books = <<>> /\ created = <<>>
  BY DEF Pip1Init, CcmInit
<1>2. CoinsConserved /\ UnlocksRecorded /\ BooksMatchMessages
  BY <1>1, BankInitInvariant DEF UnlocksRecorded, UnlocksSent, BooksMatchMessages
<1>3. IsFiniteSet(DOMAIN books)
  BY <1>1, FS_EmptySet
<1>4. \A d : Booked(d) = 0
  BY <1>1, SumEmpty DEF Booked
<1>5. \A d \in Denom : balance[LockProxyModule][d] \in Nat
  BY <1>1, BankAssumption, LockProxyPip1Assumption DEF BankInit, Holder
<1>6. EscrowCoversBooks
  BY <1>4, <1>5 DEF EscrowCoversBooks, Booked
<1>. QED
  BY <1>2, <1>3, <1>6 DEF AccountsInv

THEOREM AccountsInvariance == Pip1Spec => []AccountsInv
<1>1. Pip1Init => AccountsInv
  BY AccountsInitInvariant
<1>2. Pip1Inv /\ AccountsInv /\ [Pip1Next]_pip1Vars => AccountsInv'
  BY AccountsStep
<1>. QED
  BY <1>1, <1>2, Pip1Invariance, PTL DEF Pip1Spec

\* The balance that lets a contract draw on a registry is what the messages of
\* both directions leave, fees included (keeper.go:274-428).
THEOREM BooksAreMessages == Pip1Spec => []BooksMatchMessages
<1>1. AccountsInv => BooksMatchMessages
  BY DEF AccountsInv
<1>. QED
  BY <1>1, AccountsInvariance, PTL

\* The module account has the coins of all registries together, whoever pays or
\* receives a fee.
THEOREM BooksAreCovered == Pip1Spec => []EscrowCoversBooks
<1>1. AccountsInv => EscrowCoversBooks
  BY DEF AccountsInv
<1>. QED
  BY <1>1, AccountsInvariance, PTL

\* The total of a denom is what its holders have.
THEOREM Pip1Conserves == Pip1Spec => []CoinsConserved
<1>1. AccountsInv => CoinsConserved
  BY DEF AccountsInv
<1>. QED
  BY <1>1, AccountsInvariance, PTL
=============================================================================
