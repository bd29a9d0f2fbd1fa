------------------------------ MODULE FtProofs ------------------------------
(***************************************************************************)
(* Proofs about Ft for every set of users, denoms, chains and messages, and*)
(* every width of the amounts in them: coins of independent denoms come    *)
(* and go with messages of the bound asset, and are those that messages    *)
(* brought and none took back.                                             *)
(***************************************************************************)
EXTENDS Ft, CrossChainManagerProofs

-----------------------------------------------------------------------------
(* Independent denoms *)

\* What the handlers keep, next to the invariants of ccm: independent denoms
\* have a creator, so CreateCoins cannot make coins of one.
CrossInv ==
    /\ CcmInv
    /\ BankTypeOK
    /\ independent \subseteq Denom
    /\ \A d \in independent : denomCreator[d] # NoAddr
    /\ DOMAIN assetHash \subseteq independent \X RemoteChain
    /\ \A k \in DOMAIN assetHash : assetHash[k] \in Asset

\* The number in the first bytes of an amount is one that can be minted.
LEMMA ValueIsNat ==
    ASSUME NEW n \in 1..IntBsLen, NEW bs, \A i \in 1..n : bs[i] \in Nat
    PROVE  ValueOf(bs, n) \in Nat
<1>. DEFINE f == [i \in 1..n |-> bs[i] * Power[i - 1]]
<1>1. Power = Powers(ByteSize, IntBsLen)
  BY DEF Power, Powers
<1>2. \A i \in 1..n : i - 1 \in 0..IntBsLen
  BY FixedBytesAssumption
<1>3. \A i \in 1..n : Power[i - 1] \in Nat
  BY <1>1, <1>2, PowersAreNat, FixedBytesAssumption
<1>4. \A i \in 1..n : f[i] \in Nat
  <2>1. \A x, y \in Nat : x * y \in Nat
    OBVIOUS
  <2>. QED
    BY <1>3, <2>1
<1>5. DOMAIN f = 1..n /\ IsFiniteSet(1..n)
  BY FS_Interval, FixedBytesAssumption
<1>6. ValueOf(bs, n) = SumFunction(f)
  BY DEF ValueOf
<1>. HIDE DEF f
<1>. QED
  BY <1>4, <1>5, <1>6, SumNat

\* What a message that CanUnpad accepts mints.
LEMMA AmountsAreNat ==
    ASSUME NEW bs \in PaddedBytes
    PROVE  UnpadFixedBytes(bs) \in Nat
<1>1. IntBsLen \in 1..IntBsLen /\ \A i \in 1..IntBsLen : bs[i] \in Nat
  BY FixedBytesAssumption DEF PaddedBytes
<1>. QED
  BY <1>1, ValueIsNat DEF UnpadFixedBytes

\* The bytes of an amount are sent in reverse, and are that amount's.
LEMMA SentAmount ==
    ASSUME NEW n \in Amounts
    PROVE  /\ AmountSent(n) \in PaddedBytes
           /\ UnpadFixedBytes(Reverse(AmountSent(n))) = n
<1>. DEFINE bs == PadFixedBytes(n)
<1>1. bs \in PaddedBytes /\ UnpadFixedBytes(bs) = n
  BY FtAssumption DEF CanPad, PadFixedBytes
<1>2. AmountSent(n) = Reverse(bs)
  BY DEF AmountSent
<1>3. Len(bs) = IntBsLen /\ IntBsLen \in Nat
  BY <1>1, FixedBytesAssumption DEF PaddedBytes
<1>. HIDE DEF bs
<1>4. Reverse(bs) \in PaddedBytes
  BY <1>1, <1>3 DEF Reverse, PaddedBytes
<1>5. Len(Reverse(bs)) = IntBsLen
  BY <1>4, FixedBytesAssumption DEF PaddedBytes
<1>6. Reverse(Reverse(bs)) = bs
  <2>1. Reverse(Reverse(bs)) = [i \in 1..IntBsLen |-> Reverse(bs)[(IntBsLen - i) + 1]]
    BY <1>5 DEF Reverse
  <2>2. \A i \in 1..IntBsLen : Reverse(bs)[(IntBsLen - i) + 1] = bs[i]
    BY <1>3 DEF Reverse
  <2>3. bs = [i \in 1..IntBsLen |-> bs[i]]
    BY <1>1 DEF PaddedBytes
  <2>. QED
    BY <2>1, <2>2, <2>3
<1>. QED
  BY <1>1, <1>2, <1>4, <1>6

LEMMA MintAllKeepsBank ==
    ASSUME BankTypeOK, NEW to \in Holder, NEW coins \in [Denom -> Nat], MintAll(to, coins)
    PROVE  BankTypeOK'
<1>1. [d \in Denom |-> balance[to][d] + coins[d]] \in [Denom -> Nat]
  BY DEF BankTypeOK
<1>2. balance' \in [Holder -> [Denom -> Nat]]
  BY <1>1 DEF MintAll, BankTypeOK
<1>3. supply' \in [Denom -> Nat]
  BY DEF MintAll, BankTypeOK
<1>. QED
  BY <1>2, <1>3 DEF MintAll, BankTypeOK

\* Coins of denoms that had neither creator nor coins.
LEMMA CreateCoinsCross ==
    ASSUME CrossInv, NEW creator \in Account, NEW coins \in [Denom -> Amounts \cup {0}],
           CreateCoins(creator, coins)
    PROVE  CrossInv' /\ Cross
<1>. DEFINE created == {d \in Denom : coins[d] > 0}
<1>1. /\ \A d \in created : denomCreator[d] = NoAddr
      /\ denomCreator' = [d \in Denom |-> IF d \in created THEN creator ELSE denomCreator[d]]
      /\ MintAll(creator, coins)
      /\ UNCHANGED <<independent, assetHash, crossChainId, crossChainTxs, doneTx, executed>>
  BY DEF CreateCoins, ExistDenom
<1>2. coins \in [Denom -> Nat]
  <2>1. Amounts \cup {0} \subseteq Nat
    BY FtAssumption
  <2>. QED
    BY <2>1
<1>3. \A d \in Denom : coins[d] > 0 <=> d \in created
  OBVIOUS
<1>. HIDE DEF created
<1>4. denomCreator \in [Denom -> {NoAddr} \cup Account]
  BY DEF CrossInv, CcmInv, CcmTypeOK
<1>5. denomCreator' \in [Denom -> {NoAddr} \cup Account]
  BY <1>1, <1>4
<1>6. CcmInv'
  <2>1. CcmInv /\ UNCHANGED <<crossChainId, crossChainTxs, doneTx, executed>>
    BY <1>1 DEF CrossInv
  <2>. QED
    BY <1>5, <2>1 DEF CcmInv, CcmTypeOK, IncomingInv, OutgoingInv,
                      ExecutedOnce, DoneMeansExecuted, DoneTxKey, OutgoingIdsDense
<1>7. BankTypeOK'
  BY <1>1, <1>2, MintAllKeepsBank DEF CrossInv, Holder
<1>8. \A d \in independent : denomCreator'[d] # NoAddr
  BY <1>1, CcmAssumption DEF CrossInv
<1>9. Cross
  <2>1. \A d \in Denom : supply[d] \in Nat /\ coins[d] \in Nat /\ supply'[d] = supply[d] + coins[d]
    BY <1>1, <1>2 DEF MintAll, CrossInv, BankTypeOK
  <2>2. \A d \in Denom : ~ (supply'[d] < supply[d])
    BY <2>1
  <2>3. \A d \in Denom : supply'[d] > supply[d] => d \notin independent
    BY <1>1, <1>3, <2>1 DEF CrossInv
  <2>. QED
    BY <2>2, <2>3 DEF Cross
<1>. QED
  BY <1>1, <1>6, <1>7, <1>8, <1>9 DEF CrossInv

\* A step that makes and burns no coins.
LEMMA SameTotals ==
    ASSUME CrossInv, UNCHANGED supply
    PROVE  Cross
<1>1. \A d \in Denom : supply[d] \in Nat /\ supply'[d] = supply[d]
  BY DEF CrossInv, BankTypeOK
<1>. QED
  BY <1>1 DEF Cross

LEMMA CreateDenomCross ==
    ASSUME CrossInv, NEW creator \in Account, NEW d \in Denom, CreateDenom(creator, d)
    PROVE  CrossInv' /\ Cross
<1>1. /\ SetDenomCreator(d, creator)
      /\ independent' = independent \cup {d}
      /\ UNCHANGED <<assetHash, crossChainId, crossChainTxs, doneTx, executed,
                     balance, supply, accounts>>
  BY DEF CreateDenom, bankVars
<1>2. CcmInv'
  BY <1>1, CreatorStep DEF CrossInv
<1>3. \A e \in Denom : denomCreator'[e] = IF e = d THEN creator ELSE denomCreator[e]
  BY <1>1 DEF SetDenomCreator, CrossInv, CcmInv, CcmTypeOK
<1>4. \A e \in independent' : denomCreator'[e] # NoAddr
  BY <1>1, <1>3, CcmAssumption DEF CrossInv
<1>. QED
  BY <1>1, <1>2, <1>4, SameTotals DEF CrossInv, BankTypeOK

LEMMA BindAssetCross ==
    ASSUME CrossInv, NEW creator, NEW d \in Denom, NEW c \in RemoteChain, NEW hash \in Asset,
           BindAssetHash(creator, d, c, hash)
    PROVE  CrossInv' /\ Cross
<1>1. /\ d \in independent
      /\ assetHash' = Put(assetHash, <<d, c>>, hash)
      /\ UNCHANGED <<independent, ccmVars, balance, supply, accounts>>
  BY DEF BindAssetHash, bankVars
<1>2. CcmInv'
  BY <1>1, FrameStep DEF CrossInv
<1>3. DOMAIN assetHash' = DOMAIN assetHash \cup {<<d, c>>}
  BY <1>1 DEF Put
<1>4. \A k \in DOMAIN assetHash' : assetHash'[k] \in Asset
  BY <1>1, PutValues DEF CrossInv
<1>5. DOMAIN assetHash' \subseteq independent' \X RemoteChain
  BY <1>1, <1>3 DEF CrossInv
<1>. QED
  BY <1>1, <1>2, <1>4, <1>5, SameTotals DEF CrossInv, BankTypeOK, ccmVars

\* What is burnt goes out in one message that is new, to the bound asset.
LEMMA LockCross ==
    ASSUME CrossInv, NEW from \in Account, NEW d \in Denom, NEW c \in RemoteChain,
           NEW to \in Holder, NEW n \in Amounts, Lock(from, d, c, to, n)
    PROVE  CrossInv' /\ Cross
<1>. DEFINE args == [toAddress |-> to, amount |-> AmountSent(n)]
            r == [fromContract |-> d, toChainId |-> c, toContract |-> assetHash[<<d, c>>],
                  method |-> "unlock", args |-> args]
<1>1. /\ <<d, c>> \in DOMAIN assetHash
      /\ CreateCrossChainTx(r)
      /\ BurnCoins(from, d, n)
      /\ UNCHANGED <<independent, assetHash, doneTx, denomCreator, executed>>
  BY DEF Lock
<1>2. n \in Nat
  BY FtAssumption
<1>3. args \in Args
  BY SentAmount DEF Args
<1>4. r \in Outbound
  <2>1. r \in LockParam
    <3>. HIDE DEF args
    <3>. QED
      BY <1>1, <1>3 DEF CrossInv, LockParam
  <2>. QED
    BY <2>1, FtAssumption
<1>5. CcmInv'
  BY <1>1, <1>4, OutgoingStep DEF CrossInv
<1>6. BankTypeOK'
  BY <1>1, <1>2, BurnKeepsBank DEF CrossInv, Holder
<1>7. PICK tx \in crossChainTxs' \ crossChainTxs : tx.param = r
  BY <1>1, CreateIsNew DEF CrossInv, CcmInv
<1>8. /\ tx.param.fromContract = d
      /\ tx.param.toContract = assetHash[<<d, tx.param.toChainId>>]
      /\ AmountIn(tx) = n
  BY <1>7, SentAmount DEF AmountIn
<1>9. \A e \in Denom : /\ supply[e] \in Nat
                       /\ supply'[e] = IF e = d THEN supply[e] - n ELSE supply[e]
  BY <1>1 DEF BurnCoins, CrossInv, BankTypeOK
<1>10. Cross
  <2>1. \A e \in Denom : /\ ~ (supply'[e] > supply[e])
                         /\ supply'[e] < supply[e] => e = d /\ supply[e] - supply'[e] = n
    BY <1>2, <1>9
  <2>. QED
    BY <1>7, <1>8, <2>1 DEF Cross
<1>. QED
  BY <1>1, <1>5, <1>6, <1>10 DEF CrossInv

\* What is minted came in a message of the bound asset.
LEMMA ReceiveCross ==
    ASSUME CrossInv, NEW m \in UnlockMsg, ReceiveUnlock(m)
    PROVE  CrossInv' /\ Cross
<1>. DEFINE n == AmountReceived(m)
<1>1. /\ <<m.toContract, m.fromChainId>> \in DOMAIN assetHash
      /\ CanUnpad(m.args.amount)
      /\ assetHash[<<m.toContract, m.fromChainId>>] = m.fromContract
      /\ MintCoins(m.args.toAddress, m.toContract, n)
      /\ ExecuteMessage(m)
      /\ UNCHANGED <<independent, assetHash, crossChainId, crossChainTxs, denomCreator>>
  BY DEF ReceiveUnlock, Unlock, ContainToContractAddr
<1>2. m.toContract \in Denom
  BY <1>1 DEF CrossInv
<1>3. n \in Nat
  BY <1>1, AmountsAreNat DEF CanUnpad, AmountReceived
<1>4. m.args.toAddress \in Holder
  BY FtAssumption DEF Args
<1>5. m \in Inbound
  BY DEF UnlockMsg
<1>. HIDE DEF n
<1>6. CcmInv'
  BY <1>1, <1>5, IncomingStep DEF CrossInv
<1>7. BankTypeOK'
  BY <1>1, <1>2, <1>3, <1>4, MintKeepsBank DEF CrossInv
<1>8. executed' = Append(executed, m)
  BY <1>1 DEF ExecuteMessage
<1>9. \A d \in Denom : /\ supply[d] \in Nat
                       /\ supply'[d] = IF d = m.toContract THEN supply[d] + n ELSE supply[d]
  BY <1>1 DEF MintCoins, CrossInv, BankTypeOK
<1>10. Cross
  <2>1. \A d \in Denom : /\ ~ (supply'[d] < supply[d])
                         /\ supply'[d] > supply[d] => d = m.toContract
    BY <1>3, <1>9
  <2>. QED
    BY <1>1, <1>8, <2>1 DEF Cross
<1>. QED
  BY <1>1, <1>6, <1>7, <1>10 DEF CrossInv

\* Every step keeps the invariant, and has its message.
LEMMA CrossStep ==
    ASSUME CrossInv, [FtNext]_ftVars
    PROVE  CrossInv' /\ Cross
<1>1. CASE UNCHANGED ftVars
  <2>1. UNCHANGED <<independent, assetHash, ccmVars, balance, supply, accounts>>
    BY <1>1 DEF ftVars, bankVars
  <2>2. CcmInv'
    BY <2>1, FrameStep DEF CrossInv
  <2>. QED
    BY <2>1, <2>2, SameTotals DEF CrossInv, BankTypeOK, ccmVars
<1>2. CASE FtHandler
  BY <1>2, CreateCoinsCross, CreateDenomCross, BindAssetCross, LockCross DEF FtHandler, Signer
<1>3. CASE \E m \in UnlockMsg : ReceiveUnlock(m)
  BY <1>3, ReceiveCross
<1>. QED
  BY <1>1, <1>2, <1>3 DEF FtNext

\* The handlers keep the invariant of ccm and that of ft together.
THEOREM CrossInvariance == FtSpec => []CrossInv
<1>1. FtInit => CrossInv
  <2>. SUFFICES ASSUME FtInit PROVE CrossInv
    OBVIOUS
  <2>1. CcmInv
    BY CcmInitInvariant DEF FtInit
  <2>2. BankTypeOK
    BY BankAssumption DEF FtInit, CcmInit, BankInit, BankTypeOK
  <2>. QED
    BY <2>1, <2>2 DEF FtInit, CrossInv
<1>2. CrossInv /\ [FtNext]_ftVars => CrossInv'
  BY CrossStep
<1>. QED
  BY <1>1, <1>2, PTL DEF FtSpec

\* The stores hold values of their types, and no balance or total is negative.
THEOREM FtTypeCorrect == FtSpec => []FtTypeOK
<1>1. CrossInv => FtTypeOK
  BY DEF CrossInv, CcmInv, FtTypeOK
<1>. QED
  BY <1>1, CrossInvariance, PTL

\* Coins of an independent denom come and go with one message at a time, from
\* and to the asset bound at that moment (ft_crossed_indenpently.go:73-142).
THEOREM CrossedByBound == FtSpec => CrossesByBoundAsset
<1>1. CrossInv /\ [FtNext]_ftVars => [Cross]_ftVars
  BY CrossStep
<1>. QED
  BY <1>1, CrossInvariance, PTL DEF FtSpec, CrossesByBoundAsset
-----------------------------------------------------------------------------
(* The sums *)

\* Messages concern independent denoms, and the amounts in them are numbers.
CrossedAmounts ==
    /\ \A tx \in crossChainTxs : tx.param.fromContract \in independent /\ AmountIn(tx) \in Nat
    /\ \A i \in DOMAIN executed :
           executed[i].toContract \in independent /\ AmountReceived(executed[i]) \in Nat

\* What the sums need, next to the invariants above.
CountInv == CoinsConserved /\ CrossedAmounts /\ IndependentCoinsCrossed

\* Both sums are of finitely many natural numbers.
LEMMA SumsAreNat ==
    ASSUME CcmInv, CrossedAmounts, NEW d
    PROVE  Sent(d) \in Nat /\ Minted(d) \in Nat
<1>. DEFINE A == {t \in crossChainTxs : t.param.fromContract = d}
            f == [tx \in A |-> AmountIn(tx)]
            B == {j \in DOMAIN executed : executed[j].toContract = d}
            g == [i \in B |-> AmountReceived(executed[i])]
<1>1. IsFiniteSet(crossChainTxs) /\ IsFiniteSet(DOMAIN executed)
  BY MessagesFinite, FS_Interval DEF CcmInv, IncomingInv
<1>2. DOMAIN f = A /\ IsFiniteSet(A) /\ \A tx \in A : f[tx] \in Nat
  BY <1>1, FS_Subset DEF CrossedAmounts
<1>3. DOMAIN g = B /\ IsFiniteSet(B) /\ \A i \in B : g[i] \in Nat
  BY <1>1, FS_Subset DEF CrossedAmounts
<1>4. Sent(d) = SumFunction(f) /\ Minted(d) = SumFunction(g)
  BY DEF Sent, Minted
<1>. HIDE DEF f, A, g, B
<1>. QED
  BY <1>2, <1>3, <1>4, SumNat

\* A denom that was never independent is in no message.
LEMMA NothingCrossed ==
    ASSUME CrossedAmounts, NEW d, d \notin independent
    PROVE  Sent(d) = 0 /\ Minted(d) = 0
<1>1. /\ {t \in crossChainTxs : t.param.fromContract = d} = {}
      /\ {j \in DOMAIN executed : executed[j].toContract = d} = {}
  BY DEF CrossedAmounts
<1>. QED
  BY <1>1, SumEmpty DEF Sent, Minted

\* A message sent counts for the denom that it burns.
LEMMA SentAfterLock ==
    ASSUME CcmInv, CrossedAmounts, NEW r, NEW n \in Nat, CreateCrossChainTx(r),
           UnpadFixedBytes(Reverse(r.args.amount)) = n, r.fromContract \in independent,
           UNCHANGED <<executed, independent>>, NEW d
    PROVE  /\ CrossedAmounts'
           /\ Sent(d)' = Sent(d) + (IF r.fromContract = d THEN n ELSE 0)
<1>. DEFINE new == NewTx(r)
            A == {t \in crossChainTxs : t.param.fromContract = d}
            B == {t \in crossChainTxs' : t.param.fromContract = d}
            f == [tx \in A |-> AmountIn(tx)]
            g == [tx \in B |-> AmountIn(tx)]
<1>1. /\ crossChainTxs' = crossChainTxs \cup {new} /\ new \notin crossChainTxs
      /\ new.param = r
  BY CreateStores DEF CcmInv
<1>. HIDE DEF new
<1>2. AmountIn(new) = n
  BY <1>1 DEF AmountIn
<1>3. CrossedAmounts'
  BY <1>1, <1>2 DEF CrossedAmounts
<1>4. IsFiniteSet(A) /\ new \notin A /\ \A tx \in A : AmountIn(tx) \in Nat
  BY <1>1, MessagesFinite, FS_Subset DEF CcmInv, CrossedAmounts
<1>5. B = IF r.fromContract = d THEN A \cup {new} ELSE A
  BY <1>1
<1>6. Sent(d) = SumFunction(f) /\ Sent(d)' = SumFunction(g) /\ Sent(d) \in Nat
  BY SumsAreNat DEF Sent
<1>. HIDE DEF A, B
<1>7. CASE r.fromContract = d
  <2>1. /\ DOMAIN f = A /\ IsFiniteSet(A) /\ DOMAIN g = A \cup {new} /\ g[new] = n
        /\ \A tx \in A : f[tx] \in Int /\ g[tx] = f[tx]
    BY <1>2, <1>4, <1>5, <1>7
  <2>. HIDE DEF f, g
  <2>2. SumFunction(g) = SumFunction(f) + g[new]
    BY <1>4, <2>1, SumExtends
  <2>. QED
    BY <1>3, <1>6, <1>7, <2>1, <2>2
<1>8. CASE r.fromContract # d
  <2>1. f = g
    BY <1>5, <1>8
  <2>. QED
    BY <1>3, <1>6, <1>8, <2>1
<1>. QED
  BY <1>7, <1>8

\* A message executed counts for the denom that it mints.
LEMMA MintedAfterUnlock ==
    ASSUME CcmInv, CrossedAmounts, NEW m \in Inbound, ExecuteMessage(m),
           AmountReceived(m) \in Nat, m.toContract \in independent,
           UNCHANGED <<crossChainTxs, independent>>, NEW d
    PROVE  /\ CrossedAmounts'
           /\ Minted(d)' = Minted(d) + (IF m.toContract = d THEN AmountReceived(m) ELSE 0)
<1>. DEFINE n == Len(executed)
            A == {j \in DOMAIN executed : executed[j].toContract = d}
            B == {j \in DOMAIN executed' : executed'[j].toContract = d}
            f == [i \in A |-> AmountReceived(executed[i])]
            g == [i \in B |-> AmountReceived(executed'[i])]
<1>1. /\ n \in Nat /\ n + 1 \notin 1..n
      /\ DOMAIN executed = 1..n /\ IsFiniteSet(DOMAIN executed)
      /\ DOMAIN executed' = 1..n \cup {n + 1}
      /\ executed'[n + 1] = m
      /\ \A i \in 1..n : executed'[i] = executed[i]
  BY ExecuteAppends DEF CcmInv
<1>. HIDE DEF n
<1>2. CrossedAmounts'
  BY <1>1 DEF CrossedAmounts
<1>3. Minted(d) = SumFunction(f) /\ Minted(d)' = SumFunction(g) /\ Minted(d) \in Nat
  BY SumsAreNat DEF Minted
<1>4. IsFiniteSet(A) /\ A \subseteq 1..n
  BY <1>1, FS_Subset
<1>5. B = IF m.toContract = d THEN A \cup {n + 1} ELSE A
  BY <1>1
<1>6. \A i \in 1..n : AmountReceived(executed[i]) \in Nat
  BY <1>1 DEF CrossedAmounts
<1>. HIDE DEF A, B
<1>7. CASE m.toContract = d
  <2>. DEFINE last == n + 1
  <2>1. /\ DOMAIN f = A /\ IsFiniteSet(A) /\ DOMAIN g = A \cup {last} /\ last \notin A
        /\ g[last] = AmountReceived(m) /\ g[last] \in Int
        /\ \A i \in A : f[i] \in Int /\ g[i] = f[i]
    BY <1>1, <1>4, <1>5, <1>6, <1>7
  <2>. HIDE DEF f, g, last
  <2>2. SumFunction(g) = SumFunction(f) + g[last]
    BY <2>1, SumExtends
  <2>. QED
    BY <1>2, <1>3, <1>7, <2>1, <2>2
<1>8. CASE m.toContract # d
  <2>1. f = g
    BY <1>1, <1>4, <1>5, <1>8
  <2>. QED
    BY <1>2, <1>3, <1>8, <2>1
<1>. QED
  BY <1>7, <1>8

LEMMA FrameCount ==
    ASSUME CountInv, UNCHANGED <<independent, crossChainTxs, executed, balance, supply>>
    PROVE  CountInv'
BY DEF CountInv, CoinsConserved, TotalOf, CrossedAmounts, IndependentCoinsCrossed, Sent, Minted

\* Independent denoms have creators, so CreateCoins makes no coins of one.
LEMMA CreateCoinsCount ==
    ASSUME CrossInv, CountInv, NEW creator \in Account, NEW coins \in [Denom -> Amounts \cup {0}],
           CreateCoins(creator, coins)
    PROVE  CountInv'
<1>1. coins \in [Denom -> Nat]
  <2>1. Amounts \cup {0} \subseteq Nat
    BY FtAssumption
  <2>. QED
    BY <2>1
<1>2. /\ \A d \in Denom : coins[d] > 0 => denomCreator[d] = NoAddr
      /\ MintAll(creator, coins)
      /\ UNCHANGED <<independent, crossChainTxs, executed>>
  BY DEF CreateCoins, ExistDenom
<1>3. CoinsConserved'
  BY <1>1, <1>2, MintAllConserves DEF CrossInv, CountInv, Holder
<1>4. CrossedAmounts'
  BY <1>2 DEF CountInv, CrossedAmounts
<1>5. \A d \in independent : supply'[d] = supply[d]
  <2>1. \A d \in independent : d \in Denom /\ coins[d] = 0
    BY <1>1, <1>2 DEF CrossInv
  <2>. QED
    BY <1>2, <2>1 DEF MintAll, CrossInv, BankTypeOK
<1>6. \A d : Sent(d)' = Sent(d) /\ Minted(d)' = Minted(d)
  BY <1>2 DEF Sent, Minted
<1>7. IndependentCoinsCrossed'
  BY <1>2, <1>5, <1>6 DEF CountInv, IndependentCoinsCrossed
<1>. QED
  BY <1>3, <1>4, <1>7 DEF CountInv

\* A denom that becomes independent has no coins, and no message concerned it.
LEMMA CreateDenomCount ==
    ASSUME CrossInv, CountInv, NEW creator, NEW d \in Denom, CreateDenom(creator, d)
    PROVE  CountInv'
<1>1. /\ denomCreator[d] = NoAddr /\ supply[d] = 0
      /\ independent' = independent \cup {d}
      /\ UNCHANGED <<crossChainTxs, executed, balance, supply>>
  BY DEF CreateDenom, ExistDenom, bankVars
<1>2. d \notin independent
  BY <1>1 DEF CrossInv
<1>3. CoinsConserved' /\ CrossedAmounts'
  BY <1>1 DEF CountInv, CoinsConserved, TotalOf, CrossedAmounts
<1>4. \A e : Sent(e)' = Sent(e) /\ Minted(e)' = Minted(e)
  BY <1>1 DEF Sent, Minted
<1>5. Sent(d) = 0 /\ Minted(d) = 0
  BY <1>2, NothingCrossed DEF CountInv
<1>6. IndependentCoinsCrossed'
  BY <1>1, <1>4, <1>5 DEF CountInv, IndependentCoinsCrossed
<1>. QED
  BY <1>3, <1>6 DEF CountInv

\* What a lock burns is what its message says.
LEMMA LockCount ==
    ASSUME CrossInv, CountInv, NEW from \in Account, NEW e \in Denom, NEW c,
           NEW to, NEW n \in Amounts, Lock(from, e, c, to, n)
    PROVE  CountInv'
<1>. DEFINE r == [fromContract |-> e, toChainId |-> c, toContract |-> assetHash[<<e, c>>],
                  method |-> "unlock", args |-> [toAddress |-> to, amount |-> AmountSent(n)]]
<1>1. /\ <<e, c>> \in DOMAIN assetHash
      /\ CreateCrossChainTx(r) /\ BurnCoins(from, e, n) /\ UNCHANGED <<executed, independent>>
  BY DEF Lock
<1>2. r.fromContract = e /\ UnpadFixedBytes(Reverse(r.args.amount)) = n
  BY SentAmount
<1>. HIDE DEF r
<1>3. from \in Holder /\ n \in Nat /\ e \in independent
  BY <1>1, FtAssumption DEF Holder, CrossInv
<1>4. /\ BankTypeOK /\ CcmInv /\ CoinsConserved /\ CrossedAmounts
      /\ supply \in [Denom -> Nat]
  BY DEF CrossInv, CountInv, BankTypeOK
<1>5. CoinsConserved'
  BY <1>1, <1>3, <1>4, BurnConserves
<1>6. \A d : CrossedAmounts' /\ Sent(d)' = Sent(d) + (IF e = d THEN n ELSE 0)
  BY <1>1, <1>2, <1>3, <1>4, SentAfterLock
<1>7. ASSUME NEW d \in independent
      PROVE  supply'[d] + Sent(d)' = Minted(d)'
  <2>1. Minted(d)' = Minted(d) /\ d \in Denom
    BY <1>1 DEF Minted, CrossInv
  <2>2. supply'[d] = supply[d] - (IF e = d THEN n ELSE 0)
    BY <1>1, <1>4, <2>1 DEF BurnCoins
  <2>3. supply[d] + Sent(d) = Minted(d)
    BY DEF CountInv, IndependentCoinsCrossed
  <2>4. supply[d] \in Nat /\ Sent(d) \in Nat /\ Minted(d) \in Nat
    BY <1>4, <2>1, SumsAreNat
  <2>. QED
    BY <1>3, <1>6, <2>1, <2>2, <2>3, <2>4
<1>. QED
  BY <1>1, <1>5, <1>6, <1>7 DEF CountInv, IndependentCoinsCrossed

\* A message mints what its bytes are, least significant first.
LEMMA ReceiveCount ==
    ASSUME CrossInv, CountInv, NEW m \in UnlockMsg, ReceiveUnlock(m)
    PROVE  CountInv'
<1>. DEFINE e == m.toContract
            n == AmountReceived(m)
<1>1. /\ <<e, m.fromChainId>> \in DOMAIN assetHash
      /\ CanUnpad(m.args.amount)
      /\ ExecuteMessage(m) /\ MintCoins(m.args.toAddress, e, n)
      /\ UNCHANGED <<crossChainTxs, independent>>
  BY DEF ReceiveUnlock, Unlock, ContainToContractAddr
<1>2. n \in Nat
  BY <1>1, AmountsAreNat DEF CanUnpad, AmountReceived
<1>3. m.args.toAddress \in Holder /\ m \in Inbound /\ e \in independent /\ e \in Denom
  BY <1>1, FtAssumption DEF Args, UnlockMsg, CrossInv
<1>4. /\ BankTypeOK /\ CcmInv /\ CoinsConserved /\ CrossedAmounts
      /\ supply \in [Denom -> Nat]
  BY DEF CrossInv, CountInv, BankTypeOK
<1>. HIDE DEF n
<1>5. CoinsConserved'
  BY <1>1, <1>2, <1>3, <1>4, MintConserves
<1>6. \A d : CrossedAmounts' /\ Minted(d)' = Minted(d) + (IF e = d THEN n ELSE 0)
  BY <1>1, <1>2, <1>3, <1>4, MintedAfterUnlock DEF n
<1>. HIDE DEF e
<1>7. ASSUME NEW d \in independent
      PROVE  supply'[d] + Sent(d)' = Minted(d)'
  <2>1. Sent(d)' = Sent(d) /\ d \in Denom
    BY <1>1 DEF Sent, CrossInv
  <2>2. supply'[d] = supply[d] + (IF e = d THEN n ELSE 0)
    BY <1>1, <1>4, <2>1 DEF MintCoins
  <2>3. supply[d] + Sent(d) = Minted(d)
    BY DEF CountInv, IndependentCoinsCrossed
  <2>4. supply[d] \in Nat /\ Sent(d) \in Nat /\ Minted(d) \in Nat
    BY <1>4, <2>1, SumsAreNat
  <2>. QED
    BY <1>2, <1>6, <2>1, <2>2, <2>3, <2>4
<1>. QED
  BY <1>1, <1>5, <1>6, <1>7 DEF CountInv, IndependentCoinsCrossed

LEMMA CountStep ==
    ASSUME CrossInv, CountInv, [FtNext]_ftVars
    PROVE  CountInv'
<1>1. Signer \subseteq Account
  BY DEF Signer
<1>2. ASSUME NEW creator, NEW d, NEW c, NEW hash, BindAssetHash(creator, d, c, hash)
      PROVE  CountInv'
  BY <1>2, FrameCount DEF BindAssetHash, bankVars, ccmVars
<1>3. CASE UNCHANGED ftVars
  BY <1>3, FrameCount DEF ftVars, bankVars, ccmVars
<1>4. CASE FtHandler
  BY <1>1, <1>2, <1>4, CreateCoinsCount, CreateDenomCount, LockCount DEF FtHandler
<1>. QED
  BY <1>3, <1>4, ReceiveCount DEF FtNext

\* At the start no denom is independent.
LEMMA CountInitInvariant ==
    ASSUME FtInit
    PROVE  CountInv
<1>1. BankInit /\ crossChainTxs = {} /\ executed = <<>> /\ independent = {}
  BY DEF FtInit, CcmInit
<1>. QED
  BY <1>1, BankInitInvariant DEF CountInv, CrossedAmounts, IndependentCoinsCrossed

THEOREM CountInvariance == FtSpec => []CountInv
<1>1. FtInit => CountInv
  BY CountInitInvariant
<1>2. CrossInv /\ CountInv /\ [FtNext]_ftVars => CountInv'
  BY CountStep
<1>. QED
  BY <1>1, <1>2, CrossInvariance, PTL DEF FtSpec

\* The coins of an independent denom are those that messages brought and none
\* took back, to the last one (ft_crossed_indenpently.go:30-142).
THEOREM CoinsCrossed == FtSpec => []IndependentCoinsCrossed
<1>1. CountInv => IndependentCoinsCrossed
  BY DEF CountInv
<1>. QED
  BY <1>1, CountInvariance, PTL

\* The total of a denom is what its holders have.
THEOREM FtConserves == FtSpec => []CoinsConserved
<1>1. CountInv => CoinsConserved
  BY DEF CountInv
<1>. QED
  BY <1>1, CountInvariance, PTL
=============================================================================
