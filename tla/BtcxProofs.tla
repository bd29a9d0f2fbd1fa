----------------------------- MODULE BtcxProofs -----------------------------
(***************************************************************************)
(* Proofs about Btcx for every set of users, denoms, chains and messages,  *)
(* and every width of the amounts in messages: its types, that what is     *)
(* bound was created here with a script, that coins are minted for the     *)
(* bound asset alone, and that messages never release more than was burnt. *)
(***************************************************************************)
EXTENDS Btcx, CrossChainManagerProofs

\* The two places that record the creation of a denom, ccm's registry and the
\* scripts of this module, know the same denoms.
ScriptsMatchCreators == DOMAIN redeemScript = {d \in Denom : denomCreator[d] # NoAddr}

\* What the handlers of btcx keep, next to the invariants of ccm.
ScriptsInv ==
    /\ BankTypeOK
    /\ DOMAIN redeemScript = DOMAIN denomToCreator
    /\ \A d \in DOMAIN redeemScript : redeemScript[d] \in Script
    /\ \A d \in DOMAIN denomToCreator : denomToCreator[d] \in Account
    /\ DOMAIN assetHash \subseteq Denom \X RemoteChain
    /\ \A k \in DOMAIN assetHash : assetHash[k] \in Asset
    /\ ScriptsMatchCreators
    /\ BoundDenomsHaveCreator

BtcxInv == CcmInv /\ ScriptsInv

-----------------------------------------------------------------------------
(* The handlers *)

\* A created denom is new to ccm and to this module alike.
LEMMA CreateDenomStep ==
    ASSUME BtcxInv, NEW creator \in Account, NEW d \in Denom, NEW script \in Script,
           CreateDenom(creator, d, script)
    PROVE  BtcxInv'
<1>1. /\ denomCreator[d] = NoAddr
      /\ SetDenomCreator(d, creator)
      /\ denomToCreator' = Put(denomToCreator, d, creator)
      /\ redeemScript' = Put(redeemScript, d, script)
      /\ UNCHANGED <<assetHash, crossChainId, crossChainTxs, doneTx, executed,
                     balance, supply, accounts>>
  BY DEF CreateDenom, ExistDenom, bankVars
<1>2. CcmInv'
  BY <1>1, CreatorStep DEF BtcxInv
<1>3. creator # NoAddr
  BY CcmAssumption
<1>4. \A e \in Denom : denomCreator'[e] = IF e = d THEN creator ELSE denomCreator[e]
  BY <1>1 DEF SetDenomCreator, BtcxInv, CcmInv, CcmTypeOK
<1>5. /\ DOMAIN redeemScript' = DOMAIN redeemScript \cup {d}
      /\ DOMAIN denomToCreator' = DOMAIN denomToCreator \cup {d}
  BY <1>1 DEF Put
<1>6. ScriptsMatchCreators'
  BY <1>3, <1>4, <1>5 DEF BtcxInv, ScriptsInv, ScriptsMatchCreators
<1>7. BoundDenomsHaveCreator'
  <2>1. \A k \in DOMAIN assetHash : k[1] \in Denom
    BY DEF BtcxInv, ScriptsInv
  <2>. QED
    BY <1>1, <1>3, <1>4, <2>1 DEF BtcxInv, ScriptsInv, BoundDenomsHaveCreator
<1>8. /\ \A e \in DOMAIN redeemScript' : redeemScript'[e] \in Script
      /\ \A e \in DOMAIN denomToCreator' : denomToCreator'[e] \in Account
  BY <1>1, PutValues DEF BtcxInv, ScriptsInv
<1>. QED
  BY <1>1, <1>2, <1>5, <1>6, <1>7, <1>8 DEF BtcxInv, ScriptsInv, BankTypeOK

\* A binding is the creator's, who has created the denom here.
LEMMA BindAssetStep ==
    ASSUME BtcxInv, NEW creator \in Account, NEW d \in Denom, NEW c \in RemoteChain,
           NEW hash \in Asset, BindAssetHash(creator, d, c, hash)
    PROVE  BtcxInv'
<1>1. /\ denomCreator[d] = creator
      /\ assetHash' = Put(assetHash, <<d, c>>, hash)
      /\ UNCHANGED <<denomToCreator, redeemScript, ccmVars, balance, supply, accounts>>
  BY DEF BindAssetHash, ValidCreator, scriptVars, bankVars
<1>2. CcmInv'
  BY <1>1, FrameStep DEF BtcxInv
<1>3. DOMAIN assetHash' = DOMAIN assetHash \cup {<<d, c>>}
  BY <1>1 DEF Put
<1>4. denomCreator[d] # NoAddr
  BY <1>1, CcmAssumption
<1>5. \A k \in DOMAIN assetHash' : assetHash'[k] \in Asset
  BY <1>1, PutValues DEF BtcxInv, ScriptsInv
<1>6. BoundDenomsHaveCreator'
  BY <1>1, <1>3, <1>4 DEF BtcxInv, ScriptsInv, BoundDenomsHaveCreator, ccmVars
<1>7. DOMAIN assetHash' \subseteq Denom \X RemoteChain
  BY <1>3 DEF BtcxInv, ScriptsInv
<1>. QED
  BY <1>1, <1>2, <1>5, <1>6, <1>7
  DEF BtcxInv, ScriptsInv, BankTypeOK, ccmVars, ScriptsMatchCreators

\* Only bound denoms can be sent, and those have a script.
LEMMA LockStep ==
    ASSUME BtcxInv, NEW from \in Account, NEW d \in Denom, NEW c \in RemoteChain,
           NEW to \in Holder, NEW n \in Amounts, Lock(from, d, c, to, n)
    PROVE  BtcxInv'
<1>. DEFINE args == ToArgs(d, c, to, n)
            r == [fromContract |-> d, toChainId |-> c, toContract |-> assetHash[<<d, c>>],
                  method |-> "unlock", args |-> args]
<1>1. /\ <<d, c>> \in DOMAIN assetHash
      /\ CreateCrossChainTx(r)
      /\ BurnCoins(from, d, n)
      /\ UNCHANGED <<denomToCreator, redeemScript, assetHash, doneTx, denomCreator, executed>>
  BY DEF Lock, scriptVars
<1>2. d \in DOMAIN redeemScript
  BY <1>1 DEF BtcxInv, ScriptsInv, BoundDenomsHaveCreator, ScriptsMatchCreators
<1>3. n \in Nat /\ n % Uint64Size \in 0..Uint64Size - 1
  BY BtcxAssumption
<1>4. args \in Args
  BY <1>2, <1>3 DEF ToArgs, GetRedeemScript, Args, BtcxInv, ScriptsInv
<1>5. r \in Outbound
  BY <1>1, <1>4, BtcxAssumption DEF LockParam, BtcxInv, ScriptsInv
<1>6. CcmInv'
  BY <1>1, <1>5, OutgoingStep DEF BtcxInv
<1>7. BankTypeOK'
  BY <1>1, <1>3, BurnKeepsBank DEF BtcxInv, ScriptsInv, Holder
<1>. QED
  BY <1>1, <1>6, <1>7
  DEF BtcxInv, ScriptsInv, ScriptsMatchCreators, BoundDenomsHaveCreator

\* What a message mints, when it is executed.
LEMMA UnlockFacts ==
    ASSUME BtcxInv, NEW m \in UnlockMsg, ReceiveUnlock(m)
    PROVE  /\ m \in Inbound /\ ExecuteMessage(m)
           /\ <<m.toContract, m.fromChainId>> \in DOMAIN assetHash
           /\ assetHash[<<m.toContract, m.fromChainId>>] = m.fromContract
           /\ m.toContract \in Denom /\ denomCreator[m.toContract] # NoAddr
           /\ m.args.toBtcAddress \in Holder /\ m.args.amount \in Nat
           /\ MintCoins(m.args.toBtcAddress, m.toContract, m.args.amount)
           /\ UNCHANGED <<scriptVars, assetHash, crossChainId, crossChainTxs, denomCreator>>
<1>1. /\ <<m.toContract, m.fromChainId>> \in DOMAIN assetHash
      /\ assetHash[<<m.toContract, m.fromChainId>>] = m.fromContract
      /\ MintCoins(m.args.toBtcAddress, m.toContract, m.args.amount)
      /\ ExecuteMessage(m)
      /\ UNCHANGED <<scriptVars, assetHash, crossChainId, crossChainTxs, denomCreator>>
  BY DEF ReceiveUnlock, Unlock, ContainToContractAddr
<1>2. m.toContract \in Denom /\ denomCreator[m.toContract] # NoAddr
  BY <1>1 DEF BtcxInv, ScriptsInv, BoundDenomsHaveCreator
<1>3. m.args.toBtcAddress \in Holder /\ m.args.amount \in Nat
  BY BtcxAssumption
<1>4. m \in Inbound
  BY DEF UnlockMsg
<1>. QED
  BY <1>1, <1>2, <1>3, <1>4

LEMMA ReceiveStep ==
    ASSUME BtcxInv, NEW m \in UnlockMsg, ReceiveUnlock(m)
    PROVE  BtcxInv'
<1>1. CcmInv'
  BY UnlockFacts, IncomingStep DEF BtcxInv
<1>2. BankTypeOK'
  BY UnlockFacts, MintKeepsBank DEF BtcxInv, ScriptsInv
<1>3. UNCHANGED <<denomToCreator, redeemScript, assetHash, crossChainTxs, denomCreator>>
  BY UnlockFacts DEF scriptVars
<1>. QED
  BY <1>1, <1>2, <1>3 DEF BtcxInv, ScriptsInv, ScriptsMatchCreators, BoundDenomsHaveCreator

\* Every step keeps the invariant: one handler of the module at a time.
LEMMA BtcxStep ==
    ASSUME BtcxInv, [BtcxNext]_btcxVars
    PROVE  BtcxInv'
<1>1. CASE UNCHANGED btcxVars
  <2>1. CcmInv'
    BY <1>1, FrameStep DEF BtcxInv, btcxVars
  <2>. QED
    BY <1>1, <2>1
    DEF btcxVars, scriptVars, ccmVars, bankVars, BtcxInv, ScriptsInv, BankTypeOK,
        ScriptsMatchCreators, BoundDenomsHaveCreator
<1>2. CASE BtcxHandler
  BY <1>2, CreateDenomStep, BindAssetStep, LockStep DEF BtcxHandler, Signer
<1>3. CASE \E m \in UnlockMsg : ReceiveUnlock(m)
  BY <1>3, ReceiveStep
<1>. QED
  BY <1>1, <1>2, <1>3 DEF BtcxNext

-----------------------------------------------------------------------------
(* The theorems *)

\* A chain starts without denoms of btcx, bindings and messages.
LEMMA BtcxInitInvariant ==
    ASSUME BtcxInit
    PROVE  BtcxInv
<1>1. CcmInv
  BY CcmInitInvariant DEF BtcxInit
<1>2. BankTypeOK
  BY BankAssumption DEF BtcxInit, CcmInit, BankInit, BankTypeOK
<1>3. /\ DOMAIN redeemScript = {} /\ DOMAIN denomToCreator = {} /\ DOMAIN assetHash = {}
      /\ crossChainTxs = {} /\ denomCreator = [d \in Denom |-> NoAddr]
  BY DEF BtcxInit, CcmInit
<1>. QED
  BY <1>1, <1>2, <1>3 DEF BtcxInv, ScriptsInv, ScriptsMatchCreators, BoundDenomsHaveCreator

\* The handlers keep the invariant of ccm and that of btcx together.
THEOREM BtcxInvariance == BtcxSpec => []BtcxInv
<1>1. BtcxInit => BtcxInv
  BY BtcxInitInvariant
<1>2. BtcxInv /\ [BtcxNext]_btcxVars => BtcxInv'
  BY BtcxStep
<1>. QED
  BY <1>1, <1>2, PTL DEF BtcxSpec

\* The stores hold values of their types, and no balance or total is negative.
THEOREM BtcxTypeCorrect == BtcxSpec => []BtcxTypeOK
<1>1. BtcxInv => BtcxTypeOK
  BY DEF BtcxInv, ScriptsInv, ScriptsMatchCreators, CcmInv, BtcxTypeOK
<1>. QED
  BY <1>1, BtcxInvariance, PTL

\* Coins that nobody created, those of the genesis file, are never locked or
\* minted (keeper.go:99-102, 233-235).
THEOREM BoundAreCreated == BtcxSpec => []BoundDenomsHaveCreator
<1>1. BtcxInv => BoundDenomsHaveCreator
  BY DEF BtcxInv, ScriptsInv
<1>. QED
  BY <1>1, BtcxInvariance, PTL

\* Only a message of the bound asset raises a total, and by its own amount.
LEMMA MintStep ==
    ASSUME BtcxInv, [BtcxNext]_btcxVars
    PROVE  Mint
<1>. SUFFICES ASSUME NEW d \in Denom, supply'[d] > supply[d]
              PROVE  \E m \in UnlockMsg :
                         /\ executed' = Append(executed, m)
                         /\ m.toContract = d
                         /\ m.fromContract = assetHash[<<d, m.fromChainId>>]
                         /\ supply'[d] - supply[d] = m.args.amount
                         /\ denomCreator[d] # NoAddr
  BY DEF Mint
<1>1. supply \in [Denom -> Nat] /\ supply[d] \in Nat
  BY DEF BtcxInv, ScriptsInv, BankTypeOK
<1>2. ASSUME UNCHANGED supply PROVE FALSE
  BY <1>1, <1>2
<1>3. ASSUME NEW from \in Holder, NEW e \in Denom, NEW n \in Nat, BurnCoins(from, e, n)
      PROVE  FALSE
  <2>1. supply'[d] = IF e = d THEN supply[d] - n ELSE supply[d]
    BY <1>1, <1>3 DEF BurnCoins
  <2>. QED
    BY <1>1, <2>1
<1>4. CASE \E m \in UnlockMsg : ReceiveUnlock(m)
  <2>1. PICK m \in UnlockMsg : ReceiveUnlock(m)
    BY <1>4
  <2>2. /\ m.toContract \in Denom /\ denomCreator[m.toContract] # NoAddr
        /\ m.args.amount \in Nat
        /\ executed' = Append(executed, m)
        /\ assetHash[<<m.toContract, m.fromChainId>>] = m.fromContract
        /\ supply' = [supply EXCEPT ![m.toContract] = supply[m.toContract] + m.args.amount]
    BY <2>1, UnlockFacts DEF ExecuteMessage, MintCoins
  <2>3. supply'[d] = IF m.toContract = d THEN supply[d] + m.args.amount ELSE supply[d]
    BY <1>1, <2>2
  <2>4. m.toContract = d
    BY <1>1, <2>3
  <2>5. supply'[d] - supply[d] = m.args.amount
    BY <1>1, <2>2, <2>3, <2>4
  <2>. QED
    BY <2>2, <2>4, <2>5
<1>5. CASE \E creator \in Signer, e \in Denom, script \in Script : CreateDenom(creator, e, script)
  BY <1>2, <1>5 DEF CreateDenom, bankVars
<1>6. CASE \E creator \in Signer, e \in Denom, c \in RemoteChain, hash \in Asset :
               BindAssetHash(creator, e, c, hash)
  BY <1>2, <1>6 DEF BindAssetHash, bankVars
<1>7. CASE \E from \in Signer, e \in Denom, c \in RemoteChain, to \in Holder, n \in Amounts :
               Lock(from, e, c, to, n)
  BY <1>3, <1>7, BtcxAssumption DEF Lock, Signer, Holder
<1>8. CASE UNCHANGED btcxVars
  BY <1>2, <1>8 DEF btcxVars, bankVars
<1>. QED
  BY <1>4, <1>5, <1>6, <1>7, <1>8 DEF BtcxNext, BtcxHandler

\* Coins come into being for one message at a time, of the asset that the
\* denom's creator has bound at that moment (keeper.go:173-201).
THEOREM MintedForBound == BtcxSpec => MintedForBoundAsset
<1>1. BtcxInv /\ [BtcxNext]_btcxVars => [Mint]_btcxVars
  BY MintStep
<1>. QED
  BY <1>1, BtcxInvariance, PTL DEF BtcxSpec, MintedForBoundAsset

-----------------------------------------------------------------------------
(* The sums *)

\* The amounts in messages are numbers, those of a lock no more than it burns.
AmountsRecorded ==
    /\ \A tx \in crossChainTxs : tx.param.args.amount \in Nat
    /\ executed \in Seq(UnlockMsg)

\* What the sums need, next to the invariants above.
ReleaseInv == CoinsConserved /\ AmountsRecorded /\ NeverOverReleased

LEMMA UnlockAmounts == \A m \in UnlockMsg : m.args.amount \in Nat
BY BtcxAssumption

\* Both sums are of finitely many natural numbers.
LEMMA SentIsNat ==
    ASSUME OutgoingInv, AmountsRecorded, NEW d
    PROVE  Sent(d) \in Nat
<1>. DEFINE A == {t \in crossChainTxs : t.param.fromContract = d}
            f == [tx \in A |-> tx.param.args.amount]
<1>1. DOMAIN f = A /\ IsFiniteSet(A) /\ \A tx \in A : f[tx] \in Nat
  BY MessagesFinite, FS_Subset DEF AmountsRecorded
<1>2. Sent(d) = SumFunction(f)
  BY DEF Sent
<1>. HIDE DEF f
<1>. QED
  BY <1>1, <1>2, SumNat

LEMMA MintedIsNat ==
    ASSUME AmountsRecorded, NEW d
    PROVE  Minted(d) \in Nat
<1>. DEFINE A == {j \in DOMAIN executed : executed[j].toContract = d}
            f == [i \in A |-> executed[i].args.amount]
<1>1. IsFiniteSet(DOMAIN executed) /\ \A i \in DOMAIN executed : executed[i] \in UnlockMsg
  BY FS_Interval DEF AmountsRecorded
<1>2. DOMAIN f = A /\ IsFiniteSet(A) /\ \A i \in A : f[i] \in Nat
  BY <1>1, UnlockAmounts, FS_Subset
<1>3. Minted(d) = SumFunction(f)
  BY DEF Minted
<1>. HIDE DEF f, A
<1>. QED
  BY <1>2, <1>3, SumNat

\* A message sent counts for the denom that it burns.
LEMMA SentAfterLock ==
    ASSUME OutgoingInv, AmountsRecorded, NEW r, r.args.amount \in Nat, CreateCrossChainTx(r),
           UNCHANGED executed, NEW d
    PROVE  /\ AmountsRecorded'
           /\ Sent(d)' = Sent(d) + (IF r.fromContract = d THEN r.args.amount ELSE 0)
<1>. DEFINE new == NewTx(r)
            A == {t \in crossChainTxs : t.param.fromContract = d}
            B == {t \in crossChainTxs' : t.param.fromContract = d}
            f == [tx \in A |-> tx.param.args.amount]
            g == [tx \in B |-> tx.param.args.amount]
<1>1. /\ crossChainTxs' = crossChainTxs \cup {new} /\ new \notin crossChainTxs
      /\ new.param = r
  BY CreateStores
<1>. HIDE DEF new
<1>2. AmountsRecorded'
  BY <1>1 DEF AmountsRecorded
<1>3. IsFiniteSet(A) /\ new \notin A /\ \A tx \in A : tx.param.args.amount \in Nat
  BY <1>1, MessagesFinite, FS_Subset DEF AmountsRecorded
<1>4. B = IF r.fromContract = d THEN A \cup {new} ELSE A
  BY <1>1
<1>5. Sent(d) = SumFunction(f) /\ Sent(d)' = SumFunction(g) /\ Sent(d) \in Nat
  BY SentIsNat DEF Sent
<1>. HIDE DEF A, B
<1>6. CASE r.fromContract = d
  <2>1. /\ DOMAIN f = A /\ DOMAIN g = A \cup {new} /\ g[new] = r.args.amount
        /\ \A tx \in A : f[tx] \in Int /\ g[tx] = f[tx]
    BY <1>1, <1>3, <1>4, <1>6
  <2>. HIDE DEF f, g
  <2>. QED
    BY <1>2, <1>3, <1>5, <1>6, <2>1, SumExtends
<1>7. CASE r.fromContract # d
  <2>1. f = g
    BY <1>4, <1>7
  <2>. QED
    BY <1>2, <1>5, <1>7, <2>1
<1>. QED
  BY <1>6, <1>7

\* A message executed counts for the denom that it mints.
LEMMA MintedAfterUnlock ==
    ASSUME IncomingInv, AmountsRecorded, NEW m \in UnlockMsg, ExecuteMessage(m),
           UNCHANGED crossChainTxs, NEW d
    PROVE  /\ AmountsRecorded'
           /\ Minted(d)' = Minted(d) + (IF m.toContract = d THEN m.args.amount ELSE 0)
<1>. DEFINE n == Len(executed)
            A == {j \in DOMAIN executed : executed[j].toContract = d}
            B == {j \in DOMAIN executed' : executed'[j].toContract = d}
            f == [i \in A |-> executed[i].args.amount]
            g == [i \in B |-> executed'[i].args.amount]
<1>1. /\ n \in Nat /\ n + 1 \notin 1..n
      /\ DOMAIN executed = 1..n /\ IsFiniteSet(DOMAIN executed)
      /\ DOMAIN executed' = 1..n \cup {n + 1}
      /\ executed'[n + 1] = m
      /\ \A i \in 1..n : executed'[i] = executed[i]
  BY ExecuteAppends DEF UnlockMsg
<1>2. AmountsRecorded'
  BY DEF ExecuteMessage, AmountsRecorded
<1>3. \A i \in 1..n : executed[i] \in UnlockMsg
  BY DEF AmountsRecorded
<1>4. Minted(d) = SumFunction(f) /\ Minted(d)' = SumFunction(g) /\ Minted(d) \in Nat
  BY MintedIsNat DEF Minted
<1>. HIDE DEF n
<1>5. IsFiniteSet(A) /\ A \subseteq 1..n
  BY <1>1, FS_Subset
<1>6. B = IF m.toContract = d THEN A \cup {n + 1} ELSE A
  BY <1>1
<1>. HIDE DEF A, B
<1>7. CASE m.toContract = d
  <2>. DEFINE last == n + 1
  <2>1. B = A \cup {last} /\ last \notin A
    BY <1>1, <1>5, <1>6, <1>7
  <2>2. /\ DOMAIN f = A /\ DOMAIN g = A \cup {last} /\ g[last] = m.args.amount
        /\ \A i \in A : f[i] = executed[i].args.amount /\ g[i] = f[i]
    BY <1>1, <1>5, <2>1
  <2>3. m.args.amount \in Nat /\ \A i \in A : executed[i].args.amount \in Nat
    BY <1>3, <1>5, UnlockAmounts
  <2>. HIDE DEF f, g, last
  <2>4. /\ IsFiniteSet(DOMAIN f) /\ last \notin DOMAIN f /\ DOMAIN g = DOMAIN f \cup {last}
        /\ g[last] \in Int
        /\ \A i \in DOMAIN f : f[i] \in Int /\ g[i] = f[i]
    <3>1. IsFiniteSet(DOMAIN f) /\ last \notin DOMAIN f /\ DOMAIN g = DOMAIN f \cup {last}
      BY <1>5, <2>1, <2>2
    <3>2. g[last] \in Int
      BY <2>2, <2>3
    <3>3. \A i \in DOMAIN f : f[i] \in Int /\ g[i] = f[i]
      BY <2>2, <2>3
    <3>. QED
      BY <3>1, <3>2, <3>3
  <2>5. SumFunction(g) = SumFunction(f) + g[last]
    BY <2>4, SumExtends
  <2>. QED
    BY <1>2, <1>4, <1>7, <2>2, <2>5
<1>8. CASE m.toContract # d
  <2>1. f = g
    BY <1>1, <1>5, <1>6, <1>8
  <2>. QED
    BY <1>2, <1>4, <1>8, <2>1
<1>. QED
  BY <1>7, <1>8

\* The low bits of an amount are no more than the amount.
LEMMA LowBits ==
    ASSUME NEW n \in Nat
    PROVE  n % Uint64Size \in Nat /\ n % Uint64Size <= n
<1>1. Uint64Size \in Nat \ {0}
  BY BtcxAssumption
<1>2. CASE n < Uint64Size
  BY <1>1, <1>2
<1>3. CASE n >= Uint64Size
  BY <1>1, <1>3
<1>. QED
  BY <1>1, <1>2, <1>3

LEMMA FrameRelease ==
    ASSUME ReleaseInv, UNCHANGED <<crossChainTxs, executed, balance, supply>>
    PROVE  ReleaseInv'
BY DEF ReleaseInv, CoinsConserved, TotalOf, AmountsRecorded, NeverOverReleased, Sent, Minted

\* A lock burns at least what its message lets another chain release.
LEMMA LockRelease ==
    ASSUME BtcxInv, ReleaseInv, NEW from \in Account, NEW e \in Denom, NEW c, NEW to,
           NEW n \in Amounts, Lock(from, e, c, to, n)
    PROVE  ReleaseInv'
<1>. DEFINE r == [fromContract |-> e, toChainId |-> c, toContract |-> assetHash[<<e, c>>],
                  method |-> "unlock", args |-> ToArgs(e, c, to, n)]
            low == n % Uint64Size
<1>1. CreateCrossChainTx(r) /\ BurnCoins(from, e, n) /\ UNCHANGED executed
  BY DEF Lock
<1>2. r.args.amount = low /\ r.fromContract = e
  BY DEF ToArgs
<1>. HIDE DEF r
<1>3. from \in Holder /\ n \in Nat /\ low \in Nat /\ low <= n
  BY LowBits, BtcxAssumption DEF Holder
<1>. HIDE DEF low
<1>4. /\ BankTypeOK /\ OutgoingInv /\ CoinsConserved /\ AmountsRecorded
      /\ supply \in [Denom -> Nat]
  BY DEF BtcxInv, ScriptsInv, CcmInv, ReleaseInv, BankTypeOK
<1>5. CoinsConserved'
  BY <1>1, <1>3, <1>4, BurnConserves
<1>6. \A d : AmountsRecorded' /\ Sent(d)' = Sent(d) + (IF e = d THEN low ELSE 0)
  BY <1>1, <1>2, <1>3, <1>4, SentAfterLock
<1>7. ASSUME NEW d \in Denom
      PROVE  supply'[d] + Sent(d)' <= GenesisSupply[d] + Minted(d)'
  <2>1. Minted(d)' = Minted(d)
    BY <1>1 DEF Minted
  <2>2. supply'[d] = supply[d] - (IF e = d THEN n ELSE 0)
    BY <1>1, <1>4 DEF BurnCoins
  <2>3. supply[d] + Sent(d) <= GenesisSupply[d] + Minted(d)
    BY DEF ReleaseInv, NeverOverReleased
  <2>4. supply[d] \in Nat /\ GenesisSupply[d] \in Nat /\ Sent(d) \in Nat /\ Minted(d) \in Nat
    BY <1>4, SentIsNat, MintedIsNat, BankAssumption
  <2>. QED
    BY <1>3, <1>6, <2>1, <2>2, <2>3, <2>4
<1>. QED
  BY <1>5, <1>6, <1>7 DEF ReleaseInv, NeverOverReleased

\* A message mints what it says.
LEMMA ReceiveRelease ==
    ASSUME BtcxInv, ReleaseInv, NEW m \in UnlockMsg, ReceiveUnlock(m)
    PROVE  ReleaseInv'
<1>. DEFINE e == m.toContract
            n == m.args.amount
<1>1. /\ ExecuteMessage(m) /\ MintCoins(m.args.toBtcAddress, e, n)
      /\ e \in Denom /\ m.args.toBtcAddress \in Holder /\ n \in Nat
      /\ UNCHANGED crossChainTxs
  BY UnlockFacts
<1>2. /\ BankTypeOK /\ IncomingInv /\ OutgoingInv /\ CoinsConserved /\ AmountsRecorded
      /\ supply \in [Denom -> Nat]
  BY DEF BtcxInv, ScriptsInv, CcmInv, ReleaseInv, BankTypeOK
<1>3. CoinsConserved'
  BY <1>1, <1>2, MintConserves
<1>4. \A d : AmountsRecorded' /\ Minted(d)' = Minted(d) + (IF e = d THEN n ELSE 0)
  BY <1>1, <1>2, MintedAfterUnlock
<1>5. ASSUME NEW d \in Denom
      PROVE  supply'[d] + Sent(d)' <= GenesisSupply[d] + Minted(d)'
  <2>1. Sent(d)' = Sent(d)
    BY <1>1 DEF Sent
  <2>2. supply'[d] = supply[d] + (IF e = d THEN n ELSE 0)
    BY <1>1, <1>2 DEF MintCoins
  <2>3. supply[d] + Sent(d) <= GenesisSupply[d] + Minted(d)
    BY DEF ReleaseInv, NeverOverReleased
  <2>4. supply[d] \in Nat /\ GenesisSupply[d] \in Nat /\ Sent(d) \in Nat /\ Minted(d) \in Nat
    BY <1>2, SentIsNat, MintedIsNat, BankAssumption
  <2>. HIDE DEF e, n
  <2>. QED
    BY <1>1, <1>4, <2>1, <2>2, <2>3, <2>4
<1>. QED
  BY <1>3, <1>4, <1>5 DEF ReleaseInv, NeverOverReleased

LEMMA ReleaseStep ==
    ASSUME BtcxInv, ReleaseInv, [BtcxNext]_btcxVars
    PROVE  ReleaseInv'
<1>1. Signer \subseteq Account
  BY DEF Signer
<1>2. ASSUME NEW creator, NEW d, NEW script, CreateDenom(creator, d, script)
      PROVE  ReleaseInv'
  BY <1>2, FrameRelease DEF CreateDenom, bankVars
<1>3. ASSUME NEW creator, NEW d, NEW c, NEW hash, BindAssetHash(creator, d, c, hash)
      PROVE  ReleaseInv'
  BY <1>3, FrameRelease DEF BindAssetHash, bankVars, ccmVars
<1>4. CASE UNCHANGED btcxVars
  BY <1>4, FrameRelease DEF btcxVars, bankVars, ccmVars
<1>. QED
  BY <1>1, <1>2, <1>3, <1>4, LockRelease, ReceiveRelease DEF BtcxNext, BtcxHandler

\* At the start nothing was sent or minted.
LEMMA ReleaseInitInvariant ==
    ASSUME BtcxInit
    PROVE  ReleaseInv
<1>1. BankInit /\ crossChainTxs = {} /\ executed = <<>>
  BY DEF BtcxInit, CcmInit
<1>2. CoinsConserved /\ AmountsRecorded
  BY <1>1, BankInitInvariant DEF AmountsRecorded
<1>3. \A d : Sent(d) = 0 /\ Minted(d) = 0
  BY <1>1, SumEmpty DEF Sent, Minted
<1>4. NeverOverReleased
  BY <1>1, <1>3, BankAssumption DEF NeverOverReleased, BankInit
<1>. QED
  BY <1>2, <1>4 DEF ReleaseInv

THEOREM ReleaseInvariance == BtcxSpec => []ReleaseInv
<1>1. BtcxInit => ReleaseInv
  BY ReleaseInitInvariant
<1>2. BtcxInv /\ ReleaseInv /\ [BtcxNext]_btcxVars => ReleaseInv'
  BY ReleaseStep
<1>. QED
  BY <1>1, <1>2, BtcxInvariance, PTL DEF BtcxSpec

\* An amount that does not fit its message loses coins and never makes any
\* (keeper.go:118-171).
THEOREM NothingOverReleased == BtcxSpec => []NeverOverReleased
<1>1. ReleaseInv => NeverOverReleased
  BY DEF ReleaseInv
<1>. QED
  BY <1>1, ReleaseInvariance, PTL

\* The total of a denom is what its holders have.
THEOREM BtcxConserves == BtcxSpec => []CoinsConserved
<1>1. ReleaseInv => CoinsConserved
  BY DEF ReleaseInv
<1>. QED
  BY <1>1, ReleaseInvariance, PTL
=============================================================================
