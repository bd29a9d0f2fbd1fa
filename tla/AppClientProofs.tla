-------------------------- MODULE AppClientProofs --------------------------
(***************************************************************************)
(* Proofs about AppClient, for every set of users, lines, requests and     *)
(* values.                                                                 *)
(*                                                                         *)
(* First, per module and for arguments of any kind: what ValidateBasic     *)
(* ensures (Checked), that a message that its user can sign says what he   *)
(* means (Fits) or what a route may make of it (Suits), and that a query   *)
(* has no answer but the one that is meant (AnswersAs).  Then what         *)
(* requests do to the client: they broadcast, return or inquire.  Last,    *)
(* the invariants of what is under way: ChecksInv for the inputs, AsksInv  *)
(* for the requests.                                                       *)
(***************************************************************************)
EXTENDS AppClient, FiniteSetTheorems, TLAPS

-----------------------------------------------------------------------------
(* What messages say                                                       *)

\* What keepers take for granted of the arguments of a call.
GoodArgs(a) ==
    /\ \A n \in Amounts(a) : n >= 0
    /\ "toChainId" \in DOMAIN a => a.toChainId > 0
    /\ Empty \notin Targets(a)

Checked(msg) == msg.valid => GoodArgs(msg.call.args)

\* A message is signed by whom it acts for, or by nobody.
Formed(msg) ==
    /\ msg.call = Call(msg.call.to, msg.call.by, msg.call.args)
    /\ msg.signers \in {{msg.call.by}, {}}

\* If u can sign msg, it says what u means, ...
Fits(u, meant, msg) ==
    /\ meant.by = u
    /\ msg.valid /\ msg.signers = {u} => msg.call = meant

\* ... or what the way he has taken may make of it.
Suits(u, via, meant, msg) ==
    /\ meant.by = u
    /\ msg.valid /\ msg.signers = {u} => Carries(via, meant, msg.call)

\* The arguments of all messages that hold something keepers rely on.
LEMMA GoodForms ==
    /\ \A c, h : c > 0 /\ h # Empty
           => GoodArgs([toChainId |-> c, toChainProxyHash |-> h])
    /\ \A d, c, h : c > 0 /\ h # Empty
           => GoodArgs([denom |-> d, toChainId |-> c, toAssetHash |-> h])
    /\ \A d, c, h, n : c > 0 /\ h # Empty /\ n >= 0
           => GoodArgs([denom |-> d, toChainId |-> c, toAddress |-> h, value |-> n])
    /\ \A p, d, c, h, n : c > 0 /\ h # Empty /\ n >= 0
           => GoodArgs([lockProxyHash |-> p, denom |-> d, toChainId |-> c, toAddress |-> h,
                        value |-> n])
    /\ \A x, p, c, q, h : c > 0 /\ q # Empty /\ h # Empty
           => GoodArgs([coin |-> x, lockProxyHash |-> p, toChainId |-> c,
                        toChainProxyHash |-> q, toAssetHash |-> h])
    /\ \A p, d, c, q, h, t, n, b, fee, to :
           c > 0 /\ q # Empty /\ h # Empty /\ t # Empty /\ n >= 0 /\ fee >= 0 /\ to # Empty
           => GoodArgs([lockProxyHash |-> p, denom |-> d, toChainId |-> c,
                        toChainProxyHash |-> q, toAssetHash |-> h, toAddress |-> t,
                        value |-> n, deductFeeInLock |-> b, feeAmount |-> fee,
                        feeAddress |-> to])
    /\ \A c, h, m, b : c > 0
           => GoodArgs([toChainId |-> c, toContractAddress |-> h, method |-> m, args |-> b])
BY DEF GoodArgs, Amounts, Targets

\* Those of the others hold nothing of the kind.
LEMMA OtherForms ==
    /\ \A a : GoodArgs([creator |-> a])
    /\ \A x, p : GoodArgs([coin |-> x, lockProxyHash |-> p])
    /\ \A d, s : GoodArgs([denom |-> d, redeemScript |-> s])
    /\ \A d : GoodArgs([denom |-> d])
    /\ \A x : GoodArgs([coins |-> x])
    /\ \A h : GoodArgs([genesisHeader |-> h])
    /\ \A hs : GoodArgs([headers |-> hs])
    /\ \A c, p, h, q, k : GoodArgs([fromChainId |-> c, proof |-> p, header |-> h,
                                    headerProof |-> q, curHeader |-> k])
BY DEF GoodArgs, Amounts, Targets

\* ValidateBasic and GetSigners of every message.
LEMMA LockProxyChecked ==
    /\ \A a : Checked(lockproxy!NewMsgCreateLockProxy(a))
    /\ \A a, x, p : Checked(lockproxy!NewMsgCreateCoinAndDelegateToProxy(a, x, p))
    /\ \A a, c, h : Checked(lockproxy!NewMsgBindProxyHash(a, c, h))
    /\ \A a, d, c, h : Checked(lockproxy!NewMsgBindAssetHash(a, d, c, h))
    /\ \A p, a, d, c, h, n : Checked(lockproxy!NewMsgLock(p, a, d, c, h, n))
<1>. USE GoodForms, OtherForms DEF Checked, lockproxy!Msg, lockproxy!Call
<1>1. \A a : Checked(lockproxy!NewMsgCreateLockProxy(a))
  BY DEF lockproxy!NewMsgCreateLockProxy
<1>2. \A a, x, p : Checked(lockproxy!NewMsgCreateCoinAndDelegateToProxy(a, x, p))
  BY DEF lockproxy!NewMsgCreateCoinAndDelegateToProxy
<1>3. \A a, c, h : Checked(lockproxy!NewMsgBindProxyHash(a, c, h))
  BY DEF lockproxy!NewMsgBindProxyHash
<1>4. \A a, d, c, h : Checked(lockproxy!NewMsgBindAssetHash(a, d, c, h))
  BY DEF lockproxy!NewMsgBindAssetHash
<1>5. \A p, a, d, c, h, n : Checked(lockproxy!NewMsgLock(p, a, d, c, h, n))
  BY DEF lockproxy!NewMsgLock
<1>. QED
  BY <1>1, <1>2, <1>3, <1>4, <1>5

\* A message of lockproxy is signed by whom it acts for, or by nobody.
LEMMA LockProxyFormed == \A m \in lockproxy!Messages : Formed(m)
BY DEF Formed, Call, lockproxy!Messages, lockproxy!Msg, lockproxy!Call,
       lockproxy!NewMsgCreateLockProxy, lockproxy!NewMsgCreateCoinAndDelegateToProxy,
       lockproxy!NewMsgBindProxyHash, lockproxy!NewMsgBindAssetHash, lockproxy!NewMsgLock

\* A message of lockproxypip1 that is valid has good arguments.
LEMMA Pip1Checked ==
    /\ \A a : Checked(pip1!NewMsgCreateLockProxy(a))
    /\ \A a, x, p, c, q, h : Checked(pip1!NewMsgCreateCoinAndDelegateToProxy(a, x, p, c, q, h))
    /\ \A p, a, d, c, q, h, t, n, b, fee, to :
           Checked(pip1!NewMsgLock(p, a, d, c, q, h, t, n, b, fee, to))
<1>. USE GoodForms, OtherForms DEF Checked, pip1!Msg, pip1!Call
<1>1. \A a : Checked(pip1!NewMsgCreateLockProxy(a))
  BY DEF pip1!NewMsgCreateLockProxy
<1>2. \A a, x, p, c, q, h : Checked(pip1!NewMsgCreateCoinAndDelegateToProxy(a, x, p, c, q, h))
  BY DEF pip1!NewMsgCreateCoinAndDelegateToProxy
<1>3. \A p, a, d, c, q, h, t, n, b, fee, to :
         Checked(pip1!NewMsgLock(p, a, d, c, q, h, t, n, b, fee, to))
  BY DEF pip1!NewMsgLock
<1>. QED
  BY <1>1, <1>2, <1>3

\* A message of lockproxypip1 is signed by whom it acts for, or by nobody.
LEMMA Pip1Formed == \A m \in pip1!Messages : Formed(m)
BY DEF Formed, Call, pip1!Messages, pip1!Msg, pip1!Call, pip1!NewMsgCreateLockProxy,
       pip1!NewMsgCreateCoinAndDelegateToProxy, pip1!NewMsgLock

\* A message of btcx that is valid has good arguments.
LEMMA BtcxChecked ==
    /\ \A a, d, s : Checked(btcx!NewMsgCreateDenom(a, d, s))
    /\ \A a, d, c, h : Checked(btcx!NewMsgBindAssetHash(a, d, c, h))
    /\ \A a, d, c, h, n : Checked(btcx!NewMsgLock(a, d, c, h, n))
<1>. USE GoodForms, OtherForms DEF Checked, btcx!Msg, btcx!Call
<1>1. \A a, d, s : Checked(btcx!NewMsgCreateDenom(a, d, s))
  BY DEF btcx!NewMsgCreateDenom
<1>2. \A a, d, c, h : Checked(btcx!NewMsgBindAssetHash(a, d, c, h))
  BY DEF btcx!NewMsgBindAssetHash
<1>3. \A a, d, c, h, n : Checked(btcx!NewMsgLock(a, d, c, h, n))
  BY DEF btcx!NewMsgLock
<1>. QED
  BY <1>1, <1>2, <1>3

\* A message of btcx is signed by whom it acts for, or by nobody.
LEMMA BtcxFormed == \A m \in btcx!Messages : Formed(m)
BY DEF Formed, Call, btcx!Messages, btcx!Msg, btcx!Call, btcx!NewMsgCreateDenom,
       btcx!NewMsgBindAssetHash, btcx!NewMsgLock

\* A message of ft that is valid has good arguments.
LEMMA FtChecked ==
    /\ \A a, d : Checked(ft!NewMsgCreateDenom(a, d))
    /\ \A a, x : Checked(ft!NewMsgCreateCoins(a, x))
    /\ \A a, d, c, h : Checked(ft!NewMsgBindAssetHash(a, d, c, h))
    /\ \A a, d, c, h, n : Checked(ft!NewMsgLock(a, d, c, h, n))
<1>. USE GoodForms, OtherForms DEF Checked, ft!Msg, ft!Call
<1>1. \A a, d : Checked(ft!NewMsgCreateDenom(a, d))
  BY DEF ft!NewMsgCreateDenom
<1>2. \A a, x : Checked(ft!NewMsgCreateCoins(a, x))
  BY DEF ft!NewMsgCreateCoins
<1>3. \A a, d, c, h : Checked(ft!NewMsgBindAssetHash(a, d, c, h))
  BY DEF ft!NewMsgBindAssetHash
<1>4. \A a, d, c, h, n : Checked(ft!NewMsgLock(a, d, c, h, n))
  BY DEF ft!NewMsgLock
<1>. QED
  BY <1>1, <1>2, <1>3, <1>4

\* A message of ft is signed by whom it acts for, or by nobody.
LEMMA FtFormed == \A m \in ft!Messages : Formed(m)
BY DEF Formed, Call, ft!Messages, ft!Msg, ft!Call, ft!NewMsgCreateDenom,
       ft!NewMsgCreateCoins, ft!NewMsgBindAssetHash, ft!NewMsgLock

\* A message of headersync and ccm that is valid has good arguments.
LEMMA PolyChecked ==
    /\ \A a, h : Checked(poly!NewMsgSyncGenesisParam(a, h))
    /\ \A a, hs : Checked(poly!NewMsgSyncHeadersParam(a, hs))
    /\ \A a, c, p, h, q, k : Checked(poly!NewMsgProcessCrossChainTx(a, c, p, h, q, k))
    /\ \A c, h, m, b : Checked(poly!NewMsgCreateCrossChainTx(c, h, m, b))
<1>. USE GoodForms, OtherForms DEF Checked, poly!Msg, poly!Call
<1>1. \A a, h : Checked(poly!NewMsgSyncGenesisParam(a, h))
  BY DEF poly!NewMsgSyncGenesisParam
<1>2. \A a, hs : Checked(poly!NewMsgSyncHeadersParam(a, hs))
  BY DEF poly!NewMsgSyncHeadersParam
<1>3. \A a, c, p, h, q, k : Checked(poly!NewMsgProcessCrossChainTx(a, c, p, h, q, k))
  BY DEF poly!NewMsgProcessCrossChainTx
<1>4. \A c, h, m, b : Checked(poly!NewMsgCreateCrossChainTx(c, h, m, b))
  BY DEF poly!NewMsgCreateCrossChainTx
<1>. QED
  BY <1>1, <1>2, <1>3, <1>4

\* A message of headersync and ccm is signed by whom it acts for, or by nobody.
LEMMA PolyFormed == \A m \in poly!Messages : Formed(m)
BY DEF Formed, Call, poly!Messages, poly!Msg, poly!Call, poly!NewMsgSyncGenesisParam,
       poly!NewMsgSyncHeadersParam, poly!NewMsgProcessCrossChainTx,
       poly!NewMsgCreateCrossChainTx

-----------------------------------------------------------------------------
(* What commands and routes ask for                                        *)

\* The module's names for the ways of Client are Client's own.
LEMMA LockProxyUsesClient ==
    /\ \A u, to, names, values, msg :
           lockproxy!Cli(u, to, names, values, msg) => Cli(u, to, names, values, msg)
    /\ \A meant, msg :
           lockproxy!WriteGenerateStdTxResponse(meant, msg)
               => WriteGenerateStdTxResponse(meant, msg)
    /\ \A to, names, values, query : lockproxy!QueryWithData(to, names, values, query)
           => QueryWithData(to, names, values, query)
    /\ \A q, to, args : lockproxy!Answer(q, to, args) => Answer(q, to, args)
    /\ \A to, u, names, values : lockproxy!Meant(to, u, names, values) = Meant(to, u, names, values)
<1>1. \A to, u, names, values : lockproxy!Meant(to, u, names, values) = Meant(to, u, names, values)
  BY DEF lockproxy!Meant, Meant, lockproxy!Call, Call, lockproxy!Range, Range
<1>2. \A via, call : lockproxy!NewAsk(via, call) = NewAsk(via, call)
  BY DEF lockproxy!NewAsk, NewAsk, lockproxy!Cardinality, Cardinality,
         lockproxy!IsFiniteSet, IsFiniteSet
<1>3. \A u, to, names, values, msg :
         lockproxy!Cli(u, to, names, values, msg) => Cli(u, to, names, values, msg)
  <2>1. \A ask, u, msg : lockproxy!SignedTx(ask, u, msg) = SignedTx(ask, u, msg)
    BY DEF lockproxy!SignedTx, SignedTx
  <2>2. \A tx : lockproxy!Accepts(tx) => Accepts(tx)
    BY DEF lockproxy!Accepts, Accepts
  <2>3. \A u, via, meant, msg : lockproxy!GenerateOrBroadcastMsgs(u, via, meant, msg)
           => GenerateOrBroadcastMsgs(u, via, meant, msg)
    BY <1>2, <2>1, <2>2, Zenon DEF lockproxy!GenerateOrBroadcastMsgs, GenerateOrBroadcastMsgs
  <2>. QED
    BY <1>1, <2>3 DEF lockproxy!Cli, Cli
<1>4. \A meant, msg :
         lockproxy!WriteGenerateStdTxResponse(meant, msg) => WriteGenerateStdTxResponse(meant, msg)
  BY <1>2, Zenon DEF lockproxy!WriteGenerateStdTxResponse, WriteGenerateStdTxResponse
<1>5. \A to, names, values, query : lockproxy!QueryWithData(to, names, values, query)
         => QueryWithData(to, names, values, query)
  BY <1>1, <1>2, Zenon DEF lockproxy!QueryWithData, QueryWithData
<1>6. \A q, to, args : lockproxy!Answer(q, to, args) => Answer(q, to, args)
  BY Zenon DEF lockproxy!Answer, Answer, lockproxy!Call, Call
<1>. QED
  BY <1>1, <1>3, <1>4, <1>5, <1>6

\* lockproxypip1's names for the ways of Client are Client's own.
LEMMA Pip1UsesClient ==
    /\ \A u, to, names, values, msg :
           pip1!Cli(u, to, names, values, msg) => Cli(u, to, names, values, msg)
    /\ \A meant, msg :
           pip1!WriteGenerateStdTxResponse(meant, msg) => WriteGenerateStdTxResponse(meant, msg)
    /\ \A to, names, values, query : pip1!QueryWithData(to, names, values, query)
           => QueryWithData(to, names, values, query)
    /\ \A q, to, args : pip1!Answer(q, to, args) => Answer(q, to, args)
    /\ \A to, u, names, values : pip1!Meant(to, u, names, values) = Meant(to, u, names, values)
<1>1. \A to, u, names, values : pip1!Meant(to, u, names, values) = Meant(to, u, names, values)
  BY DEF pip1!Meant, Meant, pip1!Call, Call, pip1!Range, Range
<1>2. \A via, call : pip1!NewAsk(via, call) = NewAsk(via, call)
  BY DEF pip1!NewAsk, NewAsk, pip1!Cardinality, Cardinality, pip1!IsFiniteSet, IsFiniteSet
<1>3. \A u, to, names, values, msg :
         pip1!Cli(u, to, names, values, msg) => Cli(u, to, names, values, msg)
  <2>1. \A ask, u, msg : pip1!SignedTx(ask, u, msg) = SignedTx(ask, u, msg)
    BY DEF pip1!SignedTx, SignedTx
  <2>2. \A tx : pip1!Accepts(tx) => Accepts(tx)
    BY DEF pip1!Accepts, Accepts
  <2>3. \A u, via, meant, msg : pip1!GenerateOrBroadcastMsgs(u, via, meant, msg)
           => GenerateOrBroadcastMsgs(u, via, meant, msg)
    BY <1>2, <2>1, <2>2, Zenon DEF pip1!GenerateOrBroadcastMsgs, GenerateOrBroadcastMsgs
  <2>. QED
    BY <1>1, <2>3 DEF pip1!Cli, Cli
<1>4. \A meant, msg :
         pip1!WriteGenerateStdTxResponse(meant, msg) => WriteGenerateStdTxResponse(meant, msg)
  BY <1>2, Zenon DEF pip1!WriteGenerateStdTxResponse, WriteGenerateStdTxResponse
<1>5. \A to, names, values, query : pip1!QueryWithData(to, names, values, query)
         => QueryWithData(to, names, values, query)
  BY <1>1, <1>2, Zenon DEF pip1!QueryWithData, QueryWithData
<1>6. \A q, to, args : pip1!Answer(q, to, args) => Answer(q, to, args)
  BY Zenon DEF pip1!Answer, Answer, pip1!Call, Call
<1>. QED
  BY <1>1, <1>3, <1>4, <1>5, <1>6

\* btcx's names for the ways of Client are Client's own.
LEMMA BtcxUsesClient ==
    /\ \A u, to, names, values, msg :
           btcx!Cli(u, to, names, values, msg) => Cli(u, to, names, values, msg)
    /\ \A meant, msg :
           btcx!WriteGenerateStdTxResponse(meant, msg) => WriteGenerateStdTxResponse(meant, msg)
    /\ \A to, names, values, query : btcx!QueryWithData(to, names, values, query)
           => QueryWithData(to, names, values, query)
    /\ \A q, to, args : btcx!Answer(q, to, args) => Answer(q, to, args)
    /\ \A to, u, names, values : btcx!Meant(to, u, names, values) = Meant(to, u, names, values)
<1>1. \A to, u, names, values : btcx!Meant(to, u, names, values) = Meant(to, u, names, values)
  BY DEF btcx!Meant, Meant, btcx!Call, Call, btcx!Range, Range
<1>2. \A via, call : btcx!NewAsk(via, call) = NewAsk(via, call)
  BY DEF btcx!NewAsk, NewAsk, btcx!Cardinality, Cardinality, btcx!IsFiniteSet, IsFiniteSet
<1>3. \A u, to, names, values, msg :
         btcx!Cli(u, to, names, values, msg) => Cli(u, to, names, values, msg)
  <2>1. \A ask, u, msg : btcx!SignedTx(ask, u, msg) = SignedTx(ask, u, msg)
    BY DEF btcx!SignedTx, SignedTx
  <2>2. \A tx : btcx!Accepts(tx) => Accepts(tx)
    BY DEF btcx!Accepts, Accepts
  <2>3. \A u, via, meant, msg : btcx!GenerateOrBroadcastMsgs(u, via, meant, msg)
           => GenerateOrBroadcastMsgs(u, via, meant, msg)
    BY <1>2, <2>1, <2>2, Zenon DEF btcx!GenerateOrBroadcastMsgs, GenerateOrBroadcastMsgs
  <2>. QED
    BY <1>1, <2>3 DEF btcx!Cli, Cli
<1>4. \A meant, msg :
         btcx!WriteGenerateStdTxResponse(meant, msg) => WriteGenerateStdTxResponse(meant, msg)
  BY <1>2, Zenon DEF btcx!WriteGenerateStdTxResponse, WriteGenerateStdTxResponse
<1>5. \A to, names, values, query : btcx!QueryWithData(to, names, values, query)
         => QueryWithData(to, names, values, query)
  BY <1>1, <1>2, Zenon DEF btcx!QueryWithData, QueryWithData
<1>6. \A q, to, args : btcx!Answer(q, to, args) => Answer(q, to, args)
  BY Zenon DEF btcx!Answer, Answer, btcx!Call, Call
<1>. QED
  BY <1>1, <1>3, <1>4, <1>5, <1>6

\* ft's names for the ways of Client are Client's own.
LEMMA FtUsesClient ==
    /\ \A u, to, names, values, msg :
           ft!Cli(u, to, names, values, msg) => Cli(u, to, names, values, msg)
    /\ \A meant, msg :
           ft!WriteGenerateStdTxResponse(meant, msg) => WriteGenerateStdTxResponse(meant, msg)
    /\ \A to, names, values, query : ft!QueryWithData(to, names, values, query)
           => QueryWithData(to, names, values, query)
    /\ \A q, to, args : ft!Answer(q, to, args) => Answer(q, to, args)
    /\ \A to, u, names, values : ft!Meant(to, u, names, values) = Meant(to, u, names, values)
<1>1. \A to, u, names, values : ft!Meant(to, u, names, values) = Meant(to, u, names, values)
  BY DEF ft!Meant, Meant, ft!Call, Call, ft!Range, Range
<1>2. \A via, call : ft!NewAsk(via, call) = NewAsk(via, call)
  BY DEF ft!NewAsk, NewAsk, ft!Cardinality, Cardinality, ft!IsFiniteSet, IsFiniteSet
<1>3. \A u, to, names, values, msg :
         ft!Cli(u, to, names, values, msg) => Cli(u, to, names, values, msg)
  <2>1. \A ask, u, msg : ft!SignedTx(ask, u, msg) = SignedTx(ask, u, msg)
    BY DEF ft!SignedTx, SignedTx
  <2>2. \A tx : ft!Accepts(tx) => Accepts(tx)
    BY DEF ft!Accepts, Accepts
  <2>3. \A u, via, meant, msg : ft!GenerateOrBroadcastMsgs(u, via, meant, msg)
           => GenerateOrBroadcastMsgs(u, via, meant, msg)
    BY <1>2, <2>1, <2>2, Zenon DEF ft!GenerateOrBroadcastMsgs, GenerateOrBroadcastMsgs
  <2>. QED
    BY <1>1, <2>3 DEF ft!Cli, Cli
<1>4. \A meant, msg :
         ft!WriteGenerateStdTxResponse(meant, msg) => WriteGenerateStdTxResponse(meant, msg)
  BY <1>2, Zenon DEF ft!WriteGenerateStdTxResponse, WriteGenerateStdTxResponse
<1>5. \A to, names, values, query : ft!QueryWithData(to, names, values, query)
         => QueryWithData(to, names, values, query)
  BY <1>1, <1>2, Zenon DEF ft!QueryWithData, QueryWithData
<1>6. \A q, to, args : ft!Answer(q, to, args) => Answer(q, to, args)
  BY Zenon DEF ft!Answer, Answer, ft!Call, Call
<1>. QED
  BY <1>1, <1>3, <1>4, <1>5, <1>6

\* The names of headersync and ccm for the ways of Client are Client's own.
LEMMA PolyUsesClient ==
    /\ \A u, to, names, values, msg :
           poly!Cli(u, to, names, values, msg) => Cli(u, to, names, values, msg)
    /\ \A meant, msg :
           poly!WriteGenerateStdTxResponse(meant, msg) => WriteGenerateStdTxResponse(meant, msg)
    /\ \A to, names, values, query : poly!QueryWithData(to, names, values, query)
           => QueryWithData(to, names, values, query)
    /\ \A q, to, args : poly!Answer(q, to, args) => Answer(q, to, args)
    /\ \A to, u, names, values : poly!Meant(to, u, names, values) = Meant(to, u, names, values)
<1>1. \A to, u, names, values : poly!Meant(to, u, names, values) = Meant(to, u, names, values)
  BY DEF poly!Meant, Meant, poly!Call, Call, poly!Range, Range
<1>2. \A via, call : poly!NewAsk(via, call) = NewAsk(via, call)
  BY DEF poly!NewAsk, NewAsk, poly!Cardinality, Cardinality, poly!IsFiniteSet, IsFiniteSet
<1>3. \A u, to, names, values, msg :
         poly!Cli(u, to, names, values, msg) => Cli(u, to, names, values, msg)
  <2>1. \A ask, u, msg : poly!SignedTx(ask, u, msg) = SignedTx(ask, u, msg)
    BY DEF poly!SignedTx, SignedTx
  <2>2. \A tx : poly!Accepts(tx) => Accepts(tx)
    BY DEF poly!Accepts, Accepts
  <2>3. \A u, via, meant, msg : poly!GenerateOrBroadcastMsgs(u, via, meant, msg)
           => GenerateOrBroadcastMsgs(u, via, meant, msg)
    BY <1>2, <2>1, <2>2, Zenon DEF poly!GenerateOrBroadcastMsgs, GenerateOrBroadcastMsgs
  <2>. QED
    BY <1>1, <2>3 DEF poly!Cli, Cli
<1>4. \A meant, msg :
         poly!WriteGenerateStdTxResponse(meant, msg) => WriteGenerateStdTxResponse(meant, msg)
  BY <1>2, Zenon DEF poly!WriteGenerateStdTxResponse, WriteGenerateStdTxResponse
<1>5. \A to, names, values, query : poly!QueryWithData(to, names, values, query)
         => QueryWithData(to, names, values, query)
  BY <1>1, <1>2, Zenon DEF poly!QueryWithData, QueryWithData
<1>6. \A q, to, args : poly!Answer(q, to, args) => Answer(q, to, args)
  BY Zenon DEF poly!Answer, Answer, poly!Call, Call
<1>. QED
  BY <1>1, <1>3, <1>4, <1>5, <1>6

\* Arguments are passed on by position: v names them, the message takes them
\* in its order.
LEMMA LockProxyFits ==
    /\ \A u, s : Fits(u, Meant("lockproxy.CreateLockProxy", u, <<"creator">>, <<u>>),
                      lockproxy!NewMsgCreateLockProxy(s))
    /\ \A u, s, v :
           Fits(u, Meant("lockproxy.CreateCoinAndDelegateToProxy", u,
                         <<"coin", "lockProxyHash">>, v),
                lockproxy!NewMsgCreateCoinAndDelegateToProxy(s, v[1], v[2]))
    /\ \A u, s, v :
           Fits(u, Meant("lockproxy.BindProxyHash", u, <<"toChainId", "toChainProxyHash">>, v),
                lockproxy!NewMsgBindProxyHash(s, v[1], v[2]))
    /\ \A u, s, v :
           Fits(u, Meant("lockproxy.BindAssetHash", u,
                         <<"denom", "toChainId", "toAssetHash">>, v),
                lockproxy!NewMsgBindAssetHash(s, v[1], v[2], v[3]))
    /\ \A u, s, v :
           Fits(u, Meant("lockproxy.Lock", u,
                         <<"lockProxyHash", "denom", "toChainId", "toAddress", "value">>, v),
                lockproxy!NewMsgLock(v[1], s, v[2], v[3], v[4], v[5]))
<1>. USE DEF Fits, Meant, Call, Range, lockproxy!Msg, lockproxy!Call
<1>1. \A u, s : Fits(u, Meant("lockproxy.CreateLockProxy", u, <<"creator">>, <<u>>),
                     lockproxy!NewMsgCreateLockProxy(s))
  BY DEF lockproxy!NewMsgCreateLockProxy
<1>2. \A u, s, v :
          Fits(u, Meant("lockproxy.CreateCoinAndDelegateToProxy", u,
                        <<"coin", "lockProxyHash">>, v),
               lockproxy!NewMsgCreateCoinAndDelegateToProxy(s, v[1], v[2]))
  BY DEF lockproxy!NewMsgCreateCoinAndDelegateToProxy
<1>3. \A u, s, v :
          Fits(u, Meant("lockproxy.BindProxyHash", u, <<"toChainId", "toChainProxyHash">>, v),
               lockproxy!NewMsgBindProxyHash(s, v[1], v[2]))
  BY DEF lockproxy!NewMsgBindProxyHash
<1>4. \A u, s, v :
          Fits(u, Meant("lockproxy.BindAssetHash", u,
                        <<"denom", "toChainId", "toAssetHash">>, v),
               lockproxy!NewMsgBindAssetHash(s, v[1], v[2], v[3]))
  BY DEF lockproxy!NewMsgBindAssetHash
<1>5. \A u, s, v :
          Fits(u, Meant("lockproxy.Lock", u,
                        <<"lockProxyHash", "denom", "toChainId", "toAddress", "value">>, v),
               lockproxy!NewMsgLock(v[1], s, v[2], v[3], v[4], v[5]))
  BY DEF lockproxy!NewMsgLock
<1>. HIDE DEF Fits
<1>. QED
  BY <1>1, <1>2, <1>3, <1>4, <1>5, Zenon

\* A message of lockproxypip1 holds the values v in the order of their names.
LEMMA Pip1Fits ==
    \A u, s : Fits(u, Meant("lockproxypip1.CreateLockProxy", u, <<"creator">>, <<u>>),
                   pip1!NewMsgCreateLockProxy(s))
BY DEF Fits, Meant, Call, Range, pip1!Msg, pip1!Call, pip1!NewMsgCreateLockProxy

\* A message of btcx holds the values v in the order of their names.
LEMMA BtcxFits ==
    /\ \A u, s, v : Fits(u, Meant("btcx.CreateDenom", u, <<"denom", "redeemScript">>, v),
                         btcx!NewMsgCreateDenom(s, v[1], v[2]))
    /\ \A u, s, v :
           Fits(u, Meant("btcx.BindAssetHash", u, <<"denom", "toChainId", "toAssetHash">>, v),
                btcx!NewMsgBindAssetHash(s, v[1], v[2], v[3]))
    /\ \A u, s, v :
           Fits(u, Meant("btcx.Lock", u, <<"denom", "toChainId", "toAddress", "value">>, v),
                btcx!NewMsgLock(s, v[1], v[2], v[3], v[4]))
<1>. USE DEF Fits, Meant, Call, Range, btcx!Msg, btcx!Call
<1>1. \A u, s, v : Fits(u, Meant("btcx.CreateDenom", u, <<"denom", "redeemScript">>, v),
                        btcx!NewMsgCreateDenom(s, v[1], v[2]))
  BY DEF btcx!NewMsgCreateDenom
<1>2. \A u, s, v :
          Fits(u, Meant("btcx.BindAssetHash", u, <<"denom", "toChainId", "toAssetHash">>, v),
               btcx!NewMsgBindAssetHash(s, v[1], v[2], v[3]))
  BY DEF btcx!NewMsgBindAssetHash
<1>3. \A u, s, v :
          Fits(u, Meant("btcx.Lock", u, <<"denom", "toChainId", "toAddress", "value">>, v),
               btcx!NewMsgLock(s, v[1], v[2], v[3], v[4]))
  BY DEF btcx!NewMsgLock
<1>. HIDE DEF Fits
<1>. QED
  BY <1>1, <1>2, <1>3, Zenon

\* A message of ft holds the values v in the order of their names.
LEMMA FtFits ==
    /\ \A u, s, v : Fits(u, Meant("ft.CreateDenom", u, <<"denom">>, v),
                         ft!NewMsgCreateDenom(s, v[1]))
    /\ \A u, s, v : Fits(u, Meant("ft.CreateCoins", u, <<"coins">>, v),
                         ft!NewMsgCreateCoins(s, v[1]))
    /\ \A u, s, v :
           Fits(u, Meant("ft.BindAssetHash", u, <<"denom", "toChainId", "toAssetHash">>, v),
                ft!NewMsgBindAssetHash(s, v[1], v[2], v[3]))
    /\ \A u, s, v :
           Fits(u, Meant("ft.Lock", u, <<"denom", "toChainId", "toAddress", "value">>, v),
                ft!NewMsgLock(s, v[1], v[2], v[3], v[4]))
BY DEF Fits, Meant, Call, Range, ft!Msg, ft!Call, ft!NewMsgCreateDenom, ft!NewMsgCreateCoins,
       ft!NewMsgBindAssetHash, ft!NewMsgLock

\* A message of headersync and ccm holds the values v in the order of their names.
LEMMA PolyFits ==
    /\ \A u, s, v : Fits(u, Meant("headersync.SyncGenesisHeader", u, <<"genesisHeader">>, v),
                         poly!NewMsgSyncGenesisParam(s, v[1]))
    /\ \A u, s, v : Fits(u, Meant("headersync.SyncBlockHeaders", u, <<"headers">>, v),
                         poly!NewMsgSyncHeadersParam(s, v[1]))
    /\ \A u, s, v :
           Fits(u, Meant("ccm.ProcessCrossChainTx", u,
                         <<"fromChainId", "proof", "header", "headerProof", "curHeader">>, v),
                poly!NewMsgProcessCrossChainTx(s, v[1], v[2], v[3], v[4], v[5]))
<1>. USE DEF Fits, Meant, Call, Range, poly!Msg, poly!Call
<1>1. \A u, s, v : Fits(u, Meant("headersync.SyncGenesisHeader", u, <<"genesisHeader">>, v),
                        poly!NewMsgSyncGenesisParam(s, v[1]))
  BY DEF poly!NewMsgSyncGenesisParam
<1>2. \A u, s, v : Fits(u, Meant("headersync.SyncBlockHeaders", u, <<"headers">>, v),
                        poly!NewMsgSyncHeadersParam(s, v[1]))
  BY DEF poly!NewMsgSyncHeadersParam
<1>3. \A u, s, v :
          Fits(u, Meant("ccm.ProcessCrossChainTx", u,
                        <<"fromChainId", "proof", "header", "headerProof", "curHeader">>, v),
               poly!NewMsgProcessCrossChainTx(s, v[1], v[2], v[3], v[4], v[5]))
  BY DEF poly!NewMsgProcessCrossChainTx
<1>. HIDE DEF Fits
<1>. QED
  BY <1>1, <1>2, <1>3, Zenon

-----------------------------------------------------------------------------
(* What a request does to the client                                       *)

\* It becomes a transaction at once, ...
Broadcasts(u, via) == \E meant, msg :
    /\ Fits(u, meant, msg) /\ Checked(msg)
    /\ GenerateOrBroadcastMsgs(u, via, meant, msg)

\* ... a message to sign, ...
Returns(u) == \E meant, msg :
    /\ Suits(u, "rest", meant, msg) /\ Checked(msg)
    /\ WriteGenerateStdTxResponse(meant, msg)

\* ... or a query, which can be answered in one way only, the one that is meant.
MayAnswer(query, to, args) ==
    LET d == query.data IN
    \/ /\ query.route = "lockproxy" /\ query.path = "query_proxy_by_operator"
       /\ to = "lockproxy.GetLockProxyByOperator" /\ args = [operator |-> d.Operator]
    \/ /\ query.route = "lockproxy" /\ query.path = "proxy_hash"
       /\ to = "lockproxy.GetProxyHash"
       /\ args = [lockProxyHash |-> d.LockProxyHash, toChainId |-> d.ChainId]
    \/ /\ query.route = "lockproxy" /\ query.path = "asset_hash"
       /\ to = "lockproxy.GetAssetHash"
       /\ args = [lockProxyHash |-> d.LockProxyHash, denom |-> d.SourceAssetDenom,
                  toChainId |-> d.ChainId]
    \/ /\ query.route = "lockproxypip1" /\ query.path = "query_proxy_by_operator"
       /\ to = "lockproxypip1.GetLockProxyByOperator" /\ args = [operator |-> d.Operator]
    \/ /\ query.route = "lockproxypip1" /\ query.path = "registry"
       /\ to = "lockproxypip1.AssetIsRegistered"
       /\ args = [lockProxyHash |-> d.LockProxyHash, assetHash |-> d.AssetHash,
                  nativeChainId |-> d.NativeChainId,
                  nativeLockProxyHash |-> d.NativeLockProxyHash,
                  nativeAssetHash |-> d.NativeAssetHash]
    \/ /\ query.route = "btcx" /\ query.path = "denom_info"
       /\ to = "btcx.GetDenomInfo" /\ args = [denom |-> d.Denom]
    \/ /\ query.route = "btcx" /\ query.path = "denom_cc_info"
       /\ to = "btcx.GetDenomCrossChainInfo"
       /\ args = [denom |-> d.Denom, toChainId |-> d.ChainId]
    \/ /\ query.route = "ft" /\ query.path = "denom_info"
       /\ to = "ft.GetDenomInfo" /\ args = [denom |-> d.Denom]
    \/ /\ query.route = "ft" /\ query.path = "denom_cc_info"
       /\ to = "ft.GetDenomCrossChainInfo"
       /\ args = [denom |-> d.Denom, toChainId |-> d.ChainId]
    \/ /\ query.route = "headersync" /\ query.path = "consensus_peers"
       /\ to = "headersync.GetConsensusPeers" /\ args = [chainId |-> d.ChainId]
    \/ /\ query.route = "ccm" /\ query.path = "if_contain_contract"
       /\ to = "ccm.IfContainToContract"
       /\ args = [keystore |-> d.KeyStore, toContract |-> d.ToContractAddr,
                  fromChainId |-> d.FromChainId]
    \/ /\ query.route = "ccm" /\ query.path = "parameters"
       /\ to = "ccm.GetParams" /\ args = <<>>
    \/ /\ query.route = "ccm" /\ query.path = "module_balance"
       /\ to = "ccm.GetModuleBalance" /\ args = [moduleName |-> d.ModuleName]

AnswersAs(query, meant) ==
    \A to, args : MayAnswer(query, to, args) => meant = Call(to, Empty, args)

Inquires == \E to, names, values, query :
    /\ AnswersAs(query, Meant(to, Empty, names, values))
    /\ QueryWithData(to, names, values, query)

\* A command of lockproxy broadcasts what its line means.
LEMMA LockProxyTypes ==
    ASSUME NEW u \in User, NEW line, lockproxy!GetTxCmd(u, line)
    PROVE  Broadcasts(u, "cli")
<1>1. SUFFICES \E to, names, values, msg :
          /\ Fits(u, Meant(to, u, names, values), msg) /\ Checked(msg)
          /\ lockproxy!Cli(u, to, names, values, msg)
  BY LockProxyUsesClient DEF Broadcasts, Cli
<1>2. CASE lockproxy!SendCreateLockProxyTxCmd(u, line.args)
  BY <1>2, LockProxyFits, LockProxyChecked, Zenon DEF lockproxy!SendCreateLockProxyTxCmd
<1>3. CASE lockproxy!SendBindProxyHashTxCmd(u, line.args)
  BY <1>3, LockProxyFits, LockProxyChecked, Zenon DEF lockproxy!SendBindProxyHashTxCmd
<1>4. CASE lockproxy!SendBindAssetHashTxCmd(u, line.args)
  BY <1>4, LockProxyFits, LockProxyChecked, Zenon DEF lockproxy!SendBindAssetHashTxCmd
<1>5. CASE lockproxy!SendLockTxCmd(u, line.args)
  BY <1>5, LockProxyFits, LockProxyChecked, Zenon DEF lockproxy!SendLockTxCmd
<1>. QED
  BY <1>2, <1>3, <1>4, <1>5 DEF lockproxy!GetTxCmd

\* A command of lockproxypip1 broadcasts what its line means.
LEMMA Pip1Types ==
    ASSUME NEW u \in User, NEW line, pip1!GetTxCmd(u, line)
    PROVE  Broadcasts(u, "cli")
<1>1. SUFFICES \E to, names, values, msg :
          /\ Fits(u, Meant(to, u, names, values), msg) /\ Checked(msg)
          /\ pip1!Cli(u, to, names, values, msg)
  BY Pip1UsesClient DEF Broadcasts, Cli
<1>. QED
  BY Pip1Fits, Pip1Checked, Zenon DEF pip1!SendCreateLockProxyTxCmd, pip1!GetTxCmd

\* A command of btcx broadcasts what its line means.
LEMMA BtcxTypes ==
    ASSUME NEW u \in User, NEW line, btcx!GetTxCmd(u, line)
    PROVE  Broadcasts(u, "cli")
<1>1. SUFFICES \E to, names, values, msg :
          /\ Fits(u, Meant(to, u, names, values), msg) /\ Checked(msg)
          /\ btcx!Cli(u, to, names, values, msg)
  BY BtcxUsesClient DEF Broadcasts, Cli
<1>2. CASE btcx!SendCreateCoinTxCmd(u, line.args)
  BY <1>2, BtcxFits, BtcxChecked, Zenon DEF btcx!SendCreateCoinTxCmd
<1>3. CASE btcx!SendBindAssetHashTxCmd(u, line.args)
  BY <1>3, BtcxFits, BtcxChecked, Zenon DEF btcx!SendBindAssetHashTxCmd
<1>4. CASE btcx!SendLockTxCmd(u, line.args)
  BY <1>4, BtcxFits, BtcxChecked, Zenon DEF btcx!SendLockTxCmd
<1>. QED
  BY <1>2, <1>3, <1>4 DEF btcx!GetTxCmd

\* The creator is typed, and must be the one who signs.
LEMMA FtTypes ==
    ASSUME NEW u \in User, NEW line, ft!GetTxCmd(u, line)
    PROVE  Broadcasts(u, "cli")
<1>1. SUFFICES \E to, names, values, msg :
          /\ Fits(u, Meant(to, u, names, values), msg) /\ Checked(msg)
          /\ ft!Cli(u, to, names, values, msg)
  BY FtUsesClient DEF Broadcasts, Cli
<1>2. CASE ft!SendCreateDenomTxCmd(u, line.args)
  <2>. DEFINE v == <<line.args[2]>>
  <2>1. Fits(u, Meant("ft.CreateDenom", u, <<"denom">>, v),
             ft!NewMsgCreateDenom(line.args[1].addr, v[1]))
    BY FtFits, Zenon
  <2>. QED
    BY <1>2, <2>1, FtChecked DEF ft!SendCreateDenomTxCmd
<1>3. CASE ft!SendBindAssetHashTxCmd(u, line.args)
  BY <1>3, FtFits, FtChecked, Zenon DEF ft!SendBindAssetHashTxCmd
<1>4. CASE ft!SendLockTxCmd(u, line.args)
  BY <1>4, FtFits, FtChecked, Zenon DEF ft!SendLockTxCmd
<1>5. CASE ft!SendCreateCoinsTxCmd(u, line.args)
  <2>. DEFINE v == <<line.args[2]>>
  <2>1. Fits(u, Meant("ft.CreateCoins", u, <<"coins">>, v),
             ft!NewMsgCreateCoins(line.args[1].addr, v[1]))
    BY FtFits, Zenon
  <2>. QED
    BY <1>5, <2>1, FtChecked DEF ft!SendCreateCoinsTxCmd
<1>. QED
  BY <1>2, <1>3, <1>4, <1>5 DEF ft!GetTxCmd

\* A command of headersync and ccm broadcasts what its line means.
LEMMA PolyTypes ==
    ASSUME NEW u \in User, NEW line, poly!GetTxCmd(u, line)
    PROVE  Broadcasts(u, "cli")
<1>1. SUFFICES \E to, names, values, msg :
          /\ Fits(u, Meant(to, u, names, values), msg) /\ Checked(msg)
          /\ poly!Cli(u, to, names, values, msg)
  BY PolyUsesClient DEF Broadcasts, Cli
<1>2. CASE poly!SendSyncGenesisTxCmd(u, line.args)
  BY <1>2, PolyFits, PolyChecked, Zenon DEF poly!SendSyncGenesisTxCmd
<1>3. CASE poly!SendSyncHeaderTxCmd(u, line.args)
  <2>. DEFINE v == << <<line.args[1]>> >>
  <2>1. Fits(u, Meant("headersync.SyncBlockHeaders", u, <<"headers">>, v),
             poly!NewMsgSyncHeadersParam(u, v[1]))
    BY PolyFits, Zenon
  <2>. QED
    BY <1>3, <2>1, PolyChecked DEF poly!SendSyncHeaderTxCmd
<1>. QED
  BY <1>2, <1>3 DEF poly!GetTxCmd

\* A message that says what is posted will do.
LEMMA FittingReturns == \A u :
    (\E meant, msg : /\ Fits(u, meant, msg) /\ Checked(msg)
                     /\ WriteGenerateStdTxResponse(meant, msg))
        => Returns(u)
BY DEF Fits, Suits, Carries, Returns

\* A route of lockproxy returns a message that says what was posted, or one that
\* swaps the proxy and the sender.
LEMMA LockProxyPosts ==
    ASSUME NEW u \in User, NEW r, lockproxy!registerTxRoutes(u, r)
    PROVE  Returns(u)
<1>. DEFINE Posted == \E meant, msg :
                /\ Fits(u, meant, msg) /\ Checked(msg)
                /\ lockproxy!WriteGenerateStdTxResponse(meant, msg)
<1>1. Posted => Returns(u)
  BY FittingReturns, LockProxyUsesClient, Zenon
<1>2. CASE lockproxy!createLockProxyRequestHandlerFn(u, r)
  <2>1. Posted
    BY <1>2, LockProxyFits, LockProxyChecked, LockProxyUsesClient, Zenon
       DEF lockproxy!createLockProxyRequestHandlerFn
  <2>. QED
    BY <1>1, <2>1
<1>3. CASE lockproxy!CreateAndDelegateCoinRequestHandlerFn(u, r)
  <2>1. Posted
    BY <1>3, LockProxyFits, LockProxyChecked, LockProxyUsesClient, Zenon
       DEF lockproxy!CreateAndDelegateCoinRequestHandlerFn
  <2>. QED
    BY <1>1, <2>1
<1>4. CASE lockproxy!bindProxyRequestHandlerFn(u, r)
  <2>1. Posted
    BY <1>4, LockProxyFits, LockProxyChecked, LockProxyUsesClient, Zenon
       DEF lockproxy!bindProxyRequestHandlerFn
  <2>. QED
    BY <1>1, <2>1
<1>5. CASE lockproxy!bindAssetRequestHandlerFn(u, r)
  <2>. DEFINE v == <<r.denom, r.to_chain_id, r.to_asset_hash>>
              msg == lockproxy!NewMsgBindAssetHash(ServerFrom, v[1], v[2], v[3])
  <2>1. /\ Fits(u, Meant("lockproxy.BindAssetHash", u,
                         <<"denom", "toChainId", "toAssetHash">>, v), msg)
        /\ Checked(msg)
    BY LockProxyFits, LockProxyChecked, Zenon
  <2>2. Posted
    BY <1>5, <2>1, LockProxyUsesClient DEF lockproxy!bindAssetRequestHandlerFn
  <2>. QED
    BY <1>1, <2>2
<1>6. CASE lockproxy!lockRequestHandlerFn(u, r)
  <2>. DEFINE v == <<r.lock_proxy, r.denom, r.to_chain_id, r.to_address, r.amount>>
              names == <<"lockProxyHash", "denom", "toChainId", "toAddress", "value">>
              meant == Meant("lockproxy.Lock", u, names, v)
              msg == lockproxy!NewMsgLock(ServerFrom, v[1], v[2], v[3], v[4], v[5])
  <2>1. Checked(msg)
    BY LockProxyChecked, Zenon
  <2>2. meant = Call("lockproxy.Lock", u,
                     [lockProxyHash |-> v[1], denom |-> v[2], toChainId |-> v[3],
                      toAddress |-> v[4], value |-> v[5]])
    BY DEF Meant, Call, Range
  <2>3. ASSUME msg.signers = {u}
        PROVE  LockSwapped(meant, msg.call)
    <3>1. v[1] = u
      BY <2>3 DEF lockproxy!NewMsgLock, lockproxy!Msg
    <3>2. msg.call = Call("lockproxy.Lock", u,
                          [lockProxyHash |-> ServerFrom, denom |-> v[2], toChainId |-> v[3],
                           toAddress |-> v[4], value |-> v[5]])
      BY <3>1 DEF lockproxy!NewMsgLock, lockproxy!Msg, lockproxy!Call, Call
    <3>. QED
      BY <2>2, <3>1, <3>2 DEF LockSwapped, Call
  <2>4. Suits(u, "rest", meant, msg)
    BY <2>2, <2>3 DEF Suits, Carries, Call
  <2>5. lockproxy!WriteGenerateStdTxResponse(meant, msg)
    BY <1>6, LockProxyUsesClient DEF lockproxy!lockRequestHandlerFn
  <2>. HIDE DEF meant, msg
  <2>. QED
    BY <2>1, <2>4, <2>5, LockProxyUsesClient, Zenon DEF Returns
<1>. QED
  BY <1>2, <1>3, <1>4, <1>5, <1>6 DEF lockproxy!registerTxRoutes

\* A route of lockproxypip1 returns a message that says what was posted.
LEMMA Pip1Posts ==
    ASSUME NEW u \in User, NEW r, pip1!registerTxRoutes(u, r)
    PROVE  Returns(u)
BY FittingReturns, Pip1Fits, Pip1Checked, Pip1UsesClient, Zenon
   DEF pip1!registerTxRoutes, pip1!createLockProxyRequestHandlerFn

\* A route of btcx returns a message that says what was posted, but for the chain.
LEMMA BtcxPosts ==
    ASSUME NEW u \in User, NEW r, btcx!registerTxRoutes(u, r)
    PROVE  Returns(u)
<1>1. CASE btcx!createCoinRequestHandlerFn(u, r)
  <2>. DEFINE v == <<r.denom, r.redeem_script>>
              msg == btcx!NewMsgCreateDenom(u, v[1], v[2])
  <2>1. /\ Fits(u, Meant("btcx.CreateDenom", u, <<"denom", "redeemScript">>, v), msg)
        /\ Checked(msg)
    BY BtcxFits, BtcxChecked, Zenon
  <2>2. WriteGenerateStdTxResponse(
            Meant("btcx.CreateDenom", u, <<"denom", "redeemScript">>, v), msg)
    BY <1>1, BtcxUsesClient DEF btcx!createCoinRequestHandlerFn
  <2>. HIDE DEF v, msg
  <2>. QED
    BY <2>1, <2>2, FittingReturns, Zenon
<1>2. CASE btcx!bindAssetHashRequestHandlerFn(u, r)
  <2>. DEFINE c == btcx!ToldChain(r, "redeem_script")
              d == btcx!Field(r, "redeem_script", 0)
              meant == Meant("btcx.BindAssetHash", u, <<"denom", "toChainId", "toAssetHash">>,
                             <<r.denom, c, r.to_asset_hash>>)
              msg == btcx!NewMsgBindAssetHash(u, r.denom, d, r.to_asset_hash)
  <2>1. Checked(msg)
    BY BtcxChecked, Zenon
  <2>2. WriteGenerateStdTxResponse(meant, msg)
    BY <1>2, BtcxUsesClient DEF btcx!bindAssetHashRequestHandlerFn
  <2>. HIDE DEF c, d
  <2>3. meant = Call("btcx.BindAssetHash", u,
                     [denom |-> r.denom, toChainId |-> c, toAssetHash |-> r.to_asset_hash])
    BY DEF Meant, Call, Range
  <2>4. msg.call = Call("btcx.BindAssetHash", u,
                        [denom |-> r.denom, toChainId |-> d, toAssetHash |-> r.to_asset_hash])
    BY DEF btcx!NewMsgBindAssetHash, btcx!Msg, btcx!Call, Call
  <2>5. Suits(u, "rest", meant, msg)
    BY <2>3, <2>4 DEF Suits, Carries, ChainMistagged, Call
  <2>. HIDE DEF meant, msg
  <2>. QED
    BY <2>1, <2>2, <2>5, Zenon DEF Returns
<1>3. CASE btcx!lockRequestHandlerFn(u, r)
  <2>. DEFINE c == btcx!ToldChain(r, "to_Chain_id")
              d == btcx!Field(r, "to_Chain_id", 0)
              meant == Meant("btcx.Lock", u, <<"denom", "toChainId", "toAddress", "value">>,
                             <<r.source_asset_denom, c, r.to_address_bs, r.value>>)
              msg == btcx!NewMsgLock(u, r.source_asset_denom, d, r.to_address_bs, r.value)
  <2>1. Checked(msg)
    BY BtcxChecked, Zenon
  <2>2. WriteGenerateStdTxResponse(meant, msg)
    BY <1>3, BtcxUsesClient DEF btcx!lockRequestHandlerFn
  <2>. HIDE DEF c, d
  <2>3. meant = Call("btcx.Lock", u,
                     [denom |-> r.source_asset_denom, toChainId |-> c,
                      toAddress |-> r.to_address_bs, value |-> r.value])
    BY DEF Meant, Call, Range
  <2>4. msg.call = Call("btcx.Lock", u,
                        [denom |-> r.source_asset_denom, toChainId |-> d,
                         toAddress |-> r.to_address_bs, value |-> r.value])
    BY DEF btcx!NewMsgLock, btcx!Msg, btcx!Call, Call
  <2>5. Suits(u, "rest", meant, msg)
    BY <2>3, <2>4 DEF Suits, Carries, ChainMistagged, Call
  <2>. HIDE DEF meant, msg
  <2>. QED
    BY <2>1, <2>2, <2>5, Zenon DEF Returns
<1>. QED
  BY <1>1, <1>2, <1>3 DEF btcx!registerTxRoutes

\* A route of ft returns a message that says what was posted.
LEMMA FtPosts ==
    ASSUME NEW u \in User, NEW r, ft!registerTxRoutes(u, r)
    PROVE  Returns(u)
<1>1. SUFFICES \E meant, msg :
          /\ Fits(u, meant, msg) /\ Checked(msg)
          /\ ft!WriteGenerateStdTxResponse(meant, msg)
  BY FittingReturns, FtUsesClient, Zenon
<1>2. CASE ft!CreateCoinsRequestHandlerFn(u, r)
  <2>. DEFINE v == <<r.coins>>
              msg == ft!NewMsgCreateCoins(ServerFrom, v[1])
  <2>1. Fits(u, Meant("ft.CreateCoins", u, <<"coins">>, v), msg) /\ Checked(msg)
    BY FtFits, FtChecked, Zenon
  <2>. QED
    BY <1>2, <2>1, FtUsesClient DEF ft!CreateCoinsRequestHandlerFn
<1>3. CASE ft!CreateDenomRequestHandlerFn(u, r)
  <2>. DEFINE v == <<r.denom>>
              msg == ft!NewMsgCreateDenom(ServerFrom, v[1])
  <2>1. Fits(u, Meant("ft.CreateDenom", u, <<"denom">>, v), msg) /\ Checked(msg)
    BY FtFits, FtChecked, Zenon
  <2>. QED
    BY <1>3, <2>1, FtUsesClient DEF ft!CreateDenomRequestHandlerFn
<1>4. CASE ft!BindAssetHashRequestHandlerFn(u, r)
  BY <1>4, FtFits, FtChecked, FtUsesClient, Zenon DEF ft!BindAssetHashRequestHandlerFn
<1>5. CASE ft!LockRequestHandlerFn(u, r)
  BY <1>5, FtFits, FtChecked, FtUsesClient, Zenon DEF ft!LockRequestHandlerFn
<1>. QED
  BY <1>2, <1>3, <1>4, <1>5 DEF ft!registerTxRoutes

\* A route of headersync and ccm returns a message that says what was posted.
LEMMA PolyPosts ==
    ASSUME NEW u \in User, NEW r, poly!registerTxRoutes(u, r)
    PROVE  Returns(u)
<1>1. SUFFICES \E meant, msg :
          /\ Fits(u, meant, msg) /\ Checked(msg)
          /\ poly!WriteGenerateStdTxResponse(meant, msg)
  BY FittingReturns, PolyUsesClient, Zenon
<1>2. CASE poly!SyncHeadersRequestHandlerFn(u, r)
  <2>. DEFINE v == <<r.headers>>
              msg == poly!NewMsgSyncHeadersParam(ServerFrom, v[1])
  <2>1. Fits(u, Meant("headersync.SyncBlockHeaders", u, <<"headers">>, v), msg) /\ Checked(msg)
    BY PolyFits, PolyChecked, Zenon
  <2>. QED
    BY <1>2, <2>1, PolyUsesClient DEF poly!SyncHeadersRequestHandlerFn
<1>3. CASE poly!ProcessCrossChainTxRequestHandlerFn(u, r)
  BY <1>3, PolyFits, PolyChecked, PolyUsesClient, Zenon
     DEF poly!ProcessCrossChainTxRequestHandlerFn
<1>. QED
  BY <1>2, <1>3 DEF poly!registerTxRoutes

-----------------------------------------------------------------------------
(* Queries                                                                 *)

\* The only answer to a query of lockproxy is the one that is meant, ...
LEMMA LockProxyAnswers ==
    /\ \A v : AnswersAs(lockproxy!QueryProxyByOperator(v[1]),
                        Meant("lockproxy.GetLockProxyByOperator", Empty, <<"operator">>, v))
    /\ \A v : AnswersAs(lockproxy!QueryProxyHash(v[1], v[2]),
                        Meant("lockproxy.GetProxyHash", Empty,
                              <<"lockProxyHash", "toChainId">>, v))
    /\ \A v : AnswersAs(lockproxy!QueryAssetHash(v[1], v[2], v[3]),
                        Meant("lockproxy.GetAssetHash", Empty,
                              <<"lockProxyHash", "denom", "toChainId">>, v))
<1>. USE DEF AnswersAs, MayAnswer, Meant, Call, Range, lockproxy!Query
<1>1. \A v : AnswersAs(lockproxy!QueryProxyByOperator(v[1]),
                       Meant("lockproxy.GetLockProxyByOperator", Empty, <<"operator">>, v))
  BY DEF lockproxy!QueryProxyByOperator
<1>2. \A v : AnswersAs(lockproxy!QueryProxyHash(v[1], v[2]),
                       Meant("lockproxy.GetProxyHash", Empty,
                             <<"lockProxyHash", "toChainId">>, v))
  BY DEF lockproxy!QueryProxyHash
<1>3. \A v : AnswersAs(lockproxy!QueryAssetHash(v[1], v[2], v[3]),
                       Meant("lockproxy.GetAssetHash", Empty,
                             <<"lockProxyHash", "denom", "toChainId">>, v))
  BY DEF lockproxy!QueryAssetHash
<1>. HIDE DEF AnswersAs
<1>. QED
  BY <1>1, <1>2, <1>3, Zenon

\* ... whether it is typed or got.
LEMMA LockProxyInquires ==
    /\ \A line : lockproxy!GetQueryCmd(line) => Inquires
    /\ \A r : lockproxy!registerQueryRoutes(r) => Inquires
<1>1. \A v : lockproxy!AskProxyByOperator(v) => Inquires
  BY LockProxyAnswers, LockProxyUsesClient DEF Inquires, lockproxy!AskProxyByOperator
<1>2. \A v : lockproxy!AskProxyHash(v) => Inquires
  BY LockProxyAnswers, LockProxyUsesClient DEF Inquires, lockproxy!AskProxyHash
<1>3. \A v : lockproxy!AskAssetHash(v) => Inquires
  BY LockProxyAnswers, LockProxyUsesClient DEF Inquires, lockproxy!AskAssetHash
<1>. QED
  BY <1>1, <1>2, <1>3, Zenon
     DEF lockproxy!GetQueryCmd, lockproxy!GetCmdQueryProxyByOperator,
         lockproxy!GetCmdQueryProxyHash, lockproxy!GetCmdQueryAssetHash,
         lockproxy!registerQueryRoutes, lockproxy!queryProxyHashByOperatorHandlerFn,
         lockproxy!queryProxyHashHandlerFn, lockproxy!queryAssetHashHandlerFn

\* The only answer to a query of lockproxypip1 is the one that is meant, ...
LEMMA Pip1Answers ==
    /\ \A v : AnswersAs(pip1!QueryProxyByOperator(v[1]),
                        Meant("lockproxypip1.GetLockProxyByOperator", Empty, <<"operator">>, v))
    /\ \A v : AnswersAs(pip1!QueryRegistry(v[1], v[2], v[3], v[4], v[5]),
                        Meant("lockproxypip1.AssetIsRegistered", Empty,
                              <<"lockProxyHash", "assetHash", "nativeChainId",
                                "nativeLockProxyHash", "nativeAssetHash">>, v))
<1>. USE DEF AnswersAs, MayAnswer, Meant, Call, Range, pip1!Query
<1>1. \A v : AnswersAs(pip1!QueryProxyByOperator(v[1]),
                       Meant("lockproxypip1.GetLockProxyByOperator", Empty, <<"operator">>, v))
  BY DEF pip1!QueryProxyByOperator
<1>2. \A v : AnswersAs(pip1!QueryRegistry(v[1], v[2], v[3], v[4], v[5]),
                       Meant("lockproxypip1.AssetIsRegistered", Empty,
                             <<"lockProxyHash", "assetHash", "nativeChainId",
                               "nativeLockProxyHash", "nativeAssetHash">>, v))
  BY DEF pip1!QueryRegistry
<1>. HIDE DEF AnswersAs
<1>. QED
  BY <1>1, <1>2, Zenon

\* ... whether it is typed, got or composed.
LEMMA Pip1Inquires ==
    /\ \A line : pip1!GetQueryCmd(line) => Inquires
    /\ \A r : pip1!registerQueryRoutes(r) => Inquires
    /\ \A v : pip1!ComposeRegistry(v) => Inquires
<1>1. \A v : pip1!AskProxyByOperator(v) => Inquires
  BY Pip1Answers, Pip1UsesClient DEF Inquires, pip1!AskProxyByOperator
<1>2. \A v : pip1!ComposeRegistry(v) => Inquires
  BY Pip1Answers, Pip1UsesClient DEF Inquires, pip1!ComposeRegistry
<1>. QED
  BY <1>1, <1>2, Zenon
     DEF pip1!GetQueryCmd, pip1!GetCmdQueryProxyByOperator, pip1!registerQueryRoutes,
         pip1!queryProxyHashByOperatorHandlerFn

\* The only answer to a query of btcx is the one that is meant, ...
LEMMA BtcxAnswers ==
    /\ \A v : AnswersAs(btcx!QueryDenomInfo(v[1]),
                        Meant("btcx.GetDenomInfo", Empty, <<"denom">>, v))
    /\ \A v : AnswersAs(btcx!QueryDenomCrossChainInfo(v[1], v[2]),
                        Meant("btcx.GetDenomCrossChainInfo", Empty, <<"denom", "toChainId">>, v))
<1>. USE DEF AnswersAs, MayAnswer, Meant, Call, Range, btcx!Query
<1>1. \A v : AnswersAs(btcx!QueryDenomInfo(v[1]),
                       Meant("btcx.GetDenomInfo", Empty, <<"denom">>, v))
  BY DEF btcx!QueryDenomInfo
<1>2. \A v : AnswersAs(btcx!QueryDenomCrossChainInfo(v[1], v[2]),
                       Meant("btcx.GetDenomCrossChainInfo", Empty, <<"denom", "toChainId">>, v))
  BY DEF btcx!QueryDenomCrossChainInfo
<1>. HIDE DEF AnswersAs
<1>. QED
  BY <1>1, <1>2, Zenon

\* ... whether it is typed, got or composed.
LEMMA BtcxInquires ==
    /\ \A line : btcx!GetQueryCmd(line) => Inquires
    /\ \A r : btcx!registerQueryRoutes(r) => Inquires
<1>1. \A v : btcx!AskDenomInfo(v) => Inquires
  BY BtcxAnswers, BtcxUsesClient DEF Inquires, btcx!AskDenomInfo
<1>2. \A v : btcx!AskDenomCrossChainInfo(v) => Inquires
  BY BtcxAnswers, BtcxUsesClient DEF Inquires, btcx!AskDenomCrossChainInfo
<1>. QED
  BY <1>1, <1>2, Zenon
     DEF btcx!GetQueryCmd, btcx!GetCmdQueryDenomInfo, btcx!GetCmdQueryDenomInfoWithChainId,
         btcx!registerQueryRoutes, btcx!queryDemonWithChainIdHandlerFn

\* The only answer to a query of ft is the one that is meant, ...
LEMMA FtAnswers ==
    /\ \A v : AnswersAs(ft!QueryDenomInfo(v[1]),
                        Meant("ft.GetDenomInfo", Empty, <<"denom">>, v))
    /\ \A v : AnswersAs(ft!QueryDenomCrossChainInfo(v[1], v[2]),
                        Meant("ft.GetDenomCrossChainInfo", Empty, <<"denom", "toChainId">>, v))
<1>. USE DEF AnswersAs, MayAnswer, Meant, Call, Range, ft!Query
<1>1. \A v : AnswersAs(ft!QueryDenomInfo(v[1]),
                       Meant("ft.GetDenomInfo", Empty, <<"denom">>, v))
  BY DEF ft!QueryDenomInfo
<1>2. \A v : AnswersAs(ft!QueryDenomCrossChainInfo(v[1], v[2]),
                       Meant("ft.GetDenomCrossChainInfo", Empty, <<"denom", "toChainId">>, v))
  BY DEF ft!QueryDenomCrossChainInfo
<1>. HIDE DEF AnswersAs
<1>. QED
  BY <1>1, <1>2, Zenon

\* ... whether it is typed, got or composed.
LEMMA FtInquires ==
    /\ \A line : ft!GetQueryCmd(line) => Inquires
    /\ \A r : ft!registerQueryRoutes(r) => Inquires
<1>1. \A v : ft!AskDenomInfo(v) => Inquires
  BY FtAnswers, FtUsesClient DEF Inquires, ft!AskDenomInfo
<1>2. \A v : ft!AskDenomCrossChainInfo(v) => Inquires
  BY FtAnswers, FtUsesClient DEF Inquires, ft!AskDenomCrossChainInfo
<1>. QED
  BY <1>1, <1>2, Zenon
     DEF ft!GetQueryCmd, ft!GetCmdQueryDenomInfo, ft!GetCmdQueryDenomCrossChainInfo,
         ft!registerQueryRoutes, ft!queryDemonCrossChainInfoHandlerFn

\* What asks for the balance of a module has no answer at all.
LEMMA PolyAnswers ==
    /\ \A v : AnswersAs(poly!QueryConsensusPeers(v[1]),
                        Meant("headersync.GetConsensusPeers", Empty, <<"chainId">>, v))
    /\ \A v : AnswersAs(poly!QueryIfContainContract(v[1], v[2], v[3]),
                        Meant("ccm.IfContainToContract", Empty,
                              <<"keystore", "toContract", "fromChainId">>, v))
    /\ AnswersAs(poly!QueryParams, Meant("ccm.GetParams", Empty, <<>>, <<>>))
    /\ \A v : AnswersAs(poly!QueryModuleBalance(v[1]),
                        Meant("ccm.GetModuleBalance", Empty, <<"moduleName">>, v))
    /\ \A v : AnswersAs(poly!Query("ccm", "module_balance", [ModuleName |-> v[1]]),
                        Meant("ccm.GetModuleBalance", Empty, <<"moduleName">>, v))
<1>. USE DEF AnswersAs, MayAnswer, Meant, Call, Range, poly!Query
<1>1. \A v : AnswersAs(poly!QueryConsensusPeers(v[1]),
                       Meant("headersync.GetConsensusPeers", Empty, <<"chainId">>, v))
  BY DEF poly!QueryConsensusPeers
<1>2. \A v : AnswersAs(poly!QueryIfContainContract(v[1], v[2], v[3]),
                       Meant("ccm.IfContainToContract", Empty,
                             <<"keystore", "toContract", "fromChainId">>, v))
  BY DEF poly!QueryIfContainContract
<1>3. AnswersAs(poly!QueryParams, Meant("ccm.GetParams", Empty, <<>>, <<>>))
  <2>1. [n \in {} |-> <<>>[CHOOSE i \in DOMAIN <<>> : <<>>[i] = n]] = <<>>
    OBVIOUS
  <2>. QED
    BY <2>1 DEF poly!QueryParams
<1>4. \A v : AnswersAs(poly!QueryModuleBalance(v[1]),
                       Meant("ccm.GetModuleBalance", Empty, <<"moduleName">>, v))
  BY DEF poly!QueryModuleBalance
<1>5. \A v : AnswersAs(poly!Query("ccm", "module_balance", [ModuleName |-> v[1]]),
                       Meant("ccm.GetModuleBalance", Empty, <<"moduleName">>, v))
  OBVIOUS
<1>. HIDE DEF AnswersAs
<1>. QED
  BY <1>1, <1>2, <1>3, <1>4, <1>5, Zenon

\* ... whether it is typed, got or composed.
LEMMA PolyInquires ==
    /\ \A line : poly!GetQueryCmd(line) => Inquires
    /\ \A r : poly!registerQueryRoutes(r) => Inquires
    /\ \A v : poly!ComposeModuleBalance(v) => Inquires
<1>1. \A v : poly!AskConsensusPeers(v) => Inquires
  BY PolyAnswers, PolyUsesClient DEF Inquires, poly!AskConsensusPeers
<1>2. \A v : poly!AskIfContainContract(v) => Inquires
  BY PolyAnswers, PolyUsesClient DEF Inquires, poly!AskIfContainContract
<1>3. ASSUME poly!AskParams
      PROVE  Inquires
  <2>1. AnswersAs(poly!QueryParams, Meant("ccm.GetParams", Empty, <<>>, <<>>))
    BY PolyAnswers
  <2>2. QueryWithData("ccm.GetParams", <<>>, <<>>, poly!QueryParams)
    BY <1>3, PolyUsesClient, Zenon DEF poly!AskParams
  <2>. QED
    BY <2>1, <2>2, Zenon DEF Inquires
<1>4. \A v : poly!AskModuleBalance(v) => Inquires
  BY PolyAnswers, PolyUsesClient DEF Inquires, poly!AskModuleBalance
<1>5. ASSUME NEW v, poly!ComposeModuleBalance(v)
      PROVE  Inquires
  <2>. DEFINE query == poly!Query("ccm", "module_balance", [ModuleName |-> v[1]])
  <2>1. AnswersAs(query, Meant("ccm.GetModuleBalance", Empty, <<"moduleName">>, v))
    BY PolyAnswers
  <2>2. QueryWithData("ccm.GetModuleBalance", <<"moduleName">>, v, query)
    BY <1>5, PolyUsesClient, Zenon DEF poly!ComposeModuleBalance
  <2>. QED
    BY <2>1, <2>2, Zenon DEF Inquires
<1>. QED
  BY <1>1, <1>2, <1>3, <1>4, <1>5, Zenon
     DEF poly!GetQueryCmd, poly!GetCmdQueryConsensusPeers, poly!GetCmdQueryIfContainContract,
         poly!registerQueryRoutes, poly!queryCurrentCPHandlerFn, poly!queryIfContainContract

\* What queriers answer.
LEMMA QueriersAnswer ==
    ASSUME NEW q, AnswerQuery(q)
    PROVE  \E to, args : MayAnswer(q.query, to, args) /\ Answer(q, to, args)
<1>1. CASE q.query.route = "lockproxy" /\ lockproxy!NewQuerier(q)
  BY <1>1, LockProxyUsesClient, Zenon DEF lockproxy!NewQuerier, MayAnswer
<1>2. CASE q.query.route = "lockproxypip1" /\ pip1!NewQuerier(q)
  BY <1>2, Pip1UsesClient, Zenon DEF pip1!NewQuerier, MayAnswer
<1>3. CASE q.query.route = "btcx" /\ btcx!NewQuerier(q)
  BY <1>3, BtcxUsesClient, Zenon DEF btcx!NewQuerier, MayAnswer
<1>4. CASE q.query.route = "ft" /\ ft!NewQuerier(q)
  BY <1>4, FtUsesClient, Zenon DEF ft!NewQuerier, MayAnswer
<1>5. CASE q.query.route = "headersync" /\ poly!NewHeaderSyncQuerier(q)
  BY <1>5, PolyUsesClient, Zenon DEF poly!NewHeaderSyncQuerier, MayAnswer
<1>6. CASE q.query.route = "ccm" /\ poly!NewCcmQuerier(q)
  BY <1>6, PolyUsesClient, Zenon DEF poly!NewCcmQuerier, MayAnswer
<1>. QED
  BY <1>1, <1>2, <1>3, <1>4, <1>5, <1>6 DEF AnswerQuery

\* What a wallet builds by itself says what its owner means if he can sign it.
LEMMA WalletsCompose ==
    ASSUME NEW u \in User, NEW m \in ValidMessages, Compose(u, m)
    PROVE  Broadcasts(u, "wallet")
<1>1. \A x \in lockproxy!Messages : Checked(x)
  BY LockProxyChecked DEF lockproxy!Messages
<1>2. \A x \in pip1!Messages : Checked(x)
  BY Pip1Checked DEF pip1!Messages
<1>3. \A x \in btcx!Messages : Checked(x)
  BY BtcxChecked DEF btcx!Messages
<1>4. \A x \in ft!Messages : Checked(x)
  BY FtChecked DEF ft!Messages
<1>5. \A x \in poly!Messages : Checked(x)
  BY PolyChecked DEF poly!Messages
<1>6. Checked(m)
  BY <1>1, <1>2, <1>3, <1>4, <1>5 DEF ValidMessages
<1>7. Formed(m)
  BY LockProxyFormed, Pip1Formed, BtcxFormed, FtFormed, PolyFormed DEF ValidMessages
<1>8. Fits(u, [m.call EXCEPT !.by = u], m)
  BY <1>7 DEF Formed, Fits, Call
<1>. QED
  BY <1>6, <1>8 DEF Compose, Broadcasts

\* Every step of the clients and the node.
LEMMA ClientSteps ==
    ASSUME ClientNext
    PROVE  \/ \E u \in User, via \in {"cli", "wallet"} : Broadcasts(u, via)
           \/ \E u \in User : Returns(u)
           \/ Inquires
           \/ \E g \in generated : SignGenerated(g)
           \/ \E tx \in txs : Deliver(tx)
           \/ \E q \in queries : \E to, args : MayAnswer(q.query, to, args) /\ Answer(q, to, args)
           \/ \E q \in queries : Fail(q)
<1>1. ASSUME NEW u \in User, NEW line \in Line, TypeLine(u, line)
      PROVE  Broadcasts(u, "cli")
  BY <1>1, LockProxyTypes, Pip1Types, BtcxTypes, FtTypes, PolyTypes DEF TypeLine
<1>2. ASSUME NEW u \in User, NEW r \in Request, Post(u, r)
      PROVE  Returns(u)
  BY <1>2, LockProxyPosts, Pip1Posts, BtcxPosts, FtPosts, PolyPosts DEF Post
<1>3. ASSUME NEW line \in Line, TypeQuery(line)
      PROVE  Inquires
  BY <1>3, LockProxyInquires, Pip1Inquires, BtcxInquires, FtInquires, PolyInquires
     DEF TypeQuery
<1>4. ASSUME NEW r \in Request, GetRoute(r)
      PROVE  Inquires
  BY <1>4, LockProxyInquires, Pip1Inquires, BtcxInquires, FtInquires, PolyInquires
     DEF GetRoute
<1>5. ComposeQuery => Inquires
  BY Pip1Inquires, PolyInquires, Zenon DEF ComposeQuery
<1>. QED
  BY <1>1, <1>2, <1>3, <1>4, <1>5, WalletsCompose, QueriersAnswer DEF ClientNext

-----------------------------------------------------------------------------
(* Inputs are checked on every way                                         *)

IsAsk(a) == a = [id |-> a.id, via |-> a.via, call |-> a.call]

\* What is under way passes the checks when the node accepts it.
ChecksInv ==
    /\ \A g \in generated :
           /\ IsAsk(g.ask) /\ g.ask.via = "rest"
           /\ Checked(g.msg)
    /\ \A tx \in txs :
           /\ IsAsk(tx.ask) /\ tx.ask.via # "query"
           /\ Checked(tx.msg)
    /\ \A q \in queries : IsAsk(q.ask) /\ q.ask.via = "query"
    /\ performed \in Seq(Range(performed))
    /\ KeepersGetCheckedInputs

\* What a sequence is after one more element.
LEMMA AppendRange ==
    ASSUME NEW S, NEW s \in Seq(S), NEW e
    PROVE  /\ Append(s, e) \in Seq(Range(Append(s, e)))
           /\ Range(Append(s, e)) = Range(s) \cup {e}
           /\ DOMAIN Append(s, e) = DOMAIN s \cup {Len(s) + 1}
           /\ \A i \in DOMAIN s : Append(s, e)[i] = s[i]
           /\ Append(s, e)[Len(s) + 1] = e
<1>1. /\ DOMAIN Append(s, e) = DOMAIN s \cup {Len(s) + 1}
      /\ \A i \in DOMAIN s : Append(s, e)[i] = s[i]
      /\ Append(s, e)[Len(s) + 1] = e
  OBVIOUS
<1>2. Range(Append(s, e)) = Range(s) \cup {e}
  BY <1>1 DEF Range
<1>3. s \in Seq(Range(s) \cup {e})
  BY DEF Range
<1>4. Append(s, e) \in Seq(Range(s) \cup {e})
  BY <1>3
<1>. QED
  BY <1>1, <1>2, <1>4

\* Nothing is under way at the start.
LEMMA ChecksInit == ClientInit => ChecksInv
BY DEF ClientInit, ChecksInv, KeepersGetCheckedInputs, Range

\* What is performed joins what was performed before.
LEMMA ChecksAppend ==
    ASSUME ChecksInv, NEW e, performed' = Append(performed, e),
           e.via # "query" => GoodArgs(e.call.args)
    PROVE  performed' \in Seq(Range(performed')) /\ KeepersGetCheckedInputs'
<1>1. performed \in Seq(Range(performed)) /\ KeepersGetCheckedInputs
  BY DEF ChecksInv
<1>2. /\ performed' \in Seq(Range(performed'))
      /\ DOMAIN performed' = DOMAIN performed \cup {Len(performed) + 1}
      /\ \A i \in DOMAIN performed : performed'[i] = performed[i]
      /\ performed'[Len(performed) + 1] = e
  BY <1>1, AppendRange
<1>3. KeepersGetCheckedInputs'
  BY <1>1, <1>2 DEF KeepersGetCheckedInputs, GoodArgs, Amounts, Targets
<1>. QED
  BY <1>2, <1>3

\* ChecksInv is inductive: every way into the node goes through ValidateBasic.
LEMMA ChecksStep == ChecksInv /\ [ClientNext]_clientVars => ChecksInv'
<1>. SUFFICES ASSUME ChecksInv, [ClientNext]_clientVars
             PROVE  ChecksInv'
  OBVIOUS
<1>. USE DEF IsAsk
<1>1. ASSUME UNCHANGED performed
      PROVE  performed' \in Seq(Range(performed')) /\ KeepersGetCheckedInputs'
  BY <1>1 DEF ChecksInv, KeepersGetCheckedInputs
<1>2. ASSUME NEW u \in User, NEW via \in {"cli", "wallet"}, Broadcasts(u, via)
      PROVE  ChecksInv'
  <2>1. PICK meant, msg : Checked(msg) /\ GenerateOrBroadcastMsgs(u, via, meant, msg)
    BY <1>2 DEF Broadcasts
  <2>2. /\ txs' = txs \cup {SignedTx(NewAsk(via, meant), u, msg)}
        /\ UNCHANGED <<generated, queries, performed>>
    BY <2>1, Zenon DEF GenerateOrBroadcastMsgs
  <2>. QED
    BY <1>1, <2>1, <2>2 DEF ChecksInv, SignedTx, NewAsk
<1>3. ASSUME NEW u \in User, Returns(u)
      PROVE  ChecksInv'
  <2>1. PICK meant, msg : Checked(msg) /\ WriteGenerateStdTxResponse(meant, msg)
    BY <1>3 DEF Returns
  <2>2. /\ generated' = generated \cup {[ask |-> NewAsk("rest", meant), msg |-> msg]}
        /\ UNCHANGED <<txs, queries, performed>>
    BY <2>1, Zenon DEF WriteGenerateStdTxResponse
  <2>. QED
    BY <1>1, <2>1, <2>2 DEF ChecksInv, NewAsk
<1>4. ASSUME Inquires
      PROVE  ChecksInv'
  <2>1. PICK to, names, values, query : QueryWithData(to, names, values, query)
    BY <1>4 DEF Inquires
  <2>2. PICK meant : /\ queries' = queries \cup {[ask |-> NewAsk("query", meant), query |-> query]}
                     /\ UNCHANGED <<generated, txs, performed>>
    BY <2>1, Zenon DEF QueryWithData
  <2>. QED
    BY <1>1, <2>2 DEF ChecksInv, NewAsk
<1>5. ASSUME NEW g \in generated, SignGenerated(g)
      PROVE  ChecksInv'
  <2>1. /\ txs' = txs \cup {SignedTx(g.ask, g.ask.call.by, g.msg)}
        /\ generated' = generated \ {g}
        /\ UNCHANGED <<queries, performed>>
    BY <1>5, Zenon DEF SignGenerated
  <2>. QED
    BY <1>1, <2>1 DEF ChecksInv, SignedTx
<1>6. ASSUME NEW tx \in txs, Deliver(tx)
      PROVE  ChecksInv'
  <2>1. tx.msg.valid /\ UNCHANGED <<generated, txs, queries>>
    BY <1>6 DEF Deliver, Accepts
  <2>2. CASE performed' = Append(performed, [tx.ask EXCEPT !.call = tx.msg.call])
    <3>. DEFINE e == [tx.ask EXCEPT !.call = tx.msg.call]
    <3>1. e.via = tx.ask.via /\ e.call = tx.msg.call
      BY DEF ChecksInv
    <3>2. GoodArgs(e.call.args)
      BY <2>1, <3>1 DEF ChecksInv, Checked
    <3>. HIDE DEF e
    <3>3. performed' \in Seq(Range(performed')) /\ KeepersGetCheckedInputs'
      BY <2>2, <3>2, ChecksAppend DEF e
    <3>. QED
      BY <2>1, <3>3 DEF ChecksInv
  <2>3. CASE UNCHANGED performed
    BY <1>1, <2>1, <2>3 DEF ChecksInv
  <2>. QED
    BY <1>6, <2>2, <2>3 DEF Deliver
<1>7. ASSUME NEW q \in queries, NEW to, NEW args, Answer(q, to, args)
      PROVE  ChecksInv'
  <2>. DEFINE e == [q.ask EXCEPT !.call = Call(to, Empty, args)]
  <2>1. /\ performed' = Append(performed, e) /\ queries' = queries \ {q}
        /\ UNCHANGED <<generated, txs>>
    BY <1>7 DEF Answer
  <2>2. e.via = "query"
    <3>1. IsAsk(q.ask) /\ q.ask.via = "query"
      BY DEF ChecksInv
    <3>. QED
      BY <3>1
  <2>. HIDE DEF e
  <2>3. performed' \in Seq(Range(performed')) /\ KeepersGetCheckedInputs'
    BY <2>1, <2>2, ChecksAppend
  <2>. QED
    BY <2>1, <2>3 DEF ChecksInv
<1>8. ASSUME NEW q \in queries, Fail(q)
      PROVE  ChecksInv'
  BY <1>1, <1>8 DEF Fail, ChecksInv
<1>9. CASE UNCHANGED clientVars
  BY <1>1, <1>9 DEF ChecksInv, clientVars
<1>. QED
  BY <1>2, <1>3, <1>4, <1>5, <1>6, <1>7, <1>8, <1>9, ClientSteps

\* Always.
LEMMA ChecksAlways == ClientSpec => []ChecksInv
BY ChecksInit, ChecksStep, PTL DEF ClientSpec

\* Whatever users type, post or build, keepers get checked inputs only: no
\* negative amount, no chain zero, no empty target.
THEOREM InputsAreChecked == ClientSpec => []KeepersGetCheckedInputs
<1>1. ChecksInv => KeepersGetCheckedInputs
  BY DEF ChecksInv
<1>. QED
  BY <1>1, ChecksAlways, PTL

-----------------------------------------------------------------------------
(* Everything is done as it was asked                                      *)

Pending == generated \cup txs \cup queries

Done(ask) == \E i \in DOMAIN performed : performed[i].id = ask.id

\* A request is in one place, not done, or in one transaction, whose number is
\* used up once it is done.
AsksInv ==
    /\ IsFiniteSet(asked)
    /\ \A a \in asked : IsAsk(a) /\ a.id \in 1..Cardinality(asked)
    /\ \A a, b \in asked : a.id = b.id => a = b
    /\ sequence \in [User -> Nat]
    /\ performed \in Seq(Range(performed))
    /\ ActsAsAsked
    /\ \A x \in Pending : x.ask \in asked
    /\ \A x, y \in Pending : x.ask = y.ask => x = y
    /\ generated \cap txs = {}
    /\ \A g \in generated :
           /\ g.ask.via = "rest" /\ g.ask.call.by \in User
           /\ ~ Done(g.ask)
           /\ Suits(g.ask.call.by, "rest", g.ask.call, g.msg)
    /\ \A tx \in txs :
           /\ tx.ask.via # "query" /\ tx.by \in User /\ tx.sequence \in Nat
           /\ Done(tx.ask) => tx.sequence < sequence[tx.by]
           /\ Suits(tx.by, tx.ask.via, tx.ask.call, tx.msg)
    /\ \A q \in queries :
           /\ q.ask.via = "query"
           /\ ~ Done(q.ask)
           /\ AnswersAs(q.query, q.ask.call)

\* No request, none done.
LEMMA AsksInit == ClientInit => AsksInv
BY FS_EmptySet DEF ClientInit, AsksInv, Pending, Range, ActsAsAsked, Done

\* A new request gets a number of its own.
LEMMA NewAsks ==
    ASSUME AsksInv, NEW via, NEW call, asked' = asked \cup {NewAsk(via, call)},
           UNCHANGED performed
    PROVE  /\ NewAsk(via, call) \notin asked
           /\ IsFiniteSet(asked')
           /\ \A a \in asked' : IsAsk(a) /\ a.id \in 1..Cardinality(asked')
           /\ \A a, b \in asked' : a.id = b.id => a = b
           /\ performed' \in Seq(Range(performed')) /\ ActsAsAsked'
           /\ ~ Done(NewAsk(via, call))
           /\ \A ask : Done(ask)' = Done(ask)
<1>. DEFINE a == NewAsk(via, call)
<1>1. Cardinality(asked) \in Nat
  BY FS_CardinalityType DEF AsksInv
<1>2. IsAsk(a) /\ a.id = Cardinality(asked) + 1
  BY DEF IsAsk, NewAsk
<1>3. \A b \in asked : b.id # a.id
  BY <1>1, <1>2 DEF AsksInv
<1>4. IsFiniteSet(asked') /\ Cardinality(asked') = Cardinality(asked) + 1
  BY <1>3, FS_AddElement DEF AsksInv
<1>5. \A x \in asked' : IsAsk(x) /\ x.id \in 1..Cardinality(asked')
  BY <1>1, <1>2, <1>4 DEF AsksInv
<1>6. performed' \in Seq(Range(performed')) /\ ActsAsAsked'
  BY DEF AsksInv, ActsAsAsked
<1>7. \A ask : Done(ask)' = Done(ask)
  BY DEF Done
<1>8. ~ Done(a)
  <2>1. \A i \in DOMAIN performed : \E b \in asked : performed[i].id = b.id
    BY DEF AsksInv, ActsAsAsked, Serves
  <2>. QED
    BY <1>3, <2>1 DEF Done
<1>9. \A x, y \in asked' : x.id = y.id => x = y
  BY <1>3 DEF AsksInv
<1>. QED
  BY <1>3, <1>4, <1>5, <1>6, <1>7, <1>8, <1>9

\* What serves a request that was not done is done for it alone.
LEMMA Performs ==
    ASSUME AsksInv, NEW ask \in asked, ~ Done(ask), NEW e, Serves(ask, e),
           performed' = Append(performed, e), UNCHANGED asked
    PROVE  /\ performed' \in Seq(Range(performed')) /\ ActsAsAsked'
           /\ \A b \in asked : b # ask => Done(b)' = Done(b)
<1>1. /\ performed' \in Seq(Range(performed'))
      /\ DOMAIN performed' = DOMAIN performed \cup {Len(performed) + 1}
      /\ \A i \in DOMAIN performed : performed'[i] = performed[i]
      /\ performed'[Len(performed) + 1] = e
  BY AppendRange DEF AsksInv
<1>2. e.id = ask.id /\ \A i \in DOMAIN performed : performed[i].id # ask.id
  BY DEF Done, Serves
<1>3. ActsAsAsked'
  BY <1>1, <1>2 DEF AsksInv, ActsAsAsked
<1>4. \A b \in asked : b # ask => b.id # ask.id
  BY DEF AsksInv
<1>5. \A b \in asked : b # ask => Done(b)' = Done(b)
  BY <1>1, <1>2, <1>4 DEF Done
<1>. QED
  BY <1>1, <1>3, <1>5

\* Every step keeps AsksInv: it is a new request, a request done for the first
\* time, or nothing.
LEMMA AsksStep ==
    ASSUME AsksInv, [ClientNext]_clientVars
    PROVE  AsksInv'
<1>1. ASSUME NEW u \in User, NEW via \in {"cli", "wallet"}, Broadcasts(u, via)
      PROVE  AsksInv'
  <2>1. PICK meant, msg : Fits(u, meant, msg) /\ GenerateOrBroadcastMsgs(u, via, meant, msg)
    BY <1>1 DEF Broadcasts
  <2>. DEFINE a == NewAsk(via, meant)
              tx == SignedTx(a, u, msg)
  <2>2. /\ asked' = asked \cup {a} /\ txs' = txs \cup {tx}
        /\ UNCHANGED <<generated, sequence, queries, performed>>
    BY <2>1, Zenon DEF GenerateOrBroadcastMsgs, SignedTx
  <2>3. /\ tx.ask = a /\ tx.by = u /\ tx.msg = msg /\ tx.sequence = sequence[u]
        /\ a.via = via /\ a.call = meant
    BY DEF SignedTx, NewAsk
  <2>4. /\ a \notin asked
        /\ IsFiniteSet(asked')
        /\ \A x \in asked' : IsAsk(x) /\ x.id \in 1..Cardinality(asked')
        /\ \A x, y \in asked' : x.id = y.id => x = y
        /\ performed' \in Seq(Range(performed')) /\ ActsAsAsked'
        /\ ~ Done(a)
        /\ \A ask : Done(ask)' = Done(ask)
    BY <2>2, NewAsks
  <2>. HIDE DEF a, tx
  <2>5. Pending' = Pending \cup {tx}
    BY <2>2 DEF Pending
  <2>6. \A x \in Pending' : x.ask \in asked'
    BY <2>2, <2>3, <2>5 DEF AsksInv
  <2>7. \A x, y \in Pending' : x.ask = y.ask => x = y
    BY <2>3, <2>4, <2>5 DEF AsksInv
  <2>8. sequence' \in [User -> Nat] /\ sequence[u] \in Nat
    BY <2>2 DEF AsksInv
  <2>9. generated' \cap txs' = {}
    BY <2>2, <2>3, <2>4 DEF AsksInv, Pending
  <2>10. Suits(tx.by, tx.ask.via, tx.ask.call, tx.msg)
    BY <2>1, <2>3 DEF Fits, Suits, Carries
  <2>. QED
    BY <2>2, <2>3, <2>4, <2>6, <2>7, <2>8, <2>9, <2>10 DEF AsksInv
<1>2. ASSUME NEW u \in User, Returns(u)
      PROVE  AsksInv'
  <2>1. PICK meant, msg : /\ Suits(u, "rest", meant, msg)
                          /\ WriteGenerateStdTxResponse(meant, msg)
    BY <1>2 DEF Returns
  <2>. DEFINE a == NewAsk("rest", meant)
              g == [ask |-> a, msg |-> msg]
  <2>2. /\ asked' = asked \cup {a} /\ generated' = generated \cup {g}
        /\ UNCHANGED <<txs, sequence, queries, performed>>
    BY <2>1, Zenon DEF WriteGenerateStdTxResponse
  <2>3. /\ g.ask = a /\ g.msg = msg /\ a.via = "rest" /\ a.call = meant /\ meant.by = u
    BY <2>1 DEF NewAsk, Suits
  <2>4. /\ a \notin asked
        /\ IsFiniteSet(asked')
        /\ \A x \in asked' : IsAsk(x) /\ x.id \in 1..Cardinality(asked')
        /\ \A x, y \in asked' : x.id = y.id => x = y
        /\ performed' \in Seq(Range(performed')) /\ ActsAsAsked'
        /\ ~ Done(a)
        /\ \A ask : Done(ask)' = Done(ask)
    BY <2>2, NewAsks
  <2>. HIDE DEF a, g
  <2>5. Pending' = Pending \cup {g}
    BY <2>2 DEF Pending
  <2>6. \A x \in Pending' : x.ask \in asked'
    BY <2>2, <2>3, <2>5 DEF AsksInv
  <2>7. \A x, y \in Pending' : x.ask = y.ask => x = y
    BY <2>3, <2>4, <2>5 DEF AsksInv
  <2>8. generated' \cap txs' = {}
    BY <2>2, <2>3, <2>4 DEF AsksInv, Pending
  <2>. QED
    BY <2>1, <2>2, <2>3, <2>4, <2>6, <2>7, <2>8 DEF AsksInv
<1>3. ASSUME Inquires
      PROVE  AsksInv'
  <2>1. PICK to, names, values, query :
            /\ AnswersAs(query, Meant(to, Empty, names, values))
            /\ QueryWithData(to, names, values, query)
    BY <1>3 DEF Inquires
  <2>. DEFINE meant == Meant(to, Empty, names, values)
              a == NewAsk("query", meant)
              q == [ask |-> a, query |-> query]
  <2>2. /\ asked' = asked \cup {a} /\ queries' = queries \cup {q}
        /\ UNCHANGED <<generated, txs, sequence, performed>>
    BY <2>1, Zenon DEF QueryWithData
  <2>3. /\ q.ask = a /\ q.query = query /\ a.via = "query" /\ a.call = meant
    BY DEF NewAsk
  <2>4. /\ a \notin asked
        /\ IsFiniteSet(asked')
        /\ \A x \in asked' : IsAsk(x) /\ x.id \in 1..Cardinality(asked')
        /\ \A x, y \in asked' : x.id = y.id => x = y
        /\ performed' \in Seq(Range(performed')) /\ ActsAsAsked'
        /\ ~ Done(a)
        /\ \A ask : Done(ask)' = Done(ask)
    BY <2>2, NewAsks
  <2>. HIDE DEF a, q
  <2>5. Pending' = Pending \cup {q}
    BY <2>2 DEF Pending
  <2>6. \A x \in Pending' : x.ask \in asked'
    BY <2>2, <2>3, <2>5 DEF AsksInv
  <2>7. \A x, y \in Pending' : x.ask = y.ask => x = y
    BY <2>3, <2>4, <2>5 DEF AsksInv
  <2>. QED
    BY <2>1, <2>2, <2>3, <2>4, <2>6, <2>7 DEF AsksInv
<1>4. ASSUME NEW g \in generated, SignGenerated(g)
      PROVE  AsksInv'
  <2>. DEFINE u == g.ask.call.by
              tx == SignedTx(g.ask, u, g.msg)
  <2>1. /\ txs' = txs \cup {tx} /\ generated' = generated \ {g}
        /\ UNCHANGED <<asked, sequence, queries, performed>>
    BY <1>4, Zenon DEF SignGenerated
  <2>2. tx.ask = g.ask /\ tx.by = u /\ tx.msg = g.msg /\ tx.sequence = sequence[u]
    BY DEF SignedTx
  <2>3. /\ g.ask.via = "rest" /\ u \in User /\ ~ Done(g.ask)
        /\ Suits(u, "rest", g.ask.call, g.msg) /\ g.ask \in asked /\ sequence[u] \in Nat
    BY DEF AsksInv, Pending
  <2>4. \A x \in Pending : x # g => x.ask # g.ask
    BY DEF AsksInv, Pending
  <2>. HIDE DEF u, tx
  <2>5. Pending' \subseteq Pending \cup {tx} /\ (g \in Pending' => g = tx \/ g \in txs \cup queries)
    BY <2>1 DEF Pending
  <2>6. g \notin txs \cup queries
    BY <2>3 DEF AsksInv
  <2>7. \A x \in Pending' : x.ask \in asked'
    BY <2>1, <2>2, <2>3, <2>5 DEF AsksInv
  <2>8. \A x, y \in Pending' : x.ask = y.ask => x = y
    BY <2>2, <2>4, <2>5, <2>6 DEF AsksInv
  <2>9. generated' \cap txs' = {}
    BY <2>1, <2>2, <2>4 DEF AsksInv, Pending
  <2>10. /\ performed' \in Seq(Range(performed')) /\ ActsAsAsked'
         /\ \A ask : Done(ask)' = Done(ask)
    BY <2>1 DEF AsksInv, ActsAsAsked, Done
  <2>. QED
    BY <2>1, <2>2, <2>3, <2>7, <2>8, <2>9, <2>10 DEF AsksInv
<1>5. ASSUME NEW tx \in txs, Deliver(tx)
      PROVE  AsksInv'
  <2>. DEFINE e == [tx.ask EXCEPT !.call = tx.msg.call]
  <2>1. /\ tx.msg.valid /\ tx.msg.signers = {tx.by} /\ tx.sequence = sequence[tx.by]
        /\ sequence' = [sequence EXCEPT ![tx.by] = sequence[tx.by] + 1]
        /\ UNCHANGED <<asked, generated, txs, queries>>
    BY <1>5 DEF Deliver, Accepts
  <2>2. /\ tx.ask \in asked /\ IsAsk(tx.ask) /\ tx.by \in User /\ ~ Done(tx.ask)
        /\ Carries(tx.ask.via, tx.ask.call, tx.msg.call)
    BY <2>1 DEF AsksInv, Pending, Suits
  <2>3. Serves(tx.ask, e)
    BY <2>2 DEF IsAsk, Serves
  <2>4. /\ sequence' \in [User -> Nat]
        /\ \A v \in User : sequence'[v] >= sequence[v]
        /\ sequence'[tx.by] = sequence[tx.by] + 1
    BY <2>1, <2>2 DEF AsksInv
  <2>5. Pending' = Pending
    BY <2>1 DEF Pending
  <2>. HIDE DEF e
  <2>6. CASE performed' = Append(performed, e)
    <3>1. /\ performed' \in Seq(Range(performed')) /\ ActsAsAsked'
          /\ \A b \in asked : b # tx.ask => Done(b)' = Done(b)
      BY <2>1, <2>2, <2>3, <2>6, Performs
    <3>2. \A x \in Pending : x # tx => x.ask # tx.ask
      BY DEF AsksInv, Pending
    <3>3. \A x \in Pending : x # tx => Done(x.ask)' = Done(x.ask)
      BY <3>1, <3>2 DEF AsksInv
    <3>4. \A g \in generated : ~ Done(g.ask)'
      BY <3>3 DEF AsksInv, Pending
    <3>5. \A q \in queries : ~ Done(q.ask)'
      BY <3>3 DEF AsksInv, Pending
    <3>6. \A x \in txs : Done(x.ask)' => x.sequence < sequence'[x.by]
      BY <2>1, <2>4, <3>3 DEF AsksInv, Pending
    <3>. QED
      BY <2>1, <2>4, <2>5, <3>1, <3>4, <3>5, <3>6 DEF AsksInv
  <2>7. CASE UNCHANGED performed
    <3>1. /\ performed' \in Seq(Range(performed')) /\ ActsAsAsked'
          /\ \A ask : Done(ask)' = Done(ask)
      BY <2>1, <2>7 DEF AsksInv, ActsAsAsked, Done
    <3>2. \A x \in txs : Done(x.ask) => x.sequence < sequence'[x.by]
      BY <2>4 DEF AsksInv
    <3>. QED
      BY <2>1, <2>4, <2>5, <3>1, <3>2 DEF AsksInv
  <2>. QED
    BY <1>5, <2>6, <2>7 DEF Deliver, e
<1>6. ASSUME NEW q \in queries, NEW to, NEW args, MayAnswer(q.query, to, args),
             Answer(q, to, args)
      PROVE  AsksInv'
  <2>. DEFINE e == [q.ask EXCEPT !.call = Call(to, Empty, args)]
  <2>1. /\ performed' = Append(performed, e) /\ queries' = queries \ {q}
        /\ UNCHANGED <<asked, generated, txs, sequence>>
    BY <1>6 DEF Answer
  <2>2. /\ q.ask \in asked /\ IsAsk(q.ask) /\ ~ Done(q.ask)
        /\ q.ask.call = Call(to, Empty, args)
    BY <1>6 DEF AsksInv, Pending, AnswersAs
  <2>3. Serves(q.ask, e)
    BY <2>2 DEF IsAsk, Serves, Carries
  <2>. HIDE DEF e
  <2>4. /\ performed' \in Seq(Range(performed')) /\ ActsAsAsked'
        /\ \A b \in asked : b # q.ask => Done(b)' = Done(b)
    BY <2>1, <2>2, <2>3, Performs
  <2>5. \A x \in Pending : x # q => x.ask # q.ask
    BY DEF AsksInv, Pending
  <2>6. Pending' \subseteq Pending
    BY <2>1 DEF Pending
  <2>7. \A x \in Pending : x # q => Done(x.ask)' = Done(x.ask)
    BY <2>4, <2>5 DEF AsksInv
  <2>8. \A g \in generated : g # q
    BY DEF AsksInv
  <2>9. \A x \in txs : x # q
    BY DEF AsksInv
  <2>10. \A g \in generated : ~ Done(g.ask)'
    BY <2>7, <2>8 DEF AsksInv, Pending
  <2>11. \A x \in txs : Done(x.ask)' = Done(x.ask)
    BY <2>7, <2>9 DEF Pending
  <2>12. \A x \in queries' : ~ Done(x.ask)'
    BY <2>1, <2>7 DEF AsksInv, Pending
  <2>. QED
    BY <2>1, <2>4, <2>6, <2>10, <2>11, <2>12 DEF AsksInv
<1>7. ASSUME NEW q \in queries, Fail(q)
      PROVE  AsksInv'
  <2>1. queries' = queries \ {q} /\ UNCHANGED <<asked, generated, txs, sequence, performed>>
    BY <1>7 DEF Fail
  <2>2. Pending' \subseteq Pending
    BY <2>1 DEF Pending
  <2>3. /\ performed' \in Seq(Range(performed')) /\ ActsAsAsked'
        /\ \A ask : Done(ask)' = Done(ask)
    BY <2>1 DEF AsksInv, ActsAsAsked, Done
  <2>. QED
    BY <2>1, <2>2, <2>3 DEF AsksInv
<1>8. CASE UNCHANGED clientVars
  <2>1. /\ performed' \in Seq(Range(performed')) /\ ActsAsAsked'
        /\ \A ask : Done(ask)' = Done(ask)
    BY <1>8 DEF AsksInv, ActsAsAsked, Done, clientVars
  <2>. QED
    BY <1>8, <2>1 DEF AsksInv, Pending, clientVars
<1>. QED
  BY <1>1, <1>2, <1>3, <1>4, <1>5, <1>6, <1>7, <1>8, ClientSteps

\* Nothing is done but what was asked, as it was asked but for the arguments that
\* three routes mistake, in the name of who asked, and once: for every server,
\* with an address of its own or without.
THEOREM DoneAsAsked == ClientSpec => []ActsAsAsked
<1>1. AsksInv /\ [ClientNext]_clientVars => AsksInv'
  BY AsksStep
<1>2. AsksInv => ActsAsAsked
  BY DEF AsksInv
<1>. QED
  BY AsksInit, <1>1, <1>2, PTL DEF ClientSpec
=============================================================================
