------------------------- MODULE CrossChainManager -------------------------
(***************************************************************************)
(* The ccm module (ccm/internal/keeper/keeper.go): the registry of denom   *)
(* creators, the numbered store of outgoing cross-chain transactions and   *)
(* the store of incoming ones already executed.  The token modules call    *)
(* its operations from their own handlers, so the actions here are         *)
(* conjuncts that other modules compose; CcmNext runs the module alone     *)
(* against callers that obey the guards they have in the code.             *)
(*                                                                         *)
(* A handler that fails changes nothing (baseapp drops its writes), so a   *)
(* failing call is an action that is not enabled.                          *)
(***************************************************************************)
EXTENDS Bank, Sequences

CONSTANTS
    Outbound,         \* what callers ask to be sent: contracts, chain, method, args
    Inbound,          \* merkle values that Poly's state roots commit to
    ChainIdInPolyNet, \* params: this chain's id on Poly
    NoAddr,           \* an absent address
    IdBytes,          \* external: an id as a big-endian byte string
    MaxCrossChainId   \* bound: outgoing transactions

Bytes == Seq(0..255)

\* math/big's Int.Bytes on the ids in use: zero is the empty string.
ASSUME IdBytesAssumption ==
    /\ IdBytes \in [0..MaxCrossChainId -> Bytes]
    /\ IdBytes[0] = <<>>
    /\ \A m, n \in 0..MaxCrossChainId : IdBytes[m] = IdBytes[n] => m = n

ASSUME CcmAssumption ==
    /\ NoAddr \notin Account
    /\ MaxCrossChainId \in Nat
    /\ \A m \in Inbound : m.crossChainId \in Bytes

VARIABLES
    crossChainId,  \* the id of the next outgoing transaction
    crossChainTxs, \* the outgoing transactions stored for Poly's relayers
    doneTx,        \* the store behind GetDoneTxKey: <<chain, id>> to bytes
    denomCreator,  \* who may administer a denom, or NoAddr
    executed       \* history: the incoming messages executed, in order

ccmVars == <<crossChainId, crossChainTxs, doneTx, denomCreator, executed>>

CcmInit ==
    /\ BankInit
    /\ crossChainId = 0
    /\ crossChainTxs = {}
    /\ doneTx = <<>>
    /\ denomCreator = [d \in Denom |-> NoAddr]
    /\ executed = <<>>

\* A store after Set(k, v).  A key that is not in the domain reads as nil.
Put(store, k, v) == [x \in DOMAIN store \cup {k} |-> IF x = k THEN v ELSE store[x]]

-----------------------------------------------------------------------------
(* Denom registry *)

\* Mutant: only coins count, as in the line commented out in keeper.go:107.
ExistDenomBySupply(d) == supply[d] # 0

\* Mutant: only creators count.
ExistDenomByCreator(d) == denomCreator[d] # NoAddr

\* A denom may have a creator and no coins yet, or coins and no creator.
ExistDenom(d) == denomCreator[d] # NoAddr \/ supply[d] # 0

SetDenomCreator(d, creator) == denomCreator' = [denomCreator EXCEPT ![d] = creator]

-----------------------------------------------------------------------------
(* Outgoing transactions *)

\* Mutant: the counter is read and used but not stored.
CreateWithoutCounting(r) ==
    /\ crossChainId' = crossChainId
    /\ crossChainTxs' = crossChainTxs \cup {[crossChainId |-> IdBytes[crossChainId], param |-> r]}

\* The stored id is used and incremented.  The transaction is stored under the
\* hash of its serialisation, which covers the id.
CreateCrossChainTx(r) ==
    /\ crossChainId < MaxCrossChainId
    /\ crossChainId' = crossChainId + 1
    /\ crossChainTxs' = crossChainTxs \cup {[crossChainId |-> IdBytes[crossChainId], param |-> r]}

-----------------------------------------------------------------------------
(* Incoming transactions *)

DoneTxKey(m) == <<m.fromChainId, m.crossChainId>>

\* Mutant: an empty stored value is taken for an absent one.
CheckNonEmptyDoneTx(m) ==
    DoneTxKey(m) \in DOMAIN doneTx => Len(doneTx[DoneTxKey(m)]) = 0

\* value != nil, not len(value) != 0: the value stored for id 0 is empty.
CheckDoneTx(m) == DoneTxKey(m) \notin DOMAIN doneTx

\* Mutant: the marker is written under the source chain alone.
PutDoneTxOfChain(m) == doneTx' = Put(doneTx, <<m.fromChainId, <<>> >>, <<>>)

PutDoneTx(m) == doneTx' = Put(doneTx, DoneTxKey(m), m.crossChainId)

\* The value is marked as done before anything else is done with it.
VerifyToCosmosTx(m) == CheckDoneTx(m) /\ PutDoneTx(m)

\* The checks of ProcessCrossChainTx after the proof.
ForThisChain(m) ==
    /\ m.toChainId = ChainIdInPolyNet
    /\ m.method \in {"unlock", "registerAsset"}

\* ProcessCrossChainTx after ProcessHeader, for a message whose handler (an
\* unlock keeper or the asset keeper) succeeds in the same transaction.
ExecuteMessage(m) ==
    /\ VerifyToCosmosTx(m)
    /\ ForThisChain(m)
    /\ executed' = Append(executed, m)

-----------------------------------------------------------------------------
(* ccm alone, with callers reduced to what they do to its stores *)

SendRequest == \E r \in Outbound :
    /\ CreateCrossChainTx(r)
    /\ UNCHANGED <<doneTx, denomCreator, executed>>

ReceiveMessage == \E m \in Inbound :
    /\ ExecuteMessage(m)
    /\ UNCHANGED <<crossChainId, crossChainTxs, denomCreator>>

CcmNext ==
    \/ SendRequest
    \/ ReceiveMessage

CcmSpec == CcmInit /\ [][CcmNext /\ UNCHANGED bankVars]_<<ccmVars, bankVars>>

-----------------------------------------------------------------------------
(* Properties *)

OutboundTx == [crossChainId: Bytes, param: Outbound]

\* The stores hold values of their types.
CcmTypeOK ==
    /\ crossChainId \in 0..MaxCrossChainId
    /\ crossChainTxs \subseteq OutboundTx
    /\ DOMAIN doneTx \subseteq {DoneTxKey(m) : m \in Inbound}
    /\ \A k \in DOMAIN doneTx : doneTx[k] \in Bytes
    /\ denomCreator \in [Denom -> {NoAddr} \cup Account]
    /\ executed \in Seq(Inbound)

\* No source transaction is executed twice, whichever blocks and proofs carry
\* it and even when its id is zero, whose stored marker is the empty string
\* (keeper.go:279-290).
ExecutedOnce ==
    \A i, j \in 1..Len(executed) :
        DoneTxKey(executed[i]) = DoneTxKey(executed[j]) => i = j

\* The markers are exactly those of executed messages: a message whose handler
\* failed after putDoneTx (keeper.go:264) is not lost, it can be retried.
DoneMeansExecuted ==
    DOMAIN doneTx = {DoneTxKey(executed[i]) : i \in 1..Len(executed)}

\* Every id below the counter names one stored outgoing transaction and no
\* other id names any: nothing sent is overwritten or numbered twice.
OutgoingIdsDense ==
    /\ \A tx \in crossChainTxs : \E n \in 0..crossChainId - 1 : tx.crossChainId = IdBytes[n]
    /\ \A n \in 0..crossChainId - 1 :
           \E tx \in crossChainTxs : tx.crossChainId = IdBytes[n]
    /\ \A s, t \in crossChainTxs : s.crossChainId = t.crossChainId => s = t
=============================================================================
