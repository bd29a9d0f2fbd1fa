----------------------------- MODULE PolyRelay -----------------------------
(***************************************************************************)
(* headersync and ccm composed: MsgProcessCrossChainTx verifies a header   *)
(* (and installs the epoch it carries), proves a message against the       *)
(* header's state root, marks it as done and has it handled, all in one    *)
(* transaction.  Relayers submit any header, proof and message at any      *)
(* time.  The composition implements Mailbox.                              *)
(***************************************************************************)
EXTENDS HeaderSync, CrossChainManager

CONSTANTS
    CrossStateRoot, \* the merkle values the state root of a header commits to
    Committed       \* those of canonical blocks

ASSUME RootAssumption ==
    /\ CrossStateRoot \in [Hash -> SUBSET Inbound]
    /\ \A h \in Hash : h \in Canonical => CrossStateRoot[h] \subseteq Committed

\* A history variable, read by no action: a header that lists a bookkeeper
\* twice has passed ProcessHeader for a block Poly never agreed on.
VARIABLE forged

relayVars == <<vars, ccmVars, bankVars, forged>>

RelayInit == Init /\ CcmInit /\ forged = FALSE

\* What a header that passes ProcessHeader adds to the history.
Remember(h, proof, cur) == forged' = (forged \/ Forging(SignedHeader(h, proof, cur)))

\* headersync's own messages.
SyncGenesis(h) == SyncGenesisHeader(h) /\ UNCHANGED <<ccmVars, forged>>

SyncHeaders(hs) == SyncBlockHeaders(hs) /\ UNCHANGED <<ccmVars, forged>>

SyncNext ==
    /\ SyncNextHeader
    /\ IF Head(queue) # Garbage /\ ProcessHeaderReply(Head(queue), NoProof, NoHeader) = "ok"
       THEN Remember(Head(queue), NoProof, NoHeader)
       ELSE UNCHANGED forged
    /\ UNCHANGED ccmVars

\* ProcessCrossChainTx: once ProcessHeader has passed, the message is proven
\* with the header's root and handled.
ProcessCrossChainTx(h, proof, cur) ==
    /\ ProcessHeader(h, proof, cur)
    /\ \E m \in Inbound : MerkleProve(m, CrossStateRoot[h.hash]) /\ ExecuteMessage(m)
    /\ Commit
    /\ Remember(h, proof, cur)

\* Or something fails - the header, the proof of the message, the done marker,
\* the chain id, the method, the handler - and all is undone, the epoch the
\* header may have installed included.
FailCrossChainTx(h, proof, cur) ==
    /\ LET verdict == ProcessHeaderReply(h, proof, cur) IN
       Revert(IF verdict = "ok" THEN "err" ELSE verdict)
    /\ UNCHANGED <<doneTx, executed, forged>>

\* MsgProcessCrossChainTx.
SubmitCrossChainTx(h, proof, cur) ==
    /\ Idle
    /\ ProcessCrossChainTx(h, proof, cur) \/ FailCrossChainTx(h, proof, cur)
    /\ UNCHANGED <<crossChainId, crossChainTxs, denomCreator>>

\* A token module sends, in a transaction of its own.
Send == Idle /\ SendRequest /\ UNCHANGED <<vars, forged>>

RelayNext ==
    \/ \E h \in Genesis : SyncGenesis(h)
    \/ \E hs \in Batches : SyncHeaders(hs)
    \/ SyncNext
    \/ \E h \in Headers, proof \in Hash \cup {NoProof}, cur \in Headers \cup {NoHeader} :
           SubmitCrossChainTx(h, proof, cur)
    \/ Send

\* What token handlers do to the bank is left to the modules that model them.
RelaySpec == RelayInit /\ [][RelayNext /\ UNCHANGED bankVars]_relayVars

\* A relayer that keeps an eye on both chains.  It submits the header of a
\* Poly epoch that this chain would accept and has not installed, and a
\* message that this chain would execute, with whatever header of a Poly
\* block and proof show it.
RelayEpoch ==
    /\ \E h \in Headers :
           /\ h.hash \in Canonical
           /\ h.hash # keyHeaderHash[h.chainId] /\ h.config # NoConfig
           /\ ProcessHeaderReply(h, NoProof, NoHeader) = "ok"
           /\ <<h>> \in Batches /\ SyncHeaders(<<h>>)
    /\ UNCHANGED bankVars

RelayMessage(m) ==
    /\ Idle /\ CheckDoneTx(m) /\ ForThisChain(m)
    /\ executed' = Append(executed, m)
    /\ UNCHANGED <<crossChainId, crossChainTxs, denomCreator, bankVars>>
    /\ \E h \in Headers, proof \in Hash \cup {NoProof}, cur \in Headers \cup {NoHeader} :
           h.hash \in Canonical /\ ProcessCrossChainTx(h, proof, cur)

\* The loop of a running transaction goes on by itself.  Relayers are only
\* asked to try again and again: others' transactions may come between, and
\* what can be shown changes with the epoch, hence SF.
RelayFairness ==
    /\ WF_relayVars(SyncNext /\ UNCHANGED bankVars)
    /\ \A h \in Genesis : SF_relayVars(SyncGenesis(h) /\ UNCHANGED bankVars)
    /\ SF_relayVars(RelayEpoch)
    /\ \A m \in Committed : SF_relayVars(RelayMessage(m))

RelayFairSpec == RelaySpec /\ RelayFairness

-----------------------------------------------------------------------------
mailbox == INSTANCE Mailbox WITH delivered <- executed, corrupt <- forged,
                                 Message <- Inbound, Here <- ChainIdInPolyNet

\* The composition implements Mailbox: until a forged header that lists a
\* bookkeeper twice passes, whatever else relayers submit, only messages of
\* canonical Poly blocks addressed to this chain are executed, and no source
\* transaction twice - that also after it (headersync keeper.go:91-113, ccm
\* keeper.go:196-290).
MailboxSpec == mailbox!Spec

\* It implements Mailbox's promise of delivery as well: as long as no such
\* header passes and some relayer keeps trying, every message for this chain
\* is executed in the end.  No sequence of stale, skipping, repeated or forged
\* headers and of failing transactions strands the light client in an epoch
\* from which a message can no longer be shown, or leaves a marker that shuts
\* the message out (headersync keeper.go:91-113, ccm keeper.go:260-290).
EveryMessageArrives == mailbox!Arrival
=============================================================================
