----------------------------- MODULE HeaderSync -----------------------------
(***************************************************************************)
(* The light client of the Poly chain kept by the headersync module        *)
(* (headersync/internal/keeper/keeper.go).  For every Poly-like chain it   *)
(* stores the validator set of the epoch it trusts (ConsensusPeers) and    *)
(* the hash of the header that installed it (KeyHeaderHash).  A genesis    *)
(* header is trusted on first use; later epoch headers must list members   *)
(* of the stored set, two thirds of its size, who all have signed.  What   *)
(* is counted is the length of the list: a member may be listed twice.     *)
(*                                                                         *)
(* A header is a record.  Its hash covers every field but bookkeepers and  *)
(* sigData, as in the poly library, so two copies of a block may carry     *)
(* different signatures.  blockRoot is the set of the header hashes its    *)
(* Merkle root commits to; a Merkle proof is named by the leaf it proves.  *)
(***************************************************************************)
EXTENDS Integers, Sequences, FiniteSets

CONSTANTS
    Chain,        \* chain ids a header may carry
    Peer,         \* public keys of validators
    Hash,         \* header hashes
    Headers,      \* header messages that can be submitted
    Genesis,      \* those submitted to SyncGenesisHeader
    Batches,      \* lists submitted to SyncBlockHeaders
    Garbage,      \* a string that is not a header
    NoHeader, NoProof, NoHash, NoEpoch, \* Go's nil
    NoConfig,     \* a payload without NewChainConfig
    Unparsable,   \* a payload that is not JSON of a VbftBlockInfo
    Canonical,    \* hashes of the blocks the Poly chain agreed on
    Faulty        \* validators that may sign anything

HeaderType ==
    [hash: Hash, chainId: Chain, height: Nat,
     config: {NoConfig, Unparsable} \cup SUBSET Peer,
     blockRoot: SUBSET Hash, bookkeepers: Seq(Peer), sigData: SUBSET Peer]

ASSUME HeadersAssumption ==
    /\ Headers \subseteq HeaderType
    /\ Genesis \subseteq Headers
    /\ Batches \subseteq Seq(Headers \cup {Garbage}) \ {<<>>}
    /\ IsFiniteSet(Peer)

\* Mutant: the height of the last block of the epoch before.
EpochOfParent(h) == [chainId |-> h.chainId, height |-> h.height - 1, peerMap |-> h.config]

\* The ConsensusPeers record that a header's NewChainConfig is turned into.
EpochOf(h) == [chainId |-> h.chainId, height |-> h.height, peerMap |-> h.config]

ASSUME NilAssumption ==
    /\ \A h \in Headers : EpochOf(h) # NoEpoch
    /\ NoHeader \notin Headers
    /\ NoHash \notin Hash

\* A hash binds every field it covers.
ASSUME HashAssumption ==
    \A g, h \in Headers : g.hash = h.hash =>
        /\ g.chainId = h.chainId
        /\ g.height = h.height
        /\ g.config = h.config
        /\ g.blockRoot = h.blockRoot

\* What is assumed of the Poly chain, which the code under src/ only follows:
\* honest validators sign canonical blocks alone, a canonical block commits to
\* canonical blocks, a canonical set is less than two thirds faulty, and the
\* genesis header an operator submits is canonical.
ASSUME PolyAssumption ==
    /\ \A h \in Headers : h.sigData \subseteq Faulty \/ h.hash \in Canonical
    /\ \A h \in Headers : h.hash \in Canonical => h.blockRoot \subseteq Canonical
    /\ \A h \in Headers : h.hash \in Canonical /\ h.config \notin {NoConfig, Unparsable} =>
           Cardinality(h.config \cap Faulty) * 3 < Cardinality(h.config) * 2
    /\ \A h \in Genesis : h.hash \in Canonical

-----------------------------------------------------------------------------
VARIABLES
    consensusPeers, \* the trusted epoch of each chain, or NoEpoch
    keyHeaderHash,  \* the hash of the header that installed it, or NoHash
    queue,          \* headers the running SyncBlockHeaders has yet to process
    checkpoint,     \* the two stores as of the last committed transaction
    reply           \* how the last message ended, "busy" while one runs

vars == <<consensusPeers, keyHeaderHash, queue, checkpoint, reply>>

Epoch == [chainId: Chain, height: Nat, peerMap: SUBSET Peer]

Init ==
    /\ consensusPeers = [c \in Chain |-> NoEpoch]
    /\ keyHeaderHash = [c \in Chain |-> NoHash]
    /\ queue = <<>>
    /\ checkpoint = [peers |-> consensusPeers, key |-> keyHeaderHash]
    /\ reply = "ok"

-----------------------------------------------------------------------------
(* Verification of one header against the stored epoch *)

\* Mutant: one valid signature is enough.
VerifyAnySignature(h) == \E i \in DOMAIN h.bookkeepers : h.bookkeepers[i] \in h.sigData

\* core/signature of the poly library: every listed bookkeeper has signed.
VerifyMultiSignature(h) == \A i \in DOMAIN h.bookkeepers : h.bookkeepers[i] \in h.sigData

\* merkle.MerkleProve of the poly library: the leaf is committed to by the root.
MerkleProve(leaf, root) == leaf \in root

\* Mutant: heights are not compared at all.
FitsEpochAtAnyHeight(h, epoch) ==
    /\ epoch # NoEpoch
    /\ Len(h.bookkeepers) * 3 >= Cardinality(epoch.peerMap) * 2
    /\ \A i \in DOMAIN h.bookkeepers : h.bookkeepers[i] \in epoch.peerMap

\* The guards of VerifyHeaderSig up to the signatures.  The bookkeepers are
\* counted by the length of their list, the stored peers by the map's size.
FitsEpoch(h, epoch) ==
    /\ epoch # NoEpoch
    /\ h.height > epoch.height
    /\ Len(h.bookkeepers) * 3 >= Cardinality(epoch.peerMap) * 2
    /\ \A i \in DOMAIN h.bookkeepers : h.bookkeepers[i] \in epoch.peerMap

\* A failed multi-signature does not return an error: line 137 formats the
\* outer err, which is nil, and the handler panics.
VerifyHeaderSig(h) ==
    IF ~ FitsEpoch(h, consensusPeers[h.chainId]) THEN "err"
    ELSE IF VerifyMultiSignature(h) THEN "ok" ELSE "panic"

\* The header that installed the stored epoch is recognised by its hash.
VerifyHeaderByKeyHeaderHash(h) == h.hash = keyHeaderHash[h.chainId]

\* Mutant: the proven leaf is not compared with the header's hash.
VerifyAnyLeaf(h, proof, cur) ==
    IF VerifyHeaderSig(cur) # "ok" THEN VerifyHeaderSig(cur)
    ELSE IF MerkleProve(proof, cur.blockRoot) THEN "ok" ELSE "err"

\* Mutant: the older header is checked against the epoch, not the newer one.
VerifyHistoricalSig(h, proof, cur) ==
    IF VerifyHeaderSig(h) # "ok" THEN VerifyHeaderSig(h)
    ELSE IF MerkleProve(proof, cur.blockRoot) /\ proof = h.hash THEN "ok" ELSE "err"

\* A header of an earlier epoch is believed when a header of the current one
\* commits to it.  The key header fallback is not offered to cur.
VerifyHistoricalHeader(h, proof, cur) ==
    IF VerifyHeaderSig(cur) # "ok" THEN VerifyHeaderSig(cur)
    ELSE IF MerkleProve(proof, cur.blockRoot) /\ proof = h.hash THEN "ok" ELSE "err"

\* ProcessHeader up to its tail call: the verdict, and the header whose
\* payload is then handed to UpdateConsensusPeer (NoHeader: return nil early).
HeaderVerdict(h, proof, cur) ==
    IF cur # NoHeader /\ proof # NoProof
    THEN [reply |-> VerifyHistoricalHeader(h, proof, cur), update |-> cur]
    ELSE IF VerifyHeaderSig(h) = "err" /\ VerifyHeaderByKeyHeaderHash(h)
    THEN [reply |-> "ok", update |-> NoHeader]
    ELSE [reply |-> VerifyHeaderSig(h), update |-> h]

\* The header whose signatures ProcessHeader checks.
SignedHeader(h, proof, cur) == IF cur # NoHeader /\ proof # NoProof THEN cur ELSE h

\* UpdateConsensusPeer fails on a payload it cannot parse.
UpdateFails(h) == h.config = Unparsable

\* Mutant: the new epoch is stored without its header's hash.
UpdateForgettingKey(h) ==
    /\ keyHeaderHash' = keyHeaderHash
    /\ consensusPeers' = IF h.config = NoConfig THEN consensusPeers
                         ELSE [consensusPeers EXCEPT ![h.chainId] = EpochOf(h)]

\* A new epoch and its header's hash replace the stored ones, if there is one.
UpdateConsensusPeer(h) ==
    IF h.config = NoConfig
    THEN UNCHANGED <<consensusPeers, keyHeaderHash>>
    ELSE /\ consensusPeers' = [consensusPeers EXCEPT ![h.chainId] = EpochOf(h)]
         /\ keyHeaderHash' = [keyHeaderHash EXCEPT ![h.chainId] = h.hash]

\* ProcessHeader as a whole, for the calls that succeed.
ProcessHeader(h, proof, cur) ==
    LET v == HeaderVerdict(h, proof, cur) IN
    /\ v.reply = "ok"
    /\ IF v.update = NoHeader
       THEN UNCHANGED <<consensusPeers, keyHeaderHash>>
       ELSE ~ UpdateFails(v.update) /\ UpdateConsensusPeer(v.update)

\* How a call that fails does so: "err", "panic", or "ok" when it succeeds.
ProcessHeaderReply(h, proof, cur) ==
    LET v == HeaderVerdict(h, proof, cur) IN
    IF v.reply = "ok" /\ v.update # NoHeader /\ UpdateFails(v.update)
    THEN "err" ELSE v.reply

-----------------------------------------------------------------------------
(* Transactions: baseapp commits what a handler wrote when it returns nil   *)
(* and discards it when it returns an error or panics.                      *)

Idle == queue = <<>>

Commit ==
    /\ checkpoint' = [peers |-> consensusPeers', key |-> keyHeaderHash']
    /\ queue' = <<>>
    /\ reply' = "ok"

Revert(outcome) ==
    /\ consensusPeers' = checkpoint.peers
    /\ keyHeaderHash' = checkpoint.key
    /\ queue' = <<>>
    /\ reply' = outcome
    /\ UNCHANGED checkpoint

\* Mutant: a genesis header is accepted at any time.
SyncGenesisAgain(h) ==
    /\ Idle
    /\ IF UpdateFails(h) THEN Revert("err") ELSE UpdateConsensusPeer(h) /\ Commit

\* MsgSyncGenesisParam: refused once the chain has an epoch.
SyncGenesisHeader(h) ==
    /\ Idle
    /\ IF consensusPeers[h.chainId] # NoEpoch \/ UpdateFails(h)
       THEN Revert("err")
       ELSE UpdateConsensusPeer(h) /\ Commit

\* MsgSyncHeadersParam: the loop over the headers starts.
SyncBlockHeaders(hs) ==
    /\ Idle
    /\ queue' = hs
    /\ reply' = "busy"
    /\ UNCHANGED <<consensusPeers, keyHeaderHash, checkpoint>>

\* One round of the loop.  A header sees what the ones before it wrote; the
\* last one commits, a failing one discards them all.
SyncNextHeader ==
    /\ ~ Idle
    /\ LET h == Head(queue) IN
       IF h = Garbage THEN Revert("err")
       ELSE IF ProcessHeaderReply(h, NoProof, NoHeader) # "ok"
       THEN Revert(ProcessHeaderReply(h, NoProof, NoHeader))
       ELSE /\ ProcessHeader(h, NoProof, NoHeader)
            /\ IF Len(queue) = 1 THEN Commit
               ELSE queue' = Tail(queue) /\ UNCHANGED <<checkpoint, reply>>

-----------------------------------------------------------------------------
(* Properties *)

PeersType == [Chain -> {NoEpoch} \cup Epoch]
KeyType == [Chain -> {NoHash} \cup Hash]

\* The stores hold what UpdateConsensusPeer can write, and nothing else.
TypeOK ==
    /\ consensusPeers \in PeersType
    /\ keyHeaderHash \in KeyType
    /\ queue \in Seq(Headers \cup {Garbage})
    /\ checkpoint \in [peers: PeersType, key: KeyType]
    /\ reply \in {"ok", "err", "panic", "busy"}

\* h is the header that installed the epoch stored for its chain.
Installed(h, peers, key) ==
    /\ key[h.chainId] = h.hash
    /\ peers[h.chainId] = EpochOf(h)

StoresAgree(peers, key) == \A c \in Chain :
    \/ peers[c] = NoEpoch /\ key[c] = NoHash
    \/ \E h \in Headers : h.chainId = c /\ Installed(h, peers, key)

\* The two stores describe the same epoch, in a running transaction and after
\* any commit or revert: the key header hash is the hash of the very header
\* whose height and peers are stored (keeper.go:166-171 writes them in turn).
KeyHeaderMatchesEpoch ==
    /\ StoresAgree(consensusPeers, keyHeaderHash)
    /\ StoresAgree(checkpoint.peers, checkpoint.key)

\* The bookkeepers a header lists.  The list is not covered by the hash.
Signers(h) == {h.bookkeepers[i] : i \in DOMAIN h.bookkeepers}

Repeats(h) == \E i, j \in DOMAIN h.bookkeepers : i # j /\ h.bookkeepers[i] = h.bookkeepers[j]

\* A header of no block of the Poly chain, signed by faulty validators of whom
\* one is listed more than once.
Forging(h) == h.hash \notin Canonical /\ Repeats(h) /\ Signers(h) \subseteq Faulty

\* The epoch of chain c, if there is one, was installed by a block of Poly.
Trusted(key, c) == key[c] \in Canonical \cup {NoHash}

\* Whatever ProcessHeader lets pass - by signatures, by the key header hash or
\* by a proof against a newer header - is a block of the Poly chain, unless the
\* header whose signatures it checked lists a faulty bookkeeper twice: then two
\* thirds by the list's length (keeper.go:124) may be a single member.  The
\* cross-chain manager reads the state root of what passes here.
AcceptedHeadersCanonical ==
    \A h \in Headers, proof \in Hash \cup {NoProof}, cur \in Headers \cup {NoHeader} :
        LET signed == SignedHeader(h, proof, cur) IN
        /\ Trusted(keyHeaderHash, signed.chainId)
        /\ ProcessHeaderReply(h, proof, cur) = "ok"
        => h.hash \in Canonical \/ Forging(signed)

\* A relayer that repeats the header of the current epoch is answered as if it
\* were new, and nothing is written (the fallback of keeper.go:97-99).
KeyHeaderResubmittable ==
    \A h \in Headers : h.hash = keyHeaderHash[h.chainId] =>
        HeaderVerdict(h, NoProof, NoHeader) = [reply |-> "ok", update |-> NoHeader]

\* h is newer than the epoch and signed by members of it: by two thirds of
\* them, or it lists one of them more than once.
Attests(h, epoch) ==
    /\ Signers(h) \subseteq epoch.peerMap \cap h.sigData
    /\ Repeats(h) \/ Cardinality(Signers(h)) * 3 >= Cardinality(epoch.peerMap) * 2
    /\ h.height > epoch.height

\* A failing message discards what its transaction wrote.
BackToCheckpoint ==
    /\ consensusPeers' = checkpoint.peers
    /\ keyHeaderHash' = checkpoint.key
    /\ reply' \in {"err", "panic"}

\* One step of TrustHandedOver.
HandOver == \A c \in Chain :
    consensusPeers[c] # NoEpoch /\ consensusPeers'[c] # consensusPeers[c] =>
        \/ \E h \in Headers : /\ h.chainId = c
                              /\ Attests(h, consensusPeers[c])
                              /\ Installed(h, consensusPeers', keyHeaderHash')
        \/ BackToCheckpoint

\* Trust is handed over: once a chain has an epoch, no message - genesis
\* included - replaces it but a newer header that members of it signed, two
\* thirds of them if it lists each once.  A revert goes back to the committed
\* epoch.
TrustHandedOver == [][HandOver]_vars

\* One step of TrustLostByRepetition.
LossOfTrust == \A c \in Chain :
    Trusted(keyHeaderHash, c) /\ ~ Trusted(keyHeaderHash', c) =>
        \/ \E h \in Headers : /\ h.chainId = c
                              /\ Forging(h)
                              /\ consensusPeers[c] # NoEpoch /\ Attests(h, consensusPeers[c])
                              /\ Installed(h, consensusPeers', keyHeaderHash')
        \/ BackToCheckpoint

\* However relayers order, repeat, skip and forge headers, there is one way
\* from an epoch of the Poly chain to one Poly never agreed on: a header that
\* faulty members of the epoch sign alone and that lists one of them twice
\* (keeper.go:115-139).
TrustLostByRepetition == [][LossOfTrust]_vars

\* One step of EpochsSignedByTwoThirds.
TwoThirds == \A c \in Chain :
    consensusPeers[c] # NoEpoch /\ consensusPeers'[c] # consensusPeers[c] =>
        \/ \E h \in Headers :
               /\ Installed(h, consensusPeers', keyHeaderHash')
               /\ Cardinality(Signers(h) \cap consensusPeers[c].peerMap) * 3
                      >= Cardinality(consensusPeers[c].peerMap) * 2
        \/ BackToCheckpoint

\* errors.go:75 says the bookkeepers of a header are more than two thirds of
\* the consensus nodes.  The keeper counts their list, and a member listed
\* twice counts twice: fewer than two thirds of the nodes replace an epoch.
EpochsSignedByTwoThirds == [][TwoThirds]_vars

\* One step of EpochHeightRises.
Rise == \A c \in Chain :
    LET old == checkpoint.peers[c]
        new == checkpoint'.peers[c]
    IN old = new \/ old = NoEpoch \/ (new # NoEpoch /\ new.height > old.height)

\* Committed epochs only move up: a chain is never forgotten and the height of
\* its epoch never falls, whatever stale headers are submitted (keeper.go:120).
EpochHeightRises == [][Rise]_vars

\* errors.go:83 says a bad multi-signature is reported as an error; line 137 of
\* the keeper passes it a nil error, and formatting that panics.
BadSignatureIsAnError == reply # "panic"
=============================================================================
