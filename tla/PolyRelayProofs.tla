-------------------------- MODULE PolyRelayProofs --------------------------
(***************************************************************************)
(* Proofs about HeaderSync and PolyRelay for every set of chains,          *)
(* validators and headers that satisfies the assumptions of HeaderSync.    *)
(*                                                                         *)
(* IInv says of the stores, working or committed, that they record headers *)
(* and only move up.  The counting argument stands in QuorumIsHonest: less *)
(* than two thirds of a canonical epoch are faulty, so a header two thirds *)
(* of it by length sign is canonical, or it repeats a bookkeeper and was   *)
(* signed by faulty ones alone (Forging).  RelayInv adds that the epochs   *)
(* are canonical until such a header has passed.                           *)
(*                                                                         *)
(* PolyRelay implements Mailbox: until then a message that is executed     *)
(* comes from a canonical root, and at no time was it executed before.     *)
(***************************************************************************)
EXTENDS PolyRelay, CrossChainManagerProofs, FiniteSetTheorems, SequenceTheorems, TLAPS

-----------------------------------------------------------------------------
(* HeaderSync                                                              *)

\* Every epoch of the store was installed by a header with a new set.
Recorded(peers, key) == \A c \in Chain :
    \/ peers[c] = NoEpoch /\ key[c] = NoHash
    \/ \E h \in Headers : /\ h.chainId = c
                          /\ Installed(h, peers, key)
                          /\ h.config \notin {NoConfig, Unparsable}

\* A running transaction has only moved epochs up.
AboveCheckpoint == \A c \in Chain :
    \/ checkpoint.peers[c] = consensusPeers[c]
    \/ checkpoint.peers[c] = NoEpoch
    \/ /\ consensusPeers[c] # NoEpoch
       /\ consensusPeers[c].height > checkpoint.peers[c].height

\* The inductive invariant of the stores.
IInv ==
    /\ TypeOK
    /\ Recorded(consensusPeers, keyHeaderHash)
    /\ Recorded(checkpoint.peers, checkpoint.key)
    /\ AboveCheckpoint
    /\ Idle => checkpoint = [peers |-> consensusPeers, key |-> keyHeaderHash]

-----------------------------------------------------------------------------
\* The bookkeepers of a header that fits an epoch are as many validators of it
\* as the list is long, if the header lists each once.
LEMMA DistinctSigners ==
    ASSUME NEW h \in Headers, NEW S, IsFiniteSet(S), ~ Repeats(h),
           \A i \in DOMAIN h.bookkeepers : h.bookkeepers[i] \in S
    PROVE  /\ Len(h.bookkeepers) \in Nat
           /\ Cardinality(S) \in Nat
           /\ Len(h.bookkeepers) <= Cardinality(S)
<1>1. h.bookkeepers \in Seq(Peer)
  BY HeadersAssumption DEF HeaderType
<1>. DEFINE n == Len(h.bookkeepers)
<1>2. n \in Nat /\ DOMAIN h.bookkeepers = 1..n
  BY <1>1
<1>3. h.bookkeepers \in [1..n -> S]
  BY <1>1, <1>2
<1>4. h.bookkeepers \in Injection(1..n, S)
  BY <1>2, <1>3 DEF Injection, IsInjective, Repeats
<1>5. Cardinality(1..n) = n
  BY <1>2, FS_Interval
<1>6. n <= Cardinality(S)
  BY <1>4, <1>5, FS_Injection
<1>. QED
  BY <1>2, <1>6, FS_CardinalityType

\* Two thirds of a set that is less than two thirds faulty contain an honest
\* validator, who signs canonical blocks only - if they are counted as a set.
LEMMA QuorumIsHonest ==
    ASSUME NEW h \in Headers, NEW S \in SUBSET Peer,
           Cardinality(S \cap Faulty) * 3 < Cardinality(S) * 2,
           Len(h.bookkeepers) * 3 >= Cardinality(S) * 2,
           \A i \in DOMAIN h.bookkeepers : h.bookkeepers[i] \in S,
           VerifyMultiSignature(h)
    PROVE  h.hash \in Canonical \/ Forging(h)
<1>1. SUFFICES ASSUME h.hash \notin Canonical PROVE Forging(h)
  OBVIOUS
<1>2. \A i \in DOMAIN h.bookkeepers : h.bookkeepers[i] \in S \cap Faulty
  BY <1>1, PolyAssumption DEF VerifyMultiSignature
<1>3. CASE Repeats(h)
  BY <1>1, <1>2, <1>3 DEF Forging, Signers
<1>4. CASE ~ Repeats(h)
  <2>1. IsFiniteSet(S) /\ IsFiniteSet(S \cap Faulty)
    BY HeadersAssumption, FS_Subset
  <2>2. /\ Len(h.bookkeepers) \in Nat
        /\ Cardinality(S \cap Faulty) \in Nat
        /\ Len(h.bookkeepers) <= Cardinality(S \cap Faulty)
    BY <1>2, <1>4, <2>1, DistinctSigners
  <2>3. Cardinality(S) \in Nat
    BY <2>1, FS_CardinalityType
  <2>. QED
    BY <2>2, <2>3
<1>. QED
  BY <1>3, <1>4

\* A header whose signatures check is attested by the epoch stored for its
\* chain, and canonical or forging if that epoch is canonical.
LEMMA VerifiedOutcome ==
    ASSUME Recorded(consensusPeers, keyHeaderHash), NEW h \in Headers,
           VerifyHeaderSig(h) = "ok"
    PROVE  /\ consensusPeers[h.chainId] # NoEpoch
           /\ h.height > consensusPeers[h.chainId].height
           /\ Attests(h, consensusPeers[h.chainId])
           /\ Trusted(keyHeaderHash, h.chainId) => h.hash \in Canonical \/ Forging(h)
<1>1. h.chainId \in Chain /\ h.bookkeepers \in Seq(Peer)
  BY HeadersAssumption DEF HeaderType
<1>. DEFINE e == consensusPeers[h.chainId]
<1>2. FitsEpoch(h, e) /\ VerifyMultiSignature(h)
  BY DEF VerifyHeaderSig
<1>3. PICK g \in Headers : /\ e = EpochOf(g)
                           /\ keyHeaderHash[h.chainId] = g.hash
                           /\ g.config \notin {NoConfig, Unparsable}
  <2>1. PICK g \in Headers : /\ g.chainId = h.chainId
                             /\ Installed(g, consensusPeers, keyHeaderHash)
                             /\ g.config \notin {NoConfig, Unparsable}
    BY <1>1, <1>2 DEF Recorded, FitsEpoch
  <2>. QED
    BY <2>1 DEF Installed
<1>4. /\ e.peerMap \in SUBSET Peer /\ e.peerMap = g.config
      /\ g.hash \in Hash
  BY <1>3, HeadersAssumption DEF HeaderType, EpochOf
<1>5. ASSUME Trusted(keyHeaderHash, h.chainId)
      PROVE  h.hash \in Canonical \/ Forging(h)
  <2>1. g.hash \in Canonical
    BY <1>3, <1>4, <1>5, NilAssumption DEF Trusted
  <2>2. Cardinality(e.peerMap \cap Faulty) * 3 < Cardinality(e.peerMap) * 2
    BY <1>3, <1>4, <2>1, PolyAssumption
  <2>. QED
    BY <1>2, <1>4, <2>2, QuorumIsHonest DEF FitsEpoch
<1>6. Signers(h) \subseteq e.peerMap \cap h.sigData
  BY <1>2 DEF FitsEpoch, VerifyMultiSignature, Signers
<1>7. ASSUME ~ Repeats(h)
      PROVE  Cardinality(Signers(h)) * 3 >= Cardinality(e.peerMap) * 2
  <2>1. IsFiniteSet(e.peerMap) /\ IsFiniteSet(Signers(h))
    BY <1>4, <1>6, HeadersAssumption, FS_Subset
  <2>2. \A i \in DOMAIN h.bookkeepers : h.bookkeepers[i] \in Signers(h)
    BY DEF Signers
  <2>3. /\ Cardinality(Signers(h)) \in Nat /\ Len(h.bookkeepers) \in Nat
        /\ Len(h.bookkeepers) <= Cardinality(Signers(h))
    BY <1>7, <2>1, <2>2, DistinctSigners
  <2>. QED
    BY <1>2, <2>1, <2>3, FS_CardinalityType DEF FitsEpoch
<1>. QED
  BY <1>2, <1>5, <1>6, <1>7 DEF FitsEpoch, Attests

\* What ProcessHeader lets pass is canonical or forging as long as the epoch of
\* the signed header is canonical, and only verified headers are handed to
\* UpdateConsensusPeer.
LEMMA PassedOutcome ==
    ASSUME Recorded(consensusPeers, keyHeaderHash), NEW h \in Headers,
           NEW proof, NEW cur \in Headers \cup {NoHeader},
           HeaderVerdict(h, proof, cur).reply = "ok"
    PROVE  LET u == HeaderVerdict(h, proof, cur).update
               signed == SignedHeader(h, proof, cur)
           IN
           /\ Trusted(keyHeaderHash, signed.chainId) => h.hash \in Canonical \/ Forging(signed)
           /\ u # NoHeader => u = signed /\ u \in Headers /\ VerifyHeaderSig(u) = "ok"
<1>1. CASE cur # NoHeader /\ proof # NoProof
  <2>1. cur \in Headers /\ VerifyHeaderSig(cur) = "ok"
    BY <1>1 DEF HeaderVerdict, VerifyHistoricalHeader
  <2>2. h.hash \in cur.blockRoot
    BY <1>1, <2>1 DEF HeaderVerdict, VerifyHistoricalHeader, MerkleProve
  <2>3. Trusted(keyHeaderHash, cur.chainId) => h.hash \in Canonical \/ Forging(cur)
    BY <2>1, <2>2, VerifiedOutcome, PolyAssumption
  <2>. QED
    BY <1>1, <2>1, <2>3 DEF HeaderVerdict, SignedHeader
<1>2. CASE ~ (cur # NoHeader /\ proof # NoProof)
  <2>1. CASE VerifyHeaderSig(h) = "err" /\ VerifyHeaderByKeyHeaderHash(h)
    <3>1. h.hash \in Hash /\ h.hash # NoHash
      BY HeadersAssumption, NilAssumption DEF HeaderType
    <3>2. Trusted(keyHeaderHash, h.chainId) => h.hash \in Canonical
      BY <2>1, <3>1 DEF VerifyHeaderByKeyHeaderHash, Trusted
    <3>. QED
      BY <1>2, <2>1, <3>2 DEF HeaderVerdict, SignedHeader
  <2>2. CASE ~ (VerifyHeaderSig(h) = "err" /\ VerifyHeaderByKeyHeaderHash(h))
    <3>1. VerifyHeaderSig(h) = "ok"
      BY <1>2, <2>2 DEF HeaderVerdict
    <3>. QED
      BY <1>2, <2>2, <3>1, VerifiedOutcome DEF HeaderVerdict, SignedHeader
  <2>. QED
    BY <2>1, <2>2
<1>. QED
  BY <1>1, <1>2
-----------------------------------------------------------------------------
\* The working stores after an update by a header, or none.
UpdatedBy(u) ==
    IF u = NoHeader
    THEN UNCHANGED <<consensusPeers, keyHeaderHash>>
    ELSE ~ UpdateFails(u) /\ UpdateConsensusPeer(u)

\* The step has moved chain c to the epoch of the header u.
MovedTo(u, c) ==
    /\ u \in Headers
    /\ c = u.chainId
    /\ consensusPeers'[c] = EpochOf(u)
    /\ Installed(u, consensusPeers', keyHeaderHash')

Moved(c) == consensusPeers'[c] # consensusPeers[c] \/ keyHeaderHash'[c] # keyHeaderHash[c]

\* An update keeps the stores well-typed and recorded, and moves only the epoch
\* of the header's own chain.
LEMMA UpdateKeepsRecorded ==
    ASSUME Recorded(consensusPeers, keyHeaderHash),
           consensusPeers \in PeersType, keyHeaderHash \in KeyType,
           NEW u \in Headers \cup {NoHeader},
           UpdatedBy(u)
    PROVE  /\ consensusPeers' \in PeersType
           /\ keyHeaderHash' \in KeyType
           /\ Recorded(consensusPeers', keyHeaderHash')
           /\ \A c \in Chain : Moved(c) => u # NoHeader /\ MovedTo(u, c)
<1>1. CASE UNCHANGED <<consensusPeers, keyHeaderHash>>
  BY <1>1 DEF Recorded, Installed, Moved
<1>2. CASE ~ UNCHANGED <<consensusPeers, keyHeaderHash>>
  <2>1. /\ u \in Headers
        /\ u.config \notin {NoConfig, Unparsable}
        /\ consensusPeers' = [consensusPeers EXCEPT ![u.chainId] = EpochOf(u)]
        /\ keyHeaderHash' = [keyHeaderHash EXCEPT ![u.chainId] = u.hash]
    BY <1>2 DEF UpdatedBy, UpdateConsensusPeer, UpdateFails
  <2>2. u.chainId \in Chain /\ u.hash \in Hash
    BY <2>1, HeadersAssumption, NilAssumption DEF HeaderType
  <2>3. EpochOf(u) \in Epoch
    BY <2>1, HeadersAssumption DEF HeaderType, EpochOf, Epoch
  <2>4. consensusPeers' \in PeersType /\ keyHeaderHash' \in KeyType
    BY <2>1, <2>2, <2>3 DEF PeersType, KeyType
  <2>5. Installed(u, consensusPeers', keyHeaderHash')
    BY <2>1, <2>2 DEF Installed, PeersType, KeyType
  <2>6. \A c \in Chain : c # u.chainId =>
            consensusPeers'[c] = consensusPeers[c] /\ keyHeaderHash'[c] = keyHeaderHash[c]
    BY <2>1 DEF PeersType, KeyType
  <2>7. Recorded(consensusPeers', keyHeaderHash')
    <3>1. SUFFICES ASSUME NEW c \in Chain
                   PROVE  \/ consensusPeers'[c] = NoEpoch /\ keyHeaderHash'[c] = NoHash
                          \/ \E h \in Headers :
                                /\ h.chainId = c
                                /\ Installed(h, consensusPeers', keyHeaderHash')
                                /\ h.config \notin {NoConfig, Unparsable}
      BY DEF Recorded
    <3>2. CASE c = u.chainId
      BY <2>1, <2>2, <2>5, <3>2
    <3>3. CASE c # u.chainId
      BY <2>6, <3>3 DEF Recorded, Installed
    <3>. QED
      BY <3>2, <3>3
  <2>. QED
    BY <2>1, <2>2, <2>4, <2>5, <2>6, <2>7, NilAssumption DEF Installed, Moved, MovedTo
<1>. QED
  BY <1>1, <1>2

\* A header that ProcessHeader lets pass leaves recorded stores, and moves an
\* epoch only to one that the epoch before it attests.
LEMMA ProcessKeepsRecorded ==
    ASSUME IInv, NEW h \in Headers, NEW proof, NEW cur \in Headers \cup {NoHeader},
           ProcessHeader(h, proof, cur)
    PROVE  LET u == SignedHeader(h, proof, cur) IN
           /\ consensusPeers' \in PeersType
           /\ keyHeaderHash' \in KeyType
           /\ Recorded(consensusPeers', keyHeaderHash')
           /\ \A c \in Chain : Moved(c) =>
                  /\ MovedTo(u, c)
                  /\ Attests(u, consensusPeers[c])
                  /\ Trusted(keyHeaderHash, c) => u.hash \in Canonical \/ Forging(u)
                  /\ consensusPeers[c] # NoEpoch
                  /\ consensusPeers'[c] # NoEpoch
                  /\ consensusPeers'[c].height > consensusPeers[c].height
<1>. DEFINE u == HeaderVerdict(h, proof, cur).update
<1>1. UpdatedBy(u)
  BY DEF ProcessHeader, UpdatedBy
<1>2. /\ Recorded(consensusPeers, keyHeaderHash)
      /\ consensusPeers \in PeersType /\ keyHeaderHash \in KeyType
  BY DEF IInv, TypeOK
<1>3. u # NoHeader => /\ u = SignedHeader(h, proof, cur)
                      /\ u \in Headers /\ VerifyHeaderSig(u) = "ok"
  BY <1>2, PassedOutcome DEF ProcessHeader
<1>4. u \in Headers \cup {NoHeader}
  BY <1>3
<1>. HIDE DEF u
<1>5. /\ consensusPeers' \in PeersType
      /\ keyHeaderHash' \in KeyType
      /\ Recorded(consensusPeers', keyHeaderHash')
      /\ \A c \in Chain : Moved(c) => u # NoHeader /\ MovedTo(u, c)
  BY <1>1, <1>2, <1>4, UpdateKeepsRecorded
<1>6. ASSUME NEW c \in Chain, Moved(c)
      PROVE  /\ u = SignedHeader(h, proof, cur)
             /\ MovedTo(u, c)
             /\ Attests(u, consensusPeers[c])
             /\ Trusted(keyHeaderHash, c) => u.hash \in Canonical \/ Forging(u)
             /\ consensusPeers[c] # NoEpoch
             /\ consensusPeers'[c] # NoEpoch
             /\ consensusPeers'[c].height > consensusPeers[c].height
  <2>1. /\ u \in Headers /\ VerifyHeaderSig(u) = "ok"
        /\ u = SignedHeader(h, proof, cur)
        /\ MovedTo(u, c)
    BY <1>3, <1>5, <1>6
  <2>2. /\ u.chainId = c
        /\ consensusPeers'[c] = EpochOf(u)
    BY <2>1 DEF MovedTo
  <2>3. /\ Attests(u, consensusPeers[c])
        /\ consensusPeers[c] # NoEpoch
        /\ u.height > consensusPeers[c].height
        /\ Trusted(keyHeaderHash, c) => u.hash \in Canonical \/ Forging(u)
    BY <1>2, <2>1, <2>2, VerifiedOutcome
  <2>4. consensusPeers'[c] # NoEpoch /\ consensusPeers'[c].height = u.height
    BY <2>1, <2>2, NilAssumption DEF EpochOf
  <2>. QED
    BY <2>1, <2>3, <2>4
<1>. QED
  BY <1>5, <1>6
-----------------------------------------------------------------------------
\* Epochs of the working store only move up within a step.
Upward == \A c \in Chain : consensusPeers'[c] # consensusPeers[c] =>
    \/ consensusPeers[c] = NoEpoch
    \/ /\ consensusPeers'[c] # NoEpoch
       /\ consensusPeers'[c].height > consensusPeers[c].height

\* Moving up twice is moving up.
LEMMA UpwardAboveCheckpoint ==
    ASSUME IInv, Upward, consensusPeers' \in PeersType
    PROVE  \A c \in Chain :
               \/ checkpoint.peers[c] = consensusPeers'[c]
               \/ checkpoint.peers[c] = NoEpoch
               \/ /\ consensusPeers'[c] # NoEpoch
                  /\ consensusPeers'[c].height > checkpoint.peers[c].height
<1>1. SUFFICES ASSUME NEW c \in Chain, checkpoint.peers[c] # NoEpoch,
                      checkpoint.peers[c] # consensusPeers'[c]
               PROVE  /\ consensusPeers'[c] # NoEpoch
                      /\ consensusPeers'[c].height > checkpoint.peers[c].height
  OBVIOUS
<1>. DEFINE old == checkpoint.peers[c]
            mid == consensusPeers[c]
            new == consensusPeers'[c]
<1>2. old \in {NoEpoch} \cup Epoch /\ mid \in {NoEpoch} \cup Epoch
      /\ new \in {NoEpoch} \cup Epoch
  BY DEF IInv, TypeOK, PeersType
<1>3. /\ new # mid => mid = NoEpoch \/ (new # NoEpoch /\ new.height > mid.height)
      /\ old = mid \/ (mid # NoEpoch /\ mid.height > old.height)
  BY <1>1 DEF Upward, IInv, AboveCheckpoint
<1>. QED
  BY <1>1, <1>2, <1>3 DEF Epoch

\* A transaction that commits recorded, higher epochs keeps the invariant.
LEMMA CommitStep ==
    ASSUME IInv, Commit, Upward,
           consensusPeers' \in PeersType, keyHeaderHash' \in KeyType,
           Recorded(consensusPeers', keyHeaderHash')
    PROVE  IInv' /\ Rise
<1>1. TypeOK'
  BY DEF Commit, TypeOK
<1>2. checkpoint'.peers = consensusPeers' /\ checkpoint'.key = keyHeaderHash'
  BY DEF Commit
<1>3. Recorded(consensusPeers, keyHeaderHash)'
  BY DEF Recorded, Installed
<1>4. Recorded(checkpoint.peers, checkpoint.key)'
  BY <1>2 DEF Recorded, Installed
<1>5. AboveCheckpoint'
  BY <1>2 DEF AboveCheckpoint
<1>6. Rise
  BY <1>2, UpwardAboveCheckpoint DEF Rise
<1>. QED
  BY <1>1, <1>3, <1>4, <1>5, <1>6 DEF IInv, Commit, Idle

\* A transaction that fails goes back to the committed stores.
LEMMA RevertStep ==
    ASSUME IInv, NEW outcome \in {"err", "panic"}, Revert(outcome)
    PROVE  IInv' /\ Rise /\ HandOver /\ LossOfTrust
<1>1. checkpoint' = checkpoint
      /\ consensusPeers' = checkpoint.peers /\ keyHeaderHash' = checkpoint.key
  BY DEF Revert
<1>2. TypeOK'
  BY DEF Revert, IInv, TypeOK
<1>3. Recorded(consensusPeers, keyHeaderHash)' /\ Recorded(checkpoint.peers, checkpoint.key)'
  BY <1>1 DEF IInv, Recorded, Installed
<1>4. AboveCheckpoint'
  BY <1>1 DEF AboveCheckpoint
<1>5. checkpoint' = [peers |-> consensusPeers', key |-> keyHeaderHash']
  BY <1>1 DEF IInv, TypeOK
<1>6. Rise
  BY <1>1 DEF Rise
<1>7. HandOver /\ LossOfTrust
  BY DEF Revert, HandOver, LossOfTrust, BackToCheckpoint
<1>. QED
  BY <1>2, <1>3, <1>4, <1>5, <1>6, <1>7 DEF IInv

\* A call of ProcessHeader fails with one of two replies or succeeds.
LEMMA ReplyCases ==
    ASSUME NEW h, NEW proof, NEW cur
    PROVE  /\ ProcessHeaderReply(h, proof, cur) \in {"ok", "err", "panic"}
           /\ ProcessHeaderReply(h, proof, cur) = "ok" =>
                  HeaderVerdict(h, proof, cur).reply = "ok"
<1>1. \A g : VerifyHeaderSig(g) \in {"ok", "err", "panic"}
  BY DEF VerifyHeaderSig
<1>2. VerifyHistoricalHeader(h, proof, cur) \in {"ok", "err", "panic"}
  BY <1>1 DEF VerifyHistoricalHeader
<1>3. HeaderVerdict(h, proof, cur).reply \in {"ok", "err", "panic"}
  BY <1>1, <1>2 DEF HeaderVerdict
<1>. QED
  BY <1>3 DEF ProcessHeaderReply

-----------------------------------------------------------------------------
(* The relay, one action at a time                                         *)

\* Until a forging header has passed, every stored epoch is canonical.
SoundKeys(key) == \A c \in Chain : Trusted(key, c)

TrustInv ==
    /\ forged \in BOOLEAN
    /\ ~ forged => SoundKeys(keyHeaderHash) /\ SoundKeys(checkpoint.key)

\* The inductive invariant of the relay.
RelayInv == IInv /\ TrustInv /\ IncomingInv

\* The checkpoint only takes what the working store holds.
Saving == checkpoint' = checkpoint \/ checkpoint'.key = keyHeaderHash'

\* What every step does: it keeps the invariants, and is a step of the three
\* action properties.
StoresStep == IInv' /\ TrustInv' /\ Rise /\ HandOver /\ LossOfTrust /\ Saving

\* What one step of the relay does to the history of executed messages.
MailboxStep == mailbox!Next \/ UNCHANGED <<executed, forged>>

\* A header that passes moves epochs up, is a step of the action properties,
\* and leaves canonical epochs unless it is remembered as forging.
LEMMA PassStep ==
    ASSUME IInv, TrustInv, NEW h \in Headers, NEW proof,
           NEW cur \in Headers \cup {NoHeader},
           ProcessHeader(h, proof, cur), Remember(h, proof, cur)
    PROVE  /\ consensusPeers' \in PeersType
           /\ keyHeaderHash' \in KeyType
           /\ Recorded(consensusPeers', keyHeaderHash')
           /\ Upward /\ HandOver /\ LossOfTrust
           /\ forged' \in BOOLEAN
           /\ forged => forged'
           /\ ~ forged' => SoundKeys(keyHeaderHash')
           /\ ~ forged' => h.hash \in Canonical
<1>. DEFINE u == SignedHeader(h, proof, cur)
<1>1. /\ consensusPeers' \in PeersType
      /\ keyHeaderHash' \in KeyType
      /\ Recorded(consensusPeers', keyHeaderHash')
      /\ \A c \in Chain : Moved(c) =>
             /\ MovedTo(u, c)
             /\ Attests(u, consensusPeers[c])
             /\ Trusted(keyHeaderHash, c) => u.hash \in Canonical \/ Forging(u)
             /\ consensusPeers[c] # NoEpoch
             /\ consensusPeers'[c] # NoEpoch
             /\ consensusPeers'[c].height > consensusPeers[c].height
  BY ProcessKeepsRecorded
<1>2. forged' = (forged \/ Forging(u))
  BY DEF Remember
<1>3. u \in Headers
  BY DEF SignedHeader
<1>4. Trusted(keyHeaderHash, u.chainId) => h.hash \in Canonical \/ Forging(u)
  BY PassedOutcome DEF IInv, ProcessHeader
<1>. HIDE DEF u
<1>5. Upward
  BY <1>1 DEF Upward, Moved
<1>6. HandOver
  BY <1>1 DEF HandOver, Moved, MovedTo
<1>7. ASSUME NEW c \in Chain, Trusted(keyHeaderHash, c), ~ Trusted(keyHeaderHash', c)
      PROVE  /\ u \in Headers /\ u.chainId = c
             /\ Forging(u)
             /\ consensusPeers[c] # NoEpoch /\ Attests(u, consensusPeers[c])
             /\ Installed(u, consensusPeers', keyHeaderHash')
  <2>1. Moved(c)
    BY <1>7 DEF Moved, Trusted
  <2>2. /\ MovedTo(u, c)
        /\ consensusPeers[c] # NoEpoch /\ Attests(u, consensusPeers[c])
        /\ u.hash \in Canonical \/ Forging(u)
    BY <1>1, <1>7, <2>1
  <2>3. keyHeaderHash'[c] = u.hash
    BY <2>2 DEF MovedTo, Installed
  <2>. QED
    BY <1>7, <2>2, <2>3 DEF MovedTo, Trusted
<1>8. LossOfTrust
  BY <1>7 DEF LossOfTrust
<1>9. ASSUME ~ forged'
      PROVE  SoundKeys(keyHeaderHash') /\ h.hash \in Canonical
  <2>1. ~ Forging(u) /\ SoundKeys(keyHeaderHash)
    BY <1>2, <1>9 DEF TrustInv
  <2>2. SoundKeys(keyHeaderHash')
    BY <1>7, <2>1 DEF SoundKeys
  <2>3. u.chainId \in Chain
    BY <1>3, HeadersAssumption DEF HeaderType
  <2>. QED
    BY <1>4, <2>1, <2>2, <2>3 DEF SoundKeys
<1>. QED
  BY <1>1, <1>2, <1>5, <1>6, <1>8, <1>9 DEF TrustInv

\* A transaction that ends in a commit of such stores.
LEMMA CommitPass ==
    ASSUME IInv, Commit, Upward, HandOver, LossOfTrust,
           consensusPeers' \in PeersType, keyHeaderHash' \in KeyType,
           Recorded(consensusPeers', keyHeaderHash'),
           forged' \in BOOLEAN, ~ forged' => SoundKeys(keyHeaderHash')
    PROVE  StoresStep
<1>1. IInv' /\ Rise
  BY CommitStep
<1>2. checkpoint'.key = keyHeaderHash'
  BY DEF Commit
<1>3. TrustInv'
  BY <1>2 DEF TrustInv, SoundKeys, Trusted
<1>. QED
  BY <1>1, <1>2, <1>3 DEF StoresStep, Saving

\* A transaction that fails leaves nothing behind.
LEMMA FailStep ==
    ASSUME IInv, TrustInv, UNCHANGED forged,
           NEW outcome \in {"err", "panic"}, Revert(outcome)
    PROVE  StoresStep
<1>1. IInv' /\ Rise /\ HandOver /\ LossOfTrust
  BY RevertStep
<1>2. TrustInv'
  BY DEF TrustInv, SoundKeys, Trusted, Revert
<1>3. Saving
  BY DEF Revert, Saving
<1>. QED
  BY <1>1, <1>2, <1>3 DEF StoresStep

\* Steps that leave the stores and the history alone.
LEMMA StoresUnchanged ==
    ASSUME IInv, TrustInv, UNCHANGED vars, UNCHANGED forged
    PROVE  StoresStep
<1>1. IInv'
  BY DEF vars, IInv, TypeOK, Recorded, Installed, AboveCheckpoint, Idle
<1>2. TrustInv'
  BY DEF vars, TrustInv, SoundKeys, Trusted
<1>3. Rise /\ HandOver /\ LossOfTrust /\ Saving
  BY DEF vars, Rise, HandOver, LossOfTrust, Trusted, Saving
<1>. QED
  BY <1>1, <1>2, <1>3 DEF StoresStep

\* A genesis header is canonical and finds no epoch to replace.
LEMMA GenesisStep ==
    ASSUME IInv, TrustInv, NEW h \in Genesis, SyncGenesis(h)
    PROVE  StoresStep /\ UNCHANGED forged
<1>1. SyncGenesisHeader(h) /\ UNCHANGED forged
  BY DEF SyncGenesis
<1>2. CASE consensusPeers[h.chainId] # NoEpoch \/ UpdateFails(h)
  BY <1>1, <1>2, FailStep DEF SyncGenesisHeader
<1>3. CASE ~ (consensusPeers[h.chainId] # NoEpoch \/ UpdateFails(h))
  <2>1. UpdateConsensusPeer(h) /\ Commit /\ ~ UpdateFails(h)
    BY <1>1, <1>3 DEF SyncGenesisHeader
  <2>2. h \in Headers /\ h.hash \in Canonical
    BY HeadersAssumption, PolyAssumption
  <2>3. UpdatedBy(h)
    BY <2>1, <2>2, NilAssumption DEF UpdatedBy
  <2>4. /\ consensusPeers' \in PeersType
        /\ keyHeaderHash' \in KeyType
        /\ Recorded(consensusPeers', keyHeaderHash')
        /\ \A c \in Chain : Moved(c) => MovedTo(h, c)
    BY <2>2, <2>3, UpdateKeepsRecorded DEF IInv, TypeOK
  <2>5. \A c \in Chain : Moved(c) => c = h.chainId /\ keyHeaderHash'[c] \in Canonical
    BY <2>2, <2>4 DEF MovedTo, Installed
  <2>6. Upward /\ HandOver
    BY <1>3, <2>5 DEF Upward, HandOver, Moved
  <2>7. \A c \in Chain : Trusted(keyHeaderHash, c) => Trusted(keyHeaderHash', c)
    BY <2>5 DEF Moved, Trusted
  <2>8. LossOfTrust
    BY <2>7 DEF LossOfTrust
  <2>9. ~ forged' => SoundKeys(keyHeaderHash')
    BY <1>1, <2>7 DEF TrustInv, SoundKeys
  <2>. QED
    BY <1>1, <2>1, <2>4, <2>6, <2>8, <2>9, CommitPass DEF TrustInv
<1>. QED
  BY <1>1, <1>2, <1>3

\* The loop over the headers starts.
LEMMA BatchStep ==
    ASSUME IInv, TrustInv, NEW hs \in Batches, SyncHeaders(hs)
    PROVE  StoresStep /\ UNCHANGED forged
<1>1. hs \in Seq(Headers \cup {Garbage}) /\ hs # <<>>
  BY HeadersAssumption
<1>2. /\ UNCHANGED <<consensusPeers, keyHeaderHash, checkpoint, forged>>
      /\ queue' = hs /\ reply' = "busy"
  BY DEF SyncHeaders, SyncBlockHeaders
<1>3. TypeOK'
  BY <1>1, <1>2 DEF IInv, TypeOK
<1>4. /\ Recorded(consensusPeers, keyHeaderHash)'
      /\ Recorded(checkpoint.peers, checkpoint.key)'
      /\ AboveCheckpoint'
  BY <1>2 DEF IInv, Recorded, Installed, AboveCheckpoint
<1>5. ~ Idle'
  BY <1>1, <1>2 DEF Idle
<1>6. Rise /\ HandOver /\ LossOfTrust /\ Saving
  BY <1>2 DEF Rise, HandOver, LossOfTrust, Trusted, Saving
<1>7. TrustInv'
  BY <1>2 DEF TrustInv, SoundKeys, Trusted
<1>. QED
  BY <1>2, <1>3, <1>4, <1>5, <1>6, <1>7 DEF IInv, StoresStep

\* One round of the loop.
LEMMA NextStep ==
    ASSUME IInv, TrustInv, SyncNext
    PROVE  StoresStep /\ (UNCHANGED forged \/ forged' = TRUE)
<1>. DEFINE h == Head(queue)
            verdict == ProcessHeaderReply(h, NoProof, NoHeader)
<1>1. queue \in Seq(Headers \cup {Garbage}) /\ queue # <<>>
  BY DEF SyncNext, SyncNextHeader, Idle, IInv, TypeOK
<1>2. CASE h = Garbage
  <2>1. Revert("err") /\ UNCHANGED forged
    BY <1>2 DEF SyncNext, SyncNextHeader
  <2>. QED
    BY <2>1, FailStep
<1>3. CASE h # Garbage /\ verdict # "ok"
  <2>1. verdict \in {"err", "panic"}
    BY <1>3, ReplyCases
  <2>2. Revert(verdict) /\ UNCHANGED forged
    BY <1>3 DEF SyncNext, SyncNextHeader
  <2>. QED
    BY <2>1, <2>2, FailStep
<1>4. CASE h # Garbage /\ verdict = "ok"
  <2>1. h \in Headers
    BY <1>1, <1>4
  <2>2. /\ ProcessHeader(h, NoProof, NoHeader)
        /\ Remember(h, NoProof, NoHeader)
        /\ IF Len(queue) = 1 THEN Commit
           ELSE queue' = Tail(queue) /\ UNCHANGED <<checkpoint, reply>>
    BY <1>4 DEF SyncNext, SyncNextHeader
  <2>3. /\ consensusPeers' \in PeersType
        /\ keyHeaderHash' \in KeyType
        /\ Recorded(consensusPeers', keyHeaderHash')
        /\ Upward /\ HandOver /\ LossOfTrust
        /\ forged' \in BOOLEAN
        /\ forged => forged'
        /\ ~ forged' => SoundKeys(keyHeaderHash')
    BY <2>1, <2>2, PassStep
  <2>4. UNCHANGED forged \/ forged' = TRUE
    BY <2>3 DEF TrustInv
  <2>5. CASE Len(queue) = 1
    BY <2>2, <2>3, <2>4, <2>5, CommitPass
  <2>6. CASE Len(queue) # 1
    <3>1. queue' = Tail(queue) /\ UNCHANGED <<checkpoint, reply>>
      BY <2>2, <2>6
    <3>2. queue' \in Seq(Headers \cup {Garbage}) /\ queue' # <<>>
      <4>1. Len(queue) \in Nat /\ Len(queue) > 1
        <5>1. Len(queue) \in Nat
          BY <1>1, LenProperties
        <5>2. Len(queue) # 0
          BY <1>1, EmptySeq, Zenon
        <5>3. \A n : n \in Nat /\ n # 0 /\ n # 1 => n > 1
          OBVIOUS
        <5>. QED
          BY <2>6, <5>1, <5>2, <5>3
      <4>2. Tail(queue) \in Seq(Headers \cup {Garbage}) /\ Len(Tail(queue)) = Len(queue) - 1
        BY <1>1, HeadTailProperties
      <4>3. Len(<<>>) = 0
        BY EmptySeq
      <4>4. Len(Tail(queue)) # 0
        BY <4>1, <4>2
      <4>5. Tail(queue) # <<>>
        BY <4>3, <4>4, Zenon
      <4>. QED
        BY <3>1, <4>2, <4>5
    <3>3. TypeOK'
      BY <2>3, <3>1, <3>2 DEF IInv, TypeOK
    <3>4. /\ Recorded(consensusPeers, keyHeaderHash)'
          /\ Recorded(checkpoint.peers, checkpoint.key)'
      BY <2>3, <3>1 DEF IInv, Recorded, Installed
    <3>5. AboveCheckpoint'
      BY <2>3, <3>1, UpwardAboveCheckpoint DEF AboveCheckpoint
    <3>6. Rise /\ Saving
      BY <3>1 DEF Rise, Saving
    <3>7. TrustInv'
      BY <2>3, <3>1 DEF TrustInv, SoundKeys, Trusted
    <3>. QED
      BY <2>3, <2>4, <3>2, <3>3, <3>4, <3>5, <3>6, <3>7 DEF IInv, Idle, StoresStep
  <2>. QED
    BY <2>5, <2>6
<1>. QED
  BY <1>2, <1>3, <1>4

\* A message that fails is undone with the header that came with it.
LEMMA FailCrossChainStep ==
    ASSUME IInv, TrustInv, NEW h \in Headers, NEW proof, NEW cur \in Headers \cup {NoHeader},
           FailCrossChainTx(h, proof, cur)
    PROVE  StoresStep /\ UNCHANGED <<doneTx, executed, forged>>
<1>. DEFINE verdict == ProcessHeaderReply(h, proof, cur)
<1>1. verdict \in {"ok", "err", "panic"}
  BY ReplyCases
<1>. HIDE DEF verdict
<1>2. Revert(IF verdict = "ok" THEN "err" ELSE verdict) /\ UNCHANGED <<doneTx, executed, forged>>
  BY DEF FailCrossChainTx, verdict
<1>3. (IF verdict = "ok" THEN "err" ELSE verdict) \in {"err", "panic"}
  BY <1>1
<1>. QED
  BY <1>2, <1>3, FailStep

\* A message whose key is free was not executed before.
LEMMA ExecuteDelivers ==
    ASSUME IncomingInv, NEW m \in Inbound, ExecuteMessage(m)
    PROVE  mailbox!Deliver(m)
<1>1. /\ DoneTxKey(m) \notin DOMAIN doneTx
      /\ m.toChainId = ChainIdInPolyNet
      /\ executed' = Append(executed, m)
  BY DEF ExecuteMessage, VerifyToCosmosTx, CheckDoneTx, ForThisChain
<1>2. \A i \in 1..Len(executed) : DoneTxKey(executed[i]) # DoneTxKey(m)
  BY <1>1 DEF IncomingInv, DoneMeansExecuted
<1>3. \A i \in 1..Len(executed) : ~ mailbox!SameSource(m, executed[i])
  BY <1>2 DEF mailbox!SameSource, DoneTxKey
<1>. QED
  BY <1>1, <1>3 DEF mailbox!Deliver

\* A message that is executed was proven with the root of a header that
\* ProcessHeader let pass, hence of a canonical block or a forging header.
LEMMA CrossChainStep ==
    ASSUME RelayInv, NEW h \in Headers, NEW proof, NEW cur \in Headers \cup {NoHeader},
           ProcessCrossChainTx(h, proof, cur)
    PROVE  StoresStep /\ IncomingInv' /\ MailboxStep
<1>1. /\ consensusPeers' \in PeersType
      /\ keyHeaderHash' \in KeyType
      /\ Recorded(consensusPeers', keyHeaderHash')
      /\ Upward /\ HandOver /\ LossOfTrust
      /\ forged' \in BOOLEAN
      /\ forged => forged'
      /\ ~ forged' => SoundKeys(keyHeaderHash')
      /\ ~ forged' => h.hash \in Canonical
  BY PassStep DEF RelayInv, ProcessCrossChainTx
<1>2. StoresStep
  BY <1>1, CommitPass DEF RelayInv, ProcessCrossChainTx
<1>3. PICK m \in Inbound : MerkleProve(m, CrossStateRoot[h.hash]) /\ ExecuteMessage(m)
  BY DEF ProcessCrossChainTx
<1>4. IncomingInv'
  BY <1>3, ExecuteKeepsIncoming DEF RelayInv
<1>5. mailbox!Deliver(m)
  BY <1>3, ExecuteDelivers DEF RelayInv
<1>6. CASE forged'
  <2>1. mailbox!DeliverCorrupt
    BY <1>1, <1>5, <1>6 DEF mailbox!DeliverCorrupt
  <2>. QED
    BY <1>2, <1>4, <2>1 DEF MailboxStep, mailbox!Next
<1>7. CASE ~ forged'
  <2>1. h.hash \in Hash
    BY HeadersAssumption DEF HeaderType
  <2>2. m \in Committed
    BY <1>1, <1>3, <1>7, <2>1, RootAssumption DEF MerkleProve
  <2>3. forged' = forged
    BY <1>1, <1>7 DEF RelayInv, TrustInv
  <2>. QED
    BY <1>2, <1>4, <1>5, <2>2, <2>3 DEF MailboxStep, mailbox!Next
<1>. QED
  BY <1>6, <1>7

\* Steps that leave the incoming side alone are stutters of the mailbox, or
\* corrupt it.
LEMMA FrameIncoming ==
    ASSUME IncomingInv, UNCHANGED <<doneTx, executed>>,
           forged' \in BOOLEAN, UNCHANGED forged \/ forged' = TRUE
    PROVE  IncomingInv' /\ MailboxStep
<1>1. IncomingInv'
  BY DEF IncomingInv, ExecutedOnce, DoneMeansExecuted, DoneTxKey
<1>2. MailboxStep
  BY DEF MailboxStep, mailbox!Next, mailbox!DeliverCorrupt
<1>. QED
  BY <1>1, <1>2

\* What every step of the relay does.
RelayOutcome == StoresStep /\ IncomingInv' /\ MailboxStep

\* Steps that execute no message.
LEMMA HeadersOutcome ==
    ASSUME RelayInv, StoresStep, UNCHANGED <<doneTx, executed>>,
           UNCHANGED forged \/ forged' = TRUE
    PROVE  RelayOutcome
<1>1. IncomingInv /\ forged' \in BOOLEAN
  BY DEF RelayInv, StoresStep, TrustInv
<1>2. IncomingInv' /\ MailboxStep
  BY <1>1, FrameIncoming
<1>. QED
  BY <1>2 DEF RelayOutcome

\* Every action of the relay keeps the invariant and is a step of the action
\* properties and of the mailbox, or a stutter of both.
LEMMA ActionOutcome ==
    ASSUME RelayInv, RelayNext
    PROVE  RelayOutcome
<1>1. ASSUME NEW h \in Genesis, SyncGenesis(h)
      PROVE  RelayOutcome
  <2>1. StoresStep /\ UNCHANGED forged
    BY <1>1, GenesisStep DEF RelayInv
  <2>2. UNCHANGED <<doneTx, executed>>
    BY <1>1 DEF SyncGenesis, ccmVars
  <2>. QED
    BY <2>1, <2>2, HeadersOutcome
<1>2. ASSUME NEW hs \in Batches, SyncHeaders(hs)
      PROVE  RelayOutcome
  <2>1. StoresStep /\ UNCHANGED forged
    BY <1>2, BatchStep DEF RelayInv
  <2>2. UNCHANGED <<doneTx, executed>>
    BY <1>2 DEF SyncHeaders, ccmVars
  <2>. QED
    BY <2>1, <2>2, HeadersOutcome
<1>3. ASSUME SyncNext
      PROVE  RelayOutcome
  <2>1. StoresStep /\ (UNCHANGED forged \/ forged' = TRUE)
    BY <1>3, NextStep DEF RelayInv
  <2>2. UNCHANGED <<doneTx, executed>>
    BY <1>3 DEF SyncNext, ccmVars
  <2>. QED
    BY <2>1, <2>2, HeadersOutcome
<1>4. ASSUME NEW h \in Headers, NEW proof \in Hash \cup {NoProof},
             NEW cur \in Headers \cup {NoHeader}, SubmitCrossChainTx(h, proof, cur)
      PROVE  RelayOutcome
  <2>1. CASE ProcessCrossChainTx(h, proof, cur)
    BY <2>1, CrossChainStep DEF RelayOutcome
  <2>2. CASE FailCrossChainTx(h, proof, cur)
    <3>1. StoresStep /\ UNCHANGED <<doneTx, executed, forged>>
      BY <2>2, FailCrossChainStep DEF RelayInv
    <3>. QED
      BY <3>1, HeadersOutcome
  <2>. QED
    BY <1>4, <2>1, <2>2 DEF SubmitCrossChainTx
<1>5. ASSUME Send
      PROVE  RelayOutcome
  <2>1. UNCHANGED <<vars, forged>> /\ UNCHANGED <<doneTx, executed>>
    BY <1>5 DEF Send, SendRequest
  <2>2. StoresStep
    BY <2>1, StoresUnchanged DEF RelayInv
  <2>. QED
    BY <2>1, <2>2, HeadersOutcome
<1>. QED
  BY <1>1, <1>2, <1>3, <1>4, <1>5 DEF RelayNext

\* The same of the next-state relation, stuttering included.
LEMMA RelayStep ==
    ASSUME RelayInv, [RelayNext /\ UNCHANGED bankVars]_relayVars
    PROVE  /\ RelayInv'
           /\ Rise /\ HandOver /\ LossOfTrust /\ Saving
           /\ MailboxStep
<1>1. CASE UNCHANGED relayVars
  <2>1. UNCHANGED vars /\ UNCHANGED forged /\ UNCHANGED <<doneTx, executed>>
    BY <1>1 DEF relayVars, ccmVars
  <2>2. StoresStep
    BY <2>1, StoresUnchanged DEF RelayInv
  <2>3. RelayOutcome
    BY <2>1, <2>2, HeadersOutcome
  <2>. QED
    BY <2>3 DEF RelayOutcome, StoresStep, RelayInv
<1>2. CASE RelayNext
  <2>1. RelayOutcome
    BY <1>2, ActionOutcome
  <2>. QED
    BY <2>1 DEF RelayOutcome, StoresStep, RelayInv
<1>. QED
  BY <1>1, <1>2

-----------------------------------------------------------------------------
(* The theorems                                                            *)

\* The empty stores satisfy the invariant.
LEMMA RelayInitInvariant == RelayInit => RelayInv
<1>. SUFFICES ASSUME RelayInit PROVE RelayInv
  OBVIOUS
<1>1. Init /\ forged = FALSE
  BY DEF RelayInit
<1>2. TypeOK
  BY <1>1 DEF Init, TypeOK, PeersType, KeyType
<1>3. IInv
  BY <1>1, <1>2 DEF Init, IInv, Recorded, AboveCheckpoint, Idle
<1>4. TrustInv
  BY <1>1 DEF Init, TrustInv, SoundKeys, Trusted
<1>5. CcmInv
  BY CcmInitInvariant DEF RelayInit
<1>. QED
  BY <1>3, <1>4, <1>5 DEF RelayInv, CcmInv

\* The inductive invariant that all results below follow from.
THEOREM RelayInvariance == RelaySpec => []RelayInv
<1>1. RelayInv /\ [RelayNext /\ UNCHANGED bankVars]_relayVars => RelayInv'
  BY RelayStep
<1>. QED
  BY RelayInitInvariant, <1>1, PTL DEF RelaySpec

\* The stores are well-typed in every reachable state.
THEOREM TypeCorrect == RelaySpec => []TypeOK
<1>1. RelayInv => TypeOK
  BY DEF RelayInv, IInv
<1>. QED
  BY RelayInvariance, <1>1, PTL

\* The epoch and the key header hash always describe the same header.
THEOREM KeyHeaderMatches == RelaySpec => []KeyHeaderMatchesEpoch
<1>1. RelayInv => KeyHeaderMatchesEpoch
  BY DEF RelayInv, IInv, Recorded, KeyHeaderMatchesEpoch, StoresAgree
<1>. QED
  BY RelayInvariance, <1>1, PTL

\* Whatever headers and proofs relayers combine, what ProcessHeader lets pass
\* against a canonical epoch is a block of the Poly chain, or was signed by
\* faulty validators alone of whom it lists one twice.
THEOREM AcceptedCanonical == RelaySpec => []AcceptedHeadersCanonical
<1>1. RelayInv => AcceptedHeadersCanonical
  <2>1. SUFFICES ASSUME RelayInv, NEW h \in Headers, NEW proof,
                        NEW cur \in Headers \cup {NoHeader},
                        Trusted(keyHeaderHash, SignedHeader(h, proof, cur).chainId),
                        ProcessHeaderReply(h, proof, cur) = "ok"
                 PROVE  h.hash \in Canonical \/ Forging(SignedHeader(h, proof, cur))
    BY DEF AcceptedHeadersCanonical
  <2>. QED
    BY <2>1, ReplyCases, PassedOutcome DEF RelayInv, IInv
<1>. QED
  BY RelayInvariance, <1>1, PTL

\* The header of the current epoch can be submitted again without effect: its
\* height is the stored one, so the signature check ends in an error and the
\* key header hash decides.
THEOREM KeyHeaderHarmless == RelaySpec => []KeyHeaderResubmittable
<1>1. RelayInv => KeyHeaderResubmittable
  <2>. SUFFICES ASSUME RelayInv, NEW h \in Headers, h.hash = keyHeaderHash[h.chainId]
                PROVE  HeaderVerdict(h, NoProof, NoHeader) = [reply |-> "ok", update |-> NoHeader]
    BY DEF KeyHeaderResubmittable
  <2>1. h.chainId \in Chain /\ h.hash \in Hash /\ h.height \in Nat
    BY HeadersAssumption DEF HeaderType
  <2>2. PICK g \in Headers : g.chainId = h.chainId /\ Installed(g, consensusPeers, keyHeaderHash)
    BY <2>1, NilAssumption DEF RelayInv, IInv, Recorded
  <2>3. g.height = h.height
    BY <2>2, HashAssumption DEF Installed
  <2>4. consensusPeers[h.chainId].height = h.height
    BY <2>2, <2>3 DEF Installed, EpochOf
  <2>5. VerifyHeaderSig(h) = "err"
    BY <2>1, <2>4 DEF VerifyHeaderSig, FitsEpoch
  <2>. QED
    BY <2>5 DEF HeaderVerdict, VerifyHeaderByKeyHeaderHash
<1>. QED
  BY RelayInvariance, <1>1, PTL

\* No message replaces an epoch but a newer header that members of it signed,
\* two thirds of them if it lists each once.
THEOREM TrustIsHandedOver == RelaySpec => TrustHandedOver
<1>1. RelayInv /\ [RelayNext /\ UNCHANGED bankVars]_relayVars => [HandOver]_vars
  BY RelayStep
<1>. QED
  BY RelayInvariance, <1>1, PTL DEF RelaySpec, TrustHandedOver

\* Nothing but a forging header leads from a canonical epoch to another one.
THEOREM TrustIsLostByRepetition == RelaySpec => TrustLostByRepetition
<1>1. RelayInv /\ [RelayNext /\ UNCHANGED bankVars]_relayVars => [LossOfTrust]_vars
  BY RelayStep
<1>. QED
  BY RelayInvariance, <1>1, PTL DEF RelaySpec, TrustLostByRepetition

\* The height of a committed epoch never falls.
THEOREM HeightsRise == RelaySpec => EpochHeightRises
<1>1. RelayInv /\ [RelayNext /\ UNCHANGED bankVars]_relayVars => [Rise]_vars
  BY RelayStep
<1>. QED
  BY RelayInvariance, <1>1, PTL DEF RelaySpec, EpochHeightRises

\* Every epoch of the working stores is that of a canonical block.
EpochsCanonical == \A c \in Chain : Trusted(keyHeaderHash, c)

\* A Poly chain that has never put a faulty validator into a set.
NoFaultyMember ==
    \A h \in Headers : h.hash \in Canonical /\ h.config \notin {NoConfig, Unparsable} =>
        h.config \cap Faulty = {}

\* On such a chain only blocks of Poly are ever trusted as epochs, repeated
\* bookkeepers or not: every signature counts then.
THEOREM HonestEpochsCanonical ==
    ASSUME NoFaultyMember
    PROVE  RelaySpec => []EpochsCanonical
<1>. DEFINE Both == EpochsCanonical /\ SoundKeys(checkpoint.key)
<1>1. RelayInit => Both
  BY DEF RelayInit, Init, EpochsCanonical, SoundKeys, Trusted
<1>2. ASSUME RelayInv, Both, [RelayNext /\ UNCHANGED bankVars]_relayVars
      PROVE  Both'
  <2>1. LossOfTrust /\ Saving
    BY <1>2, RelayStep
  <2>2. ASSUME NEW c \in Chain, ~ Trusted(keyHeaderHash', c)
        PROVE  FALSE
    <3>1. Trusted(keyHeaderHash, c) /\ Trusted(checkpoint.key, c)
      BY <1>2 DEF EpochsCanonical, SoundKeys
    <3>2. PICK h \in Headers : /\ h.chainId = c
                               /\ Forging(h)
                               /\ consensusPeers[c] # NoEpoch
                               /\ Attests(h, consensusPeers[c])
      BY <2>1, <2>2, <3>1 DEF LossOfTrust, BackToCheckpoint, Trusted
    <3>3. PICK i \in DOMAIN h.bookkeepers : h.bookkeepers[i] \in Faulty
      BY <3>2 DEF Forging, Repeats, Signers
    <3>4. h.bookkeepers[i] \in consensusPeers[c].peerMap
      BY <3>2, <3>3 DEF Attests, Signers
    <3>5. PICK g \in Headers : /\ g.chainId = c
                               /\ Installed(g, consensusPeers, keyHeaderHash)
                               /\ g.config \notin {NoConfig, Unparsable}
      BY <1>2, <3>2 DEF RelayInv, IInv, Recorded
    <3>6. /\ g.hash \in Canonical
          /\ consensusPeers[c].peerMap = g.config
      BY <3>1, <3>5, HeadersAssumption, NilAssumption DEF Installed, EpochOf, Trusted, HeaderType
    <3>. QED
      BY <3>3, <3>4, <3>5, <3>6, NoFaultyMember DEF NoFaultyMember
  <2>3. EpochsCanonical'
    BY <2>2 DEF EpochsCanonical, Trusted
  <2>4. SoundKeys(checkpoint.key)'
    BY <1>2, <2>1, <2>3 DEF Saving, EpochsCanonical, SoundKeys, Trusted
  <2>. QED
    BY <2>3, <2>4
<1>3. RelayInv /\ Both /\ [RelayNext /\ UNCHANGED bankVars]_relayVars => Both'
  BY <1>2
<1>. QED
  BY RelayInvariance, <1>1, <1>3, PTL DEF RelaySpec

\* headersync and ccm together implement the mailbox.
THEOREM RelayImplementsMailbox == RelaySpec => MailboxSpec
<1>1. RelayInit => mailbox!Init
  BY DEF RelayInit, CcmInit, mailbox!Init
<1>2. RelayInv /\ [RelayNext /\ UNCHANGED bankVars]_relayVars => [mailbox!Next]_<<executed, forged>>
  BY RelayStep DEF MailboxStep
<1>. QED
  BY RelayInvariance, <1>1, <1>2, PTL DEF RelaySpec, MailboxSpec, mailbox!Spec, mailbox!mailVars

\* A message that failed is not marked as done: it can be delivered again.
THEOREM RelayDoneIsExecuted == RelaySpec => []DoneMeansExecuted
<1>1. RelayInv => DoneMeansExecuted
  BY DEF RelayInv, IncomingInv
<1>. QED
  BY RelayInvariance, <1>1, PTL
=============================================================================
