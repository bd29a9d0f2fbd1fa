---------------------------- MODULE MCPolyRelay ----------------------------
(***************************************************************************)
(* A small relay: a Poly chain of three epochs whose blocks commit to      *)
(* messages, one of them twice, and a second Poly-like chain.  Validator   *)
(* sets overlap, so that some headers fit two epochs.  There are copies of *)
(* headers that skip an epoch, lack a signature or list a bookkeeper       *)
(* twice, and blocks that were never agreed on.                            *)
(***************************************************************************)
EXTENDS PolyRelay, TLC

CONSTANTS p1, p2, p3, p4, \* validators, p4 faulty
          g1, e2, b3, e4, b5, \* canonical blocks of chain 0
          d1, u2,         \* genesis of chain 1 and a block with a foreign payload
          f1, f2          \* blocks of chain 0 that were never agreed on

MCPeer == {p1, p2, p3, p4}
MCHash == {g1, e2, b3, e4, b5, d1, u2, f1, f2}
MCCanonical == MCHash \ {f1, f2}

Msg(id, to) ==
    [fromChainId |-> 2, crossChainId |-> id, toChainId |-> to, method |-> "unlock"]

Zeroth == Msg(<<>>, 1)
First == Msg(<<1>>, 1)
Elsewhere == Msg(<<2>>, 3)
ForgedMsg == Msg(<<3>>, 1)

MCInbound == {Zeroth, First, Elsewhere, ForgedMsg}
MCCommitted == {Zeroth, First, Elsewhere}
MCCrossStateRoot ==
    (e2 :> {Zeroth} @@ b3 :> {Zeroth, First} @@ e4 :> {Elsewhere} @@ f1 :> {ForgedMsg})
        @@ [h \in MCHash |-> {}]

H(hash, chainId, height, config, root, keepers, sigs) ==
    [hash |-> hash, chainId |-> chainId, height |-> height, config |-> config,
     blockRoot |-> root, bookkeepers |-> keepers, sigData |-> sigs]

GenesisHeader == H(g1, 0, 0, {p1, p2, p4}, {}, <<>>, {})
Epoch2 == H(e2, 0, 1, {p1, p2, p3}, {g1}, <<p1, p2>>, {p1, p2})
\* a copy of it that members of the epoch after it have signed
Resigned2 == H(e2, 0, 1, {p1, p2, p3}, {g1}, <<p3, p2>>, {p2, p3})
Block3 == H(b3, 0, 2, NoConfig, {g1, e2}, <<p3, p2>>, {p2, p3})
\* a copy that one honest validator signed alone
Twice3 == H(b3, 0, 2, NoConfig, {g1, e2}, <<p2, p2>>, {p2})
Epoch4 == H(e4, 0, 3, {p2, p3, p4}, {g1, e2, b3}, <<p2, p3>>, {p2, p3})
\* a copy that the first epoch can check, and one that p3 has not signed
Early4 == H(e4, 0, 3, {p2, p3, p4}, {g1, e2, b3}, <<p1, p2>>, {p1, p2})
Short4 == H(e4, 0, 3, {p2, p3, p4}, {g1, e2, b3}, <<p2, p3>>, {p2})
Block5 == H(b5, 0, 4, NoConfig, {g1, e2, b3, e4}, <<p3, p4>>, {p3, p4})
\* p4's blocks: with an honest bookkeeper who has not signed, and with p4 twice
Forged == H(f2, 0, 4, {p4}, {f2}, <<p4, p3>>, {p4})
ForgedTwice == H(f1, 0, 4, {p4}, {f1}, <<p4, p4>>, {p4})
OtherGenesis == H(d1, 1, 1, {p1}, {}, <<>>, {})
BadPayload == H(u2, 1, 2, Unparsable, {d1}, <<p1>>, {p1})

MCGenesis == {GenesisHeader, OtherGenesis, BadPayload}
MCHeaders == {GenesisHeader, Epoch2, Resigned2, Block3, Twice3, Epoch4, Early4, Short4, Block5,
              Forged, ForgedTwice, OtherGenesis, BadPayload}
MCBatches == {<<Epoch2>>, <<Epoch4>>, <<Epoch2, Epoch4>>, <<Epoch4, Resigned2>>,
              <<Early4, Epoch2>>, <<Early4, Short4>>, <<Block3, Garbage>>, <<Twice3, BadPayload>>,
              <<Forged>>, <<ForgedTwice>>, <<ForgedTwice, Block5>>, <<GenesisHeader, Epoch2>>}
MCOutbound == {"lock"}
MCGenesisSupply == [d \in Denom |-> 0]
MCGenesisBalance == [h \in Account |-> MCGenesisSupply]
MCIdBytes == [n \in 0..MaxCrossChainId |-> IF n = 0 THEN <<>> ELSE <<n>>]
=============================================================================
