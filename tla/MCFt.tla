-------------------------------- MODULE MCFt --------------------------------
(***************************************************************************)
(* A small ft: two denoms to create either way, one of the genesis file,   *)
(* an asset that can be replaced by another, and messages of both, with    *)
(* amounts in either byte order and one with the top bit set.              *)
(***************************************************************************)
EXTENDS Ft

CONSTANTS alice, bob,   \* users, bob without an account
          t1, t2, coin, \* two denoms to create and one of the genesis file
          x, y          \* assets of chain 2

MCGenesisSupply == [d \in Denom |-> IF d = coin THEN 1 ELSE 0]
MCGenesisBalance == [h \in Holder |-> [d \in Denom |-> IF h = alice THEN MCGenesisSupply[d] ELSE 0]]
MCIdBytes == [n \in 0..MaxCrossChainId |-> IF n = 0 THEN <<>> ELSE <<n>>]

Msg(id, asset, d, to, n) ==
    [fromChainId |-> 2, crossChainId |-> id, toChainId |-> 1, method |-> "unlock",
     fromContract |-> asset, toContract |-> d, args |-> [toAddress |-> to, amount |-> n]]

MCInbound == {Msg(<<>>, x, t1, alice, <<2, 0>>), Msg(<<1>>, y, t1, bob, <<1, 0>>),
              Msg(<<2>>, x, t2, bob, <<0, 1>>), Msg(<<3>>, x, t2, bob, <<0, 2>>)}
=============================================================================
