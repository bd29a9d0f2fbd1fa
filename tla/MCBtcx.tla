------------------------------- MODULE MCBtcx -------------------------------
(***************************************************************************)
(* A small btcx: bitcoin and one other chain, a denom to create and one of *)
(* the genesis file, amounts at and above the size of a message's, and     *)
(* messages of two assets, one for a denom that cannot be bound.           *)
(***************************************************************************)
EXTENDS Btcx

CONSTANTS alice, bob, \* users, bob without an account
          btcd, coin, \* a denom to create and one of the genesis file
          x, y,       \* assets of other chains
          s           \* a redeem script

MCGenesisSupply == [d \in Denom |-> IF d = coin THEN 1 ELSE 0]
MCGenesisBalance == [h \in Holder |-> [d \in Denom |-> IF h = alice THEN MCGenesisSupply[d] ELSE 0]]
MCIdBytes == [n \in 0..MaxCrossChainId |-> IF n = 0 THEN <<>> ELSE <<n>>]

Msg(from, id, asset, d, to, n) ==
    [fromChainId |-> from, crossChainId |-> id, toChainId |-> 3, method |-> "unlock",
     fromContract |-> asset, toContract |-> d,
     args |-> [toBtcAddress |-> to, amount |-> n]]

MCInbound == {Msg(1, <<>>, x, btcd, alice, 1), Msg(2, <<>>, y, btcd, bob, 1),
              Msg(2, <<1>>, x, coin, bob, 1), Msg(1, <<1>>, x, btcd, alice, 1)}
=============================================================================
