---------------------------- MODULE MCLockProxy ----------------------------
(***************************************************************************)
(* A small lockproxy: two operators that share one module account and may  *)
(* rebind, a denom of the genesis file, one that can be created, and       *)
(* messages of a bound contract, of its successor, for an unknown proxy    *)
(* and for an operator that has no account until coins are sent to it.     *)
(***************************************************************************)
EXTENDS LockProxy

CONSTANTS op1, op2,  \* operators, op1 with coins
          coin, new, \* the denom of the genesis file and one to create
          x, y, a    \* contracts of chain 2 and an asset there

MCGenesisBalance == [h \in Holder |->
    [d \in Denom |-> IF h = op1 /\ d = coin THEN 2 ELSE 0]]
MCGenesisSupply == [d \in Denom |-> IF d = coin THEN 2 ELSE 0]

MCGenesisAccounts == {op1} \cup Module

MCIdBytes == [n \in 0..MaxCrossChainId |-> IF n = 0 THEN <<>> ELSE <<n>>]

Msg(id, from, proxy, d, to, n) ==
    [fromChainId |-> 2, crossChainId |-> id, toChainId |-> 1, method |-> "unlock",
     fromContract |-> from, toContract |-> proxy,
     args |-> [toAssetHash |-> d, toAddress |-> to, amount |-> n]]

MCInbound == {Msg(<<>>, x, op1, coin, op1, 1), Msg(<<1>>, y, op2, coin, op2, 1),
              Msg(<<2>>, x, op1, new, "lockproxy", 1), Msg(<<3>>, x, coin, coin, op1, 1)}
=============================================================================
