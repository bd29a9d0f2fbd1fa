-------------------------- MODULE MCLockProxyPip1 --------------------------
(***************************************************************************)
(* A small lockproxypip1: an operator with a denom of the genesis file     *)
(* that a contract x registers by message and contract y may be created    *)
(* for, and messages of both that draw on them, with fees, to the module's *)
(* own account, and without a sender.                                      *)
(***************************************************************************)
EXTENDS LockProxyPip1

CONSTANTS op, other, \* users
          coin,      \* a denom of the genesis file
          x, y,      \* proxy contracts of chain 2
          a, r       \* an asset and a user there

MCGenesisSupply == [d \in Denom |-> 2]
MCGenesisBalance == [h \in Holder |-> [d \in Denom |-> IF h = op THEN 2 ELSE 0]]
MCIdBytes == [n \in 0..MaxCrossChainId |-> IF n = 0 THEN <<>> ELSE <<n>>]

Msg(id, from, proxy, method, args) ==
    [fromChainId |-> 2, crossChainId |-> id, toChainId |-> 1, method |-> method,
     fromContract |-> from, toContract |-> proxy, args |-> args]

Unlocks(id, from, sender, n, fee, feeTo, to) ==
    Msg(id, from, op, "unlock",
        [fromAssetHash |-> a, toAssetHash |-> coin, toAddress |-> to, amount |-> n,
         feeAmount |-> fee, feeAddress |-> feeTo, fromAddress |-> sender, nonce |-> 1])

MCInbound ==
    {Msg(<<>>, x, op, "registerAsset", [assetHash |-> coin, nativeAssetHash |-> a]),
     Msg(<<1>>, x, NoAddr, "registerAsset", [assetHash |-> coin, nativeAssetHash |-> a]),
     Unlocks(<<2>>, x, r, 1, 0, NoAddr, op),
     Unlocks(<<3>>, y, r, 2, 1, LockProxyModule, other),
     Unlocks(<<4>>, y, NoAddr, 1, 0, NoAddr, op)}
=============================================================================
