----------------------------- MODULE MCPolyApp -----------------------------
(***************************************************************************)
(* A small app: two users who may create a denom in any of the modules and *)
(* bind it in all of them, and a message in the form of each, all for the  *)
(* same denom.                                                             *)
(***************************************************************************)
EXTENDS PolyApp

CONSTANTS op, other, \* users who may operate proxies and create denoms
          tok,       \* a denom to create
          x, y,      \* hashes of assets or contracts on chain 2
          s          \* a redeem script

MCGenesisSupply == [d \in Denom |-> 0]
MCGenesisBalance == [h \in Holder |-> MCGenesisSupply]
MCIdBytes == [n \in 0..MaxCrossChainId |-> IF n = 0 THEN <<>> ELSE <<n>>]

\* What the three modules send; that this is all of it is part of AppAssumption.
Sends(from, to, args) ==
    [fromContract: from, toChainId: RemoteChain, toContract: to, method: {"unlock"}, args: args]

MCOutbound ==
    Sends(Account, Contract, [toAssetHash: {<<>>} \cup Asset \cup Denom, toAddress: Holder,
                              amount: Amounts])
    \cup Sends(Denom, Asset, [toBtcAddress: Holder, amount: 0..Uint64Size - 1,
                              redeemScript: Script \cup {NoScript}])
    \cup Sends(Denom, Asset, [toAddress: Holder, amount: PaddedBytes])

Msg(id, from, target, args) ==
    [fromChainId |-> 2, crossChainId |-> id, toChainId |-> 1, method |-> "unlock",
     fromContract |-> from, toContract |-> target, args |-> args]

MCInbound == {Msg(<<>>, x, tok, [toAddress |-> op, amount |-> <<1, 0>>]),
              Msg(<<1>>, y, tok, [toAddress |-> "lockproxy", amount |-> <<1>>]),
              Msg(<<2>>, x, op, [toAssetHash |-> tok, toAddress |-> op, amount |-> 1])}
=============================================================================
