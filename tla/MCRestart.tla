----------------------------- MODULE MCRestart -----------------------------
(***************************************************************************)
(* Two lives of a small app: two users, a denom that any of the modules    *)
(* may create, with or without coins, and messages that move its coins.    *)
(***************************************************************************)
EXTENDS Restart

CONSTANTS op, other, \* users
          tok,       \* a denom to create
          x, y,      \* contracts or assets on chain 2
          s          \* a redeem script

MCGenesisSupply == [d \in Denom |-> 0]
MCGenesisBalance == [h \in Holder |-> MCGenesisSupply]
MCIdBytes == [n \in 0..MaxCrossChainId |-> IF n = 0 THEN <<>> ELSE <<n>>]

\* What the three modules send; that this is all of it is part of AppAssumption.
Sends(from, to, args) ==
    [fromContract: from, toChainId: RemoteChain, toContract: to, method: {"unlock"}, args: args]

MCOutbound ==
    Sends(Account, Contract, [toAssetHash: {<<>>} \cup Asset \cup Denom, toAddress: Holder,
                              amount: Amounts])
    \cup Sends(Denom, Asset, [toBtcAddress: Holder, amount: 0..Uint64Size - 1,
                              redeemScript: Script \cup {NoScript}])
    \cup Sends(Denom, Asset, [toAddress: Holder, amount: PaddedBytes])

Msg(id, from, target, args) ==
    [fromChainId |-> 2, crossChainId |-> id, toChainId |-> 1, method |-> "unlock",
     fromContract |-> from, toContract |-> target, args |-> args]

MCInbound == {Msg(<<>>, x, tok, [toAddress |-> op, amount |-> <<1, 0>>]),
              Msg(<<2>>, x, op, [toAssetHash |-> tok, toAddress |-> op, amount |-> 1])}
=============================================================================
