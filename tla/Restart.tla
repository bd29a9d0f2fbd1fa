------------------------------ MODULE Restart ------------------------------
(***************************************************************************)
(* The app over several lives: its state is exported to a genesis file     *)
(* (simapp/export.go) and a new chain starts from it.  Of the modules of   *)
(* this repository only ccm exports something, its parameter, and only     *)
(* modules that SetOrderInitGenesis names read the file, which none of     *)
(* them is (simapp/app.go:318-322).  So accounts, coins and totals live    *)
(* on, and markers, ids, creators, proxies and bindings do not.            *)
(***************************************************************************)
EXTENDS PolyApp

CONSTANT MaxLives \* bound

ASSUME MaxLivesAssumption == MaxLives \in Nat \ {0}

VARIABLES
    life,       \* the number of this one
    chainIdSet, \* ccm's parameter ChainIdInPolyNet has a value
    exported,   \* how the last export ended
    inherited,  \* history: the totals this life started with
    past        \* history: amounts that lockproxy sent and released before it

lifeVars == <<life, chainIdSet, exported, inherited, past>>
restartVars == <<lifeVars, appVars>>

NothingDone ==
    [sent |-> [d \in Denom |-> 0], released |-> [d \in Denom |-> 0]]

\* No InitGenesis sets the parameter in the first life either.
RestartInit ==
    /\ AppInit
    /\ life = 1
    /\ chainIdSet = FALSE
    /\ exported = "never"
    /\ inherited = GenesisSupply
    /\ past = NothingDone

-----------------------------------------------------------------------------
\* A parameter change voted by governance, the one way to set the chain id:
\* validateChainId refuses zero, here any id but the one Poly knows.
ChangeParams ==
    /\ ~ chainIdSet
    /\ chainIdSet' = TRUE
    /\ UNCHANGED <<life, exported, inherited, past, appVars>>

\* Reading a parameter that was never set panics: no message is executed.
Transaction ==
    /\ AppNext
    /\ executed' # executed => chainIdSet
    /\ UNCHANGED lifeVars

\* ccm's ExportGenesis reads the parameter, and panics likewise.
ExportPanics ==
    /\ ~ chainIdSet
    /\ exported' = "panic"
    /\ UNCHANGED <<life, chainIdSet, inherited, past, appVars>>

\* The stores of ccm and of the token modules are empty again.
StoresEmpty ==
    /\ crossChainId' = 0
    /\ crossChainTxs' = {} /\ doneTx' = <<>> /\ executed' = <<>> /\ unlockedBy' = <<>>
    /\ denomCreator' = [d \in Denom |-> NoAddr]
    /\ lockProxies' = {} /\ proxyHash' = <<>> /\ proxyAsset' = <<>> /\ lockedDenom' = <<>>
    /\ denomToCreator' = <<>> /\ redeemScript' = <<>> /\ btcxAsset' = <<>>
    /\ independent' = {} /\ ftAsset' = <<>>

\* The chain stops, its state is exported, and a new one starts from it.
ExportAndRestart ==
    /\ chainIdSet
    /\ life < MaxLives
    /\ life' = life + 1
    /\ chainIdSet' = FALSE
    /\ exported' = "ok"
    /\ inherited' = supply
    /\ past' = [sent |-> [d \in Denom |-> past.sent[d] + Sent(d)],
                released |-> [d \in Denom |-> past.released[d] + Released(d)]]
    /\ StoresEmpty
    /\ UNCHANGED bankVars

RestartNext ==
    \/ ChangeParams
    \/ Transaction
    \/ ExportPanics
    \/ ExportAndRestart

RestartSpec == RestartInit /\ [][RestartNext]_restartVars

-----------------------------------------------------------------------------
(* Properties *)

\* A denom that had coins when its life began is nobody's: its creator was not
\* exported, and ExistDenom, which counts coins, lets no one create it again in
\* any module, so btcx and ft can never bind it and its total stays what it was
\* (ccm keeper.go:101-119), even when messages executed before the export, whose
\* markers are gone, arrive again.
InheritedCoinsFrozen == \A d \in Denom : inherited[d] > 0 =>
    /\ denomCreator[d] = NoAddr
    /\ supply[d] = inherited[d]

\* What lockproxy holds covers what it sent in all lives and has not paid back
\* in any, a message executed in two lives counted twice: what was sent before
\* an export stays backed by coins after it, though no record of it is left
\* (lockproxy keeper.go:200-281, ccm genesis.go:30).
EscrowOutlivesRestart == \A d \in Denom :
    balance["lockproxy"][d] + past.released[d] + Released(d) >= past.sent[d] + Sent(d)

\* The creator of a denom, whom btcx and ft let bind it, never changes within a
\* life: none of the four ways of creating a denom in three modules takes one
\* that another has created, with or without coins (ccm keeper.go:101-119 and
\* its callers).
CreatorsPermanent == [][life' = life => CreatorsStay]_restartVars

\* The total of a denom changes in three ways only, whichever modules work on
\* it: all its coins are created at once with the denom, coins are minted on a
\* message of an asset its creator has bound, or burnt with a message sent.
SupplyExplained == [][Explained]_restartVars

\* The total of a denom that was made with coins, or inherited them, changes in
\* one case only: its creator has bound it in btcx, which mints and burns any
\* denom that ccm knows the creator of (btcx keeper.go:100).  ft refuses to bind
\* it (ft_crossed_indenpently.go:48-56), and no export opens another way.
FixedSupplyUnlessInBtcx == [][FixedUnlessBound]_restartVars

\* app_test.go:52 exports an app that was started with the default genesis and
\* expects no error; ccm's parameter has no value then.
ExportHasNoError == exported # "panic"
=============================================================================
