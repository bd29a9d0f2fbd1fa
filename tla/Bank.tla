-------------------------------- MODULE Bank --------------------------------
(***************************************************************************)
(* External: what the bank, supply and auth modules of cosmos-sdk 0.39 do  *)
(* for the keepers under src/.  A holder is an account with a key or a     *)
(* module account.  An operation that the SDK refuses is not enabled.      *)
(***************************************************************************)
EXTENDS Integers, FiniteSetsExt

CONSTANTS
    Account,        \* addresses with a key
    Module,         \* module accounts
    Denom,          \* denominations
    GenesisBalance, \* coins of each holder in the genesis file
    GenesisSupply,  \* its total of each denom
    GenesisAccounts \* holders with an account in it

Holder == Account \cup Module

\* The coins of d that all holders have in b.
TotalOf(b, d) == SumFunction([h \in Holder |-> b[h][d]])

\* Addresses have 20 bytes.  InitGenesis of the supply module adds up the coins
\* of the accounts.
ASSUME BankAssumption ==
    /\ Account \cap Module = {}
    /\ IsFiniteSet(Holder)
    /\ GenesisBalance \in [Holder -> [Denom -> Nat]]
    /\ GenesisSupply \in [Denom -> Nat]
    /\ \A d \in Denom : GenesisSupply[d] = TotalOf(GenesisBalance, d)
    /\ GenesisAccounts \subseteq Holder

VARIABLES
    balance,  \* coins of each holder
    supply,   \* the supply module's total of each denom
    accounts  \* holders that auth has an account for

bankVars == <<balance, supply, accounts>>

BankInit ==
    /\ balance = GenesisBalance
    /\ supply = GenesisSupply
    /\ accounts = GenesisAccounts

Credited(b, h, d, n) == [b EXCEPT ![h][d] = @ + n]

Debited(b, h, d, n) == [b EXCEPT ![h][d] = @ - n]

\* SendCoins, also under its names between accounts and modules.
SendCoins(from, to, d, n) ==
    /\ balance[from][d] >= n
    /\ balance' = Credited(Debited(balance, from, d, n), to, d, n)
    /\ accounts' = accounts \cup {to}
    /\ UNCHANGED supply

\* A user's own transfer: not to a module account, and of a positive amount.
MsgSend(from, to, d, n) == n > 0 /\ to \notin Module /\ SendCoins(from, to, d, n)

\* The ante handler refuses a signer that has no account.
Signer == accounts \cap Account

\* AddCoins with Inflate, or the supply keeper's MintCoins.
MintCoins(to, d, n) ==
    /\ balance' = Credited(balance, to, d, n)
    /\ supply' = [supply EXCEPT ![d] = @ + n]
    /\ accounts' = accounts \cup {to}

\* SubtractCoins with Deflate, which panics when the total would be negative.
BurnCoins(from, d, n) ==
    /\ balance[from][d] >= n
    /\ supply[d] >= n
    /\ balance' = Debited(balance, from, d, n)
    /\ supply' = [supply EXCEPT ![d] = @ - n]
    /\ UNCHANGED accounts

\* AddCoins with Inflate for an amount of every denom at once.
MintAll(to, coins) ==
    /\ balance' = [balance EXCEPT ![to] = [d \in Denom |-> @[d] + coins[d]]]
    /\ supply' = [d \in Denom |-> supply[d] + coins[d]]
    /\ accounts' = accounts \cup {to}

BankTypeOK ==
    /\ balance \in [Holder -> [Denom -> Nat]]
    /\ supply \in [Denom -> Nat]
    /\ accounts \subseteq Holder

\* Every coin of the supply is in some holder's account and no other exists:
\* the keepers' two separate updates of accounts and total (ft keeper.go:99-134,
\* btcx keeper.go:237-270) never drift apart.
CoinsConserved == \A d \in Denom : supply[d] = TotalOf(balance, d)
=============================================================================
