------------------------------ MODULE Account ------------------------------
(***************************************************************************)
(* What a simulation account promises: virtual cash and outcome shares     *)
(* that change by whole trades, by redeeming a whole holding, and by a     *)
(* reset, and by nothing else.                                             *)
(***************************************************************************)
EXTENDS Integers

CONSTANTS
  Token,            \* outcome tokens
  Price,            \* prices a trade may fill at
  Lot,              \* share counts a trade may fill
  Unit,             \* what a winning share pays
  InitialBalance    \* sim.Config.InitialBalanceUsd

VARIABLES cash, shares

NoShares == [x \in Token |-> 0]

Init == cash = InitialBalance /\ shares = NoShares

(* A buy pays for what it gets.                                            *)
Buy(x, n, p) ==
  /\ n * p <= cash
  /\ cash' = cash - n * p
  /\ shares' = [shares EXCEPT ![x] = @ + n]

(* A sell delivers what it holds.                                          *)
Sell(x, n, p) ==
  /\ n <= shares[x]
  /\ cash' = cash + n * p
  /\ shares' = [shares EXCEPT ![x] = @ - n]

(* A redemption takes a whole holding and pays all of it or nothing.       *)
Redeem(x) ==
  /\ shares[x] > 0
  /\ cash' \in {cash, cash + shares[x] * Unit}
  /\ shares' = [shares EXCEPT ![x] = 0]

Reset == cash' = InitialBalance /\ shares' = NoShares

Next ==
  \/ \E x \in Token, n \in Lot, p \in Price : Buy(x, n, p) \/ Sell(x, n, p)
  \/ \E x \in Token : Redeem(x)
  \/ Reset

Spec == Init /\ [][Next]_<<cash, shares>>
=============================================================================
