--------------------------- MODULE MCPositionBooks ---------------------------
(* Model-checking instances of PositionBooks. Symbols differ in name only. *)
EXTENDS PositionBooks, TLC

CONSTANTS btc, eth, ticker

TwoSymbols == {btc, eth}
OneLoop == {ticker}
OneLot == {4}

Names == Permutations({btc, eth})
=============================================================================
