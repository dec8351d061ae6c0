---------------------------- MODULE MCPerpTrader ----------------------------
(* Instances of PerpTrader for TLC. Requests differ in name only; the run  *)
(* with temporal properties uses no symmetry.                              *)
EXTENDS PerpTrader, TLC

CONSTANTS r1, r2

TwoRequests == {r1, r2}
Requests == Permutations(TwoRequests)
=============================================================================
