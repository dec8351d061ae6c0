-------------------------- MODULE MCTraderLifecycle --------------------------
(* A model-checking instance of TraderLifecycle.                           *)
EXTENDS TraderLifecycle, TLC

CONSTANTS r1, g1, g2

OneRequest == {r1}
TwoGoroutines == {g1, g2}
=============================================================================
