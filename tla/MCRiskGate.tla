----------------------------- MODULE MCRiskGate -----------------------------
(* Instances of RiskGate for TLC.                                          *)
EXTENDS RiskGate

Symmetry == Permutations(Market)
=============================================================================
