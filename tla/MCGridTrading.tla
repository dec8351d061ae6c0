--------------------------- MODULE MCGridTrading ---------------------------
(* Instances of GridTrading for TLC.                                       *)
EXTENDS GridTrading

AllFaults == EnvFault
=============================================================================
