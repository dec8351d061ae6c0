----------------------------- MODULE MCChatTrade -----------------------------
(* A model-checking instance of ChatTrade.                                 *)
EXTENDS ChatTrade, TLC

CONSTANTS r1, r2, x1, x2

TwoThreads == {r1, r2}
TwoTraders == {x1, x2}
=============================================================================
