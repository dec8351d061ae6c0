--------------------------- MODULE MCOrderVolume ---------------------------
(* Model-checking instances of OrderVolume: two orders of small   *)
(* and different sizes under a cap that not all of them fit in.            *)
EXTENDS OrderVolume, TLC

CONSTANTS o1, o2

TwoOrders == {o1, o2}
TwoSizes == (o1 :> 2) @@ (o2 :> 3)
=============================================================================
