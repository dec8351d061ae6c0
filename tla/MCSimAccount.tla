---------------------------- MODULE MCSimAccount ----------------------------
(* Model-checking instances of SimAccount: the two outcomes of one market, *)
(* bought at one and paying two, with cash for two shares.                 *)
EXTENDS SimAccount, TLC

CONSTANTS yes, no, c1

Outcomes == {yes, no}
OneMarket == (yes :> c1) @@ (no :> c1)

(* The two outcomes differ in name only.                                   *)
Outcome == Permutations(Outcomes)

(* Bound: once a redeem request or a reset touches the account, two        *)
(* operations in all and one share.                                        *)
FewOperations ==
  \/ OwnAccount
  \/ /\ fills <= 2
     /\ \A s \in Slot : \E x \in Token :
          ledger[s].shares \in {NoShares, [NoShares EXCEPT ![x] = 1]}
=============================================================================
