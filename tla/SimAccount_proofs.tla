-------------------------- MODULE SimAccount_proofs --------------------------
(***************************************************************************)
(* Proofs about SimAccount, for every set of tokens, prices, lots and      *)
(* initial balance.                                                        *)
(***************************************************************************)
EXTENDS SimAccount, TLAPS

LedgerType == [cash : Nat, shares : [Token -> Nat]]

(* Ledger operations keep a ledger solvent.                                *)
LEMMA BoughtType ==
  ASSUME NEW l \in LedgerType, NEW x \in Token, NEW n \in Lot, NEW p \in Price,
         CanAfford(l, n, p)
  PROVE  Bought(l, x, n, p) \in LedgerType /\ n * p \in Nat
<1>1. n \in Nat /\ p \in Nat /\ n * p \in Nat
  BY SimAssumption
<1>2. l.cash - n * p \in Nat
  BY <1>1 DEF CanAfford, LedgerType
<1>3. [l.shares EXCEPT ![x] = @ + n] \in [Token -> Nat]
  BY <1>1 DEF LedgerType
<1> QED
  BY <1>1, <1>2, <1>3 DEF Bought, LedgerType

LEMMA SoldType ==
  ASSUME NEW l \in LedgerType, NEW x \in Token, NEW n \in Lot, NEW p \in Price,
         Holds(l, x, n)
  PROVE  Sold(l, x, n, p) \in LedgerType /\ n * p \in Nat /\ n \in Nat
<1>1. n \in Nat /\ p \in Nat /\ n * p \in Nat
  BY SimAssumption
<1>2. l.cash + n * p \in Nat
  BY <1>1 DEF LedgerType
<1>3. [l.shares EXCEPT ![x] = @ - n] \in [Token -> Nat]
  BY <1>1 DEF LedgerType, Holds
<1> QED
  BY <1>1, <1>2, <1>3 DEF Sold, LedgerType

LEMMA RedeemedType ==
  ASSUME NEW l \in LedgerType, NEW x \in Token, NEW pay \in Nat
  PROVE  Redeemed(l, x, pay) \in LedgerType /\ l.shares[x] * pay \in Nat
<1>1. l.shares[x] \in Nat /\ l.shares[x] * pay \in Nat
  BY DEF LedgerType
<1>2. l.cash + l.shares[x] * pay \in Nat
  BY <1>1 DEF LedgerType
<1>3. [l.shares EXCEPT ![x] = 0] \in [Token -> Nat]
  BY DEF LedgerType
<1> QED
  BY <1>1, <1>2, <1>3 DEF Redeemed, LedgerType

LEMMA NoSharesType == NoShares \in [Token -> Nat] /\ NoShares \in [Token -> Int]
BY DEF NoShares

LEMMA NoFillType ==
  NoFill \in [token : Token \union {NoToken}, shares : Int, cash : Int]
BY DEF NoFill

(* An account row as saved, and as deleted.                                *)
LEMMA AccountType ==
  /\ \A c \in Nat : [exists |-> TRUE, cash |-> c] \in [exists : BOOLEAN, cash : Nat]
  /\ [exists |-> FALSE, cash |-> 0] \in [exists : BOOLEAN, cash : Nat]
OBVIOUS

(* Adding to one entry, or to none when the key is outside the domain.     *)
LEMMA AddedType ==
  ASSUME NEW f \in [Token -> Int], NEW k, NEW n \in Int
  PROVE  [f EXCEPT ![k] = @ + n] \in [Token -> Int]
<1>1. CASE k \in Token
  BY <1>1
<1>2. CASE k \notin Token
  BY <1>2
<1> QED
  BY <1>1, <1>2

LEMMA FreshType == Fresh \in LedgerType
BY SimAssumption DEF Fresh, NoShares, LedgerType

(* A group of variables that a step leaves alone keeps its type.           *)
LEMMA Frame ==
  ASSUME TypeOK
  PROVE  /\ UNCHANGED ledger => LedgerTypes'
         /\ UNCHANGED store => StoreTypes'
         /\ UNCHANGED <<runtime, pc, hold, todo>> => ControlTypes'
         /\ UNCHANGED found => FoundTypes'
         /\ UNCHANGED <<fill, seenShares, seenCash>> => ValueTypes'
         /\ UNCHANGED history => HistoryTypes'
         /\ UNCHANGED winner => MarketTypes'
<1> USE DEF TypeOK
<1>1. UNCHANGED ledger => LedgerTypes'
  BY DEF LedgerTypes
<1>2. UNCHANGED store => StoreTypes'
  BY DEF StoreTypes, store
<1>3. UNCHANGED <<runtime, pc, hold, todo>> => ControlTypes'
  BY DEF ControlTypes
<1>4. UNCHANGED <<fill, seenShares, seenCash>> => ValueTypes'
  BY DEF ValueTypes
<1>0. UNCHANGED found => FoundTypes'
  BY DEF FoundTypes
<1>5. UNCHANGED history => HistoryTypes'
  BY DEF HistoryTypes, history
<1>6. UNCHANGED winner => MarketTypes'
  BY DEF MarketTypes
<1> QED
  BY <1>0, <1>1, <1>2, <1>3, <1>4, <1>5, <1>6

(* A thread moves to another step and nothing else in its control changes. *)
LEMMA GotoType ==
  ASSUME TypeOK, NEW t, NEW s \in Step, Goto(t, s),
         UNCHANGED <<runtime, hold, todo>>
  PROVE  ControlTypes'
BY DEF TypeOK, ControlTypes, Goto

LEMMA RedeemableType ==
  ASSUME NEW l \in LedgerType
  PROVE  Redeemable(l) \in SUBSET Conditions
BY DEF Redeemable, Held, Conditions

(* A ledger operation of a thread, given that the ledger it yields and the *)
(* fill it records are well typed.                                         *)
LEMMA ApplyType ==
  ASSUME TypeOK, NEW t \in Thread, NEW l \in LedgerType, NEW x \in Token,
         NEW n \in Int, NEW usd \in Int, Apply(t, l, x, n, usd)
  PROVE  LedgerTypes' /\ StoreTypes' /\ ValueTypes'
         /\ (misstated' \subseteq Token => HistoryTypes')
         /\ (UNCHANGED todo => ControlTypes')
         /\ UNCHANGED <<runtime, hold, winner>>
<1> USE DEF Apply
<1>1. LedgerTypes'
  BY DEF TypeOK, LedgerTypes, LedgerType
<1>2. StoreTypes'
  BY Frame
<1>3. ValueTypes'
  BY DEF TypeOK, ValueTypes
<1>4. misstated' \subseteq Token => HistoryTypes'
  BY DEF TypeOK, HistoryTypes
<1>5. UNCHANGED todo => ControlTypes'
  BY GotoType DEF Step
<1> QED
  BY <1>1, <1>2, <1>3, <1>4, <1>5

LEMMA TypeInit == Init => TypeOK
<1> SUFFICES ASSUME Init
             PROVE  TypeOK
  OBVIOUS
<1> USE SimAssumption DEF Init, NoShares
<1>1. LedgerTypes
  BY FreshType DEF LedgerTypes, LedgerType
<1>2. StoreTypes /\ MarketTypes /\ HistoryTypes
  BY DEF StoreTypes, MarketTypes, HistoryTypes
<1>3. ControlTypes
  BY DEF ControlTypes, Step, Slot
<1>4. ValueTypes
  BY DEF ValueTypes, NoFill
<1>5. FoundTypes
  BY DEF FoundTypes, NotFound
<1> QED
  BY <1>1, <1>2, <1>3, <1>4, <1>5 DEF TypeOK

LEMMA HeldLedgerType ==
  ASSUME TypeOK, NEW t \in Thread
  PROVE  ledger[hold[t]] \in LedgerType
BY DEF TypeOK, LedgerTypes, ControlTypes, LedgerType

LEMMA OperationType ==
  ASSUME TypeOK, NEW t \in Thread, NEW x \in Token,
         \/ \E n \in Lot, p \in Price : Buy(t, x, n, p) \/ Sell(t, x, n, p)
         \/ RedeemPosition(t, x)
  PROVE  TypeOK'
<1> DEFINE l == ledger[hold[t]]
<1>0. l \in LedgerType
  BY HeldLedgerType
<1> HIDE DEF l
<1>1. ASSUME NEW n \in Lot, NEW p \in Price, Buy(t, x, n, p)
      PROVE  TypeOK'
  <2>1. Bought(l, x, n, p) \in LedgerType /\ -(n * p) \in Int /\ n \in Int
    BY <1>0, <1>1, BoughtType, SimAssumption DEF Buy, l
  <2>2. Apply(t, Bought(l, x, n, p), x, n, -(n * p)) /\ UNCHANGED <<todo, found, misstated>>
    BY <1>1 DEF Buy, l
  <2>3. misstated' \subseteq Token
    BY <2>2 DEF TypeOK, HistoryTypes
  <2> QED
    BY <2>1, <2>2, <2>3, ApplyType, Frame DEF TypeOK
<1>2. ASSUME NEW n \in Lot, NEW p \in Price, Sell(t, x, n, p)
      PROVE  TypeOK'
  <2>1. Sold(l, x, n, p) \in LedgerType /\ n * p \in Int /\ -n \in Int
    BY <1>0, <1>2, SoldType DEF Sell, l
  <2>2. Apply(t, Sold(l, x, n, p), x, -n, n * p) /\ UNCHANGED <<todo, found, misstated>>
    BY <1>2 DEF Sell, l
  <2>3. misstated' \subseteq Token
    BY <2>2 DEF TypeOK, HistoryTypes
  <2> QED
    BY <2>1, <2>2, <2>3, ApplyType, Frame DEF TypeOK
<1>3. CASE RedeemPosition(t, x)
  <2>1. found[t].pay \in Nat /\ -found[t].shares \in Int
    BY SimAssumption DEF TypeOK, FoundTypes
  <2>2. Redeemed(l, x, found[t].pay) \in LedgerType /\ l.shares[x] * found[t].pay \in Int
    BY <1>0, <2>1, RedeemedType
  <2>3. Apply(t, Redeemed(l, x, found[t].pay), x, -found[t].shares,
              l.shares[x] * found[t].pay)
        /\ UNCHANGED todo
    BY <1>3 DEF RedeemPosition, l
  <2>7. misstated' \subseteq Token
    BY <1>3 DEF RedeemPosition, TypeOK, HistoryTypes
  <2>4. LedgerTypes' /\ StoreTypes' /\ ControlTypes' /\ ValueTypes' /\ HistoryTypes'
        /\ UNCHANGED winner
    BY <2>1, <2>2, <2>3, <2>7, ApplyType
  <2>5. FoundTypes'
    BY <1>3 DEF RedeemPosition, NotFound, TypeOK, FoundTypes
  <2>6. MarketTypes'
    BY <1>3, <2>4 DEF RedeemPosition, TypeOK, MarketTypes
  <2> QED
    BY <2>4, <2>5, <2>6 DEF TypeOK
<1> QED
  BY <1>1, <1>2, <1>3

LEMMA RedeemType ==
  ASSUME TypeOK, NEW t \in Thread,
         (\E c \in Conditions : RedeemCondition(t, c)) \/ RedeemFails(t)
  PROVE  TypeOK'
<1>1. UNCHANGED <<ledger, store, runtime, winner, hold, fill, seenShares, seenCash,
                  history>>
  BY DEF RedeemCondition, RedeemFails
<1>2. FoundTypes' /\ ControlTypes'
  <2> USE DEF TypeOK, FoundTypes, ControlTypes, Goto, Step
  <2>1. CASE RedeemFails(t)
    BY <2>1 DEF RedeemFails, NotFound
  <2>2. ASSUME NEW c \in Conditions, RedeemCondition(t, c)
        PROVE  FoundTypes' /\ ControlTypes'
    <3>1. todo' \in [Thread -> SUBSET Conditions]
      BY <2>2 DEF RedeemCondition
    <3>2. ASSUME NEW x \in Held(ledger[hold[t]]), NEW pay \in Payouts(x),
                 found' = [found EXCEPT ![t] =
                             [token |-> x, shares |-> ledger[hold[t]].shares[x],
                              pay |-> pay]]
          PROVE  FoundTypes'
      <4>1. x \in Token /\ pay \in {0, Unit}
        BY DEF Held, Payouts
      <4>2. ledger[hold[t]].shares[x] \in Nat
        BY <4>1, HeldLedgerType DEF LedgerType
      <4> QED
        BY <3>2, <4>1, <4>2
    <3>3. FoundTypes'
      BY <2>2, <3>2 DEF RedeemCondition
    <3>4. pc' \in [Thread -> Step]
      BY <2>2 DEF RedeemCondition
    <3> QED
      BY <1>1, <3>1, <3>3, <3>4
  <2> QED
    BY <2>1, <2>2
<1> QED
  BY <1>1, <1>2, Frame DEF TypeOK

(* Steps that only move a thread and change what it holds, lists or has    *)
(* read.                                                                   *)
LEMMA ControlType ==
  ASSUME TypeOK, NEW t \in Thread,
         \/ BeginCycle \/ BeginSell \/ EndSell \/ ApiFindRedeemable
         \/ DecideRedeem(t) \/ EndCycle(t) \/ EndRedeem(t) \/ InitLedger(t)
         \/ LoadFails(t) \/ ResetFails \/ InstallTrader
  PROVE  TypeOK'
<1>1. UNCHANGED <<ledger, store, memo, history, winner>>
  BY DEF BeginCycle, BeginSell, EndSell, ApiFindRedeemable, DecideRedeem, EndCycle,
         EndRedeem, InitLedger, LoadFails, ResetFails, InstallTrader, locals, memo
<1>2. ControlTypes'
  <2> USE DEF TypeOK, ControlTypes, Goto, Step, locals
  <2>1. CASE BeginCycle
    <3>1. runtime \in Slot
      BY <2>1 DEF BeginCycle
    <3>2. Redeemable(ledger[runtime]) \in SUBSET Conditions
      BY <3>1, RedeemableType DEF LedgerTypes, LedgerType
    <3>3. todo' \in [Thread -> SUBSET Conditions]
      BY <2>1, <3>2 DEF BeginCycle, FindRedeemable
    <3>4. hold' \in [Thread -> Slot] /\ pc' \in [Thread -> Step] /\ UNCHANGED runtime
      BY <2>1, <3>1 DEF BeginCycle
    <3> QED
      BY <3>3, <3>4
  <2>2. CASE BeginSell
    BY <2>2 DEF BeginSell
  <2>3. CASE EndSell
    BY <2>3 DEF EndSell
  <2>4. CASE ApiFindRedeemable
    <3>1. Redeemable(ledger["api"]) \in SUBSET Conditions
      BY RedeemableType DEF LedgerTypes, LedgerType, Slot
    <3> QED
      BY <2>4, <3>1 DEF ApiFindRedeemable, FindRedeemable
  <2>5. CASE DecideRedeem(t)
    <3>1. Redeemable(ledger[hold[t]]) \in SUBSET Conditions
      BY RedeemableType, HeldLedgerType
    <3> QED
      BY <2>5, <3>1 DEF DecideRedeem, FindRedeemable
  <2>6. CASE EndCycle(t)
    BY <2>6 DEF EndCycle
  <2>7. CASE EndRedeem(t)
    BY <2>7 DEF EndRedeem
  <2>8. CASE InitLedger(t)
    BY <2>8 DEF InitLedger
  <2>9. CASE InstallTrader
    BY <2>9 DEF InstallTrader, Slot
  <2>10. CASE LoadFails(t)
    BY <2>10 DEF LoadFails
  <2>11. CASE ResetFails
    BY <2>11 DEF ResetFails, Thread, ThreadKind
  <2> QED
    BY <2>1, <2>2, <2>3, <2>4, <2>5, <2>6, <2>7, <2>8, <2>9, <2>10, <2>11
<1> QED
  BY <1>1, <1>2, Frame DEF TypeOK, memo

(* Recording a fill and saving a ledger.                                   *)
LEMMA SaveType ==
  ASSUME TypeOK, NEW t \in Thread,
         \/ RecordFill(t) \/ FillLost(t) \/ ReadPositions(t) \/ ReadCash(t)
         \/ SaveLedger(t)
  PROVE  TypeOK'
<1>1. UNCHANGED <<ledger, runtime, hold, todo, found, history, winner>>
  BY DEF RecordFill, FillLost, ReadPositions, ReadCash, SaveLedger
<1>2. ControlTypes'
  <2>1. PICK s \in Step : Goto(t, s)
    BY DEF RecordFill, FillLost, ReadPositions, ReadCash, SaveLedger, Step
  <2> QED
    BY <1>1, <2>1, GotoType
<1>3. StoreTypes' /\ ValueTypes'
  <2> USE DEF TypeOK, StoreTypes, ValueTypes
  <2>1. CASE RecordFill(t)
    <3>1. fill[t].cash \in Int /\ fill[t].shares \in Int
      OBVIOUS
    <3>2. fillCash' \in Int /\ fillShares' \in [Token -> Int]
      <4>1. fillCash' \in Int
        BY <2>1, <3>1 DEF RecordFill
      <4>2. fillShares' = [fillShares EXCEPT ![fill[t].token] = @ + fill[t].shares]
        BY <2>1 DEF RecordFill
      <4> QED
        BY <3>1, <4>1, <4>2, AddedType
    <3>3. fill' \in [Thread -> [token : Token \union {NoToken}, shares : Int, cash : Int]]
      BY <2>1 DEF RecordFill, NoFill
    <3> QED
      BY <2>1, <3>2, <3>3 DEF RecordFill
  <2>2. CASE ReadPositions(t)
    BY <2>2, HeldLedgerType DEF ReadPositions, LedgerType, store
  <2>3. CASE ReadCash(t)
    BY <2>3, HeldLedgerType DEF ReadCash, LedgerType, store
  <2>4. CASE SaveLedger(t)
    <3>1. ValueTypes'
      BY <2>4 DEF SaveLedger, NoShares
    <3>2. UNCHANGED <<fillCash, fillShares>>
      BY <2>4 DEF SaveLedger
    <3>3. account' \in [exists : BOOLEAN, cash : Nat] /\ positions' \in [Token -> Nat]
      <4>1. seenCash[t] \in Nat /\ seenShares[t] \in [Token -> Nat]
        OBVIOUS
      <4>2. CASE SaveSimState(seenCash[t], seenShares[t])
        BY <4>1, <4>2, AccountType DEF SaveSimState
      <4>3. CASE UNCHANGED <<account, positions>>
        BY <4>3
      <4> QED
        BY <2>4, <4>2, <4>3 DEF SaveLedger
    <3> QED
      BY <3>1, <3>2, <3>3
  <2>5. CASE FillLost(t)
    BY <2>5 DEF FillLost, NoFill, store
  <2> QED
    BY <2>1, <2>2, <2>3, <2>4, <2>5
<1> QED
  BY <1>1, <1>2, <1>3, Frame DEF TypeOK

(* Building a ledger from the store.                                       *)
LEMMA BuildType ==
  ASSUME TypeOK, NEW t \in Thread,
         BeginApiRedeem \/ CreateAccount(t) \/ LoadCash(t) \/ LoadPositions(t)
  PROVE  TypeOK'
<1>1. UNCHANGED <<runtime, memo, history, winner, todo>>
  BY DEF BeginApiRedeem, CreateAccount, LoadCash, LoadPositions, locals, memo
<1>2. ControlTypes'
  BY DEF BeginApiRedeem, CreateAccount, LoadCash, LoadPositions, TypeOK, ControlTypes,
         Goto, Step, Slot, locals
<1>3. LedgerTypes' /\ StoreTypes'
  <2> USE DEF TypeOK, StoreTypes, LedgerTypes, ControlTypes
  <2>1. CASE BeginApiRedeem
    BY <2>1, FreshType DEF BeginApiRedeem, LedgerType, store
  <2>2. CASE CreateAccount(t)
    <3>1. account' \in [exists : BOOLEAN, cash : Nat] /\ positions' \in [Token -> Nat]
      BY <2>2, SimAssumption, AccountType, NoSharesType DEF CreateAccount, SaveSimState
    <3> QED
      BY <2>2, <3>1 DEF CreateAccount
  <2>3. CASE LoadCash(t)
    BY <2>3 DEF LoadCash, store
  <2>4. CASE LoadPositions(t)
    BY <2>4 DEF LoadPositions, store
  <2> QED
    BY <2>1, <2>2, <2>3, <2>4
<1> QED
  BY <1>1, <1>2, <1>3, Frame DEF TypeOK, memo

LEMMA ResetType ==
  ASSUME TypeOK, ResetStep
  PROVE  TypeOK'
<1>1. CASE BeginReset \/ WipePositions \/ WipeAccount \/ SaveFresh
  <2>1. UNCHANGED <<ledger, runtime, hold, todo, memo, winner>>
    BY <1>1 DEF BeginReset, WipePositions, WipeAccount, SaveFresh, locals, memo
  <2>2. ControlTypes'
    <3>1. PICK s \in Step : Goto("reset", s)
      BY <1>1 DEF BeginReset, WipePositions, WipeAccount, SaveFresh, Step
    <3> QED
      BY <2>1, <3>1, GotoType
  <2>3. StoreTypes'
    <3> USE <1>1, NoSharesType DEF TypeOK, StoreTypes
    <3>1. positions' \in [Token -> Nat]
      BY DEF BeginReset, WipePositions, WipeAccount, SaveFresh, SaveSimState
    <3>2. fillCash' \in Int /\ fillShares' \in [Token -> Int]
      BY DEF BeginReset, WipePositions, WipeAccount, SaveFresh
    <3>3. account' \in [exists : BOOLEAN, cash : Nat]
      BY SimAssumption, AccountType
         DEF BeginReset, WipePositions, WipeAccount, SaveFresh, SaveSimState
    <3> QED
      BY <3>1, <3>2, <3>3
  <2>4. HistoryTypes'
    BY <1>1 DEF BeginReset, WipePositions, WipeAccount, SaveFresh, TypeOK, HistoryTypes,
                history
  <2> QED
    BY <2>1, <2>2, <2>3, <2>4, Frame DEF TypeOK, memo
<1>2. CASE RemoveTrader
  <2>1. ControlTypes'
    <3>1. pc' \in [Thread -> Step]
      BY <1>2 DEF RemoveTrader, TypeOK, ControlTypes, Thread, ThreadKind, Step
    <3>2. hold' \in [Thread -> Slot]
      BY <1>2 DEF RemoveTrader, TypeOK, ControlTypes, Thread, ThreadKind, Slot
    <3>3. todo' \in [Thread -> SUBSET Conditions]
      BY <1>2 DEF RemoveTrader, TypeOK, ControlTypes, Thread, ThreadKind
    <3> QED
      BY <1>2, <3>1, <3>2, <3>3 DEF RemoveTrader, ControlTypes
  <2>2. ValueTypes'
    <3>1. fill' \in [Thread -> [token : Token \union {NoToken}, shares : Int, cash : Int]]
      BY <1>2, NoFillType DEF RemoveTrader, TypeOK, ValueTypes, Thread, ThreadKind
    <3>2. seenShares' \in [Thread -> [Token -> Nat]]
      BY <1>2, NoSharesType DEF RemoveTrader, TypeOK, ValueTypes, Thread, ThreadKind
    <3>3. seenCash' \in [Thread -> Nat]
      BY <1>2 DEF RemoveTrader, TypeOK, ValueTypes, Thread, ThreadKind
    <3> QED
      BY <3>1, <3>2, <3>3 DEF ValueTypes
  <2>3. FoundTypes'
    BY <1>2 DEF RemoveTrader, TypeOK, FoundTypes, NotFound, Thread, ThreadKind
  <2> QED
    BY <1>2, <2>1, <2>2, <2>3, Frame DEF RemoveTrader, TypeOK
<1>3. CASE InstallTrader \/ ResetFails
  BY <1>3, ControlType DEF Thread
<1> QED
  BY <1>1, <1>2, <1>3 DEF ResetStep

LEMMA LoadableType ==
  ASSUME NEW a \in [exists : BOOLEAN, cash : Nat], NEW s \in [Token -> Nat]
  PROVE  Loadable(a, s) \subseteq LedgerType
<1> DEFINE whole == [cash |-> a.cash, shares |-> s]
<1>1. whole \in LedgerType /\ [whole EXCEPT !.shares = NoShares] \in LedgerType
  BY NoSharesType DEF LedgerType
<1>2. Loadable(a, s) \subseteq {whole, [whole EXCEPT !.shares = NoShares], Fresh}
  BY DEF Loadable
<1> QED
  BY <1>1, <1>2, FreshType

LEMMA EnvironmentType ==
  ASSUME TypeOK, (\E x \in Token : Resolve(x)) \/ Crash
  PROVE  TypeOK'
<1>1. CASE \E x \in Token : Resolve(x)
  <2>1. UNCHANGED <<ledger, store, runtime, pc, hold, todo, memo, history>>
    BY <1>1 DEF Resolve, locals, memo
  <2>2. MarketTypes'
    BY <1>1 DEF Resolve, TypeOK, MarketTypes
  <2> QED
    BY <2>1, <2>2, Frame DEF TypeOK, memo
<1>2. CASE Crash
  <2> USE SimAssumption DEF TypeOK
  <2>1. StoreTypes'
    <3>1. CASE UNCHANGED <<account, positions>>
      BY <1>2, <3>1 DEF Crash, StoreTypes
    <3>2. CASE SaveSimState(InitialBalance, NoShares)
      <4>1. account' = [exists |-> TRUE, cash |-> InitialBalance]
            /\ positions' = NoShares /\ UNCHANGED <<fillCash, fillShares>>
        BY <1>2, <3>2 DEF Crash, SaveSimState
      <4> QED
        BY <4>1, AccountType, NoSharesType DEF StoreTypes
    <3> QED
      BY <1>2, <3>1, <3>2 DEF Crash
  <2>2. LedgerTypes'
    <3>1. PICK l \in Loadable(account', positions') :
            ledger' = [s \in Slot |-> IF s = "run1" THEN l ELSE Fresh]
      BY <1>2 DEF Crash
    <3>2. Loadable(account', positions') \subseteq LedgerType
      BY <2>1, LoadableType DEF StoreTypes
    <3> QED
      BY <3>1, <3>2, FreshType DEF LedgerTypes, LedgerType
  <2>3. ControlTypes'
    BY <1>2 DEF Crash, ControlTypes, Slot, Step
  <2>4. ValueTypes'
    BY <1>2 DEF Crash, ValueTypes, NoFill, NoShares
  <2>5. HistoryTypes' /\ MarketTypes'
    BY <1>2 DEF Crash, HistoryTypes, MarketTypes
  <2>6. FoundTypes'
    BY <1>2 DEF Crash, FoundTypes, NotFound
  <2> QED
    BY <2>1, <2>2, <2>3, <2>4, <2>5, <2>6
<1> QED
  BY <1>1, <1>2

LEMMA TypeStep == TypeOK /\ [Next]_vars => TypeOK'
<1> SUFFICES ASSUME TypeOK, [Next]_vars
             PROVE  TypeOK'
  OBVIOUS
<1>1. CASE \E t \in Thread : TraderStep(t)
  BY <1>1, OperationType, RedeemType, ControlType, SaveType, BuildType DEF TraderStep
<1>2. CASE BeginCycle \/ BeginSell \/ EndSell \/ ApiFindRedeemable
  BY <1>2, ControlType DEF Thread
<1>3. CASE BeginApiRedeem
  BY <1>3, BuildType DEF Thread
<1>4. CASE ResetStep
  BY <1>4, ResetType
<1>5. CASE (\E x \in Token : Resolve(x)) \/ Crash
  BY <1>5, EnvironmentType
<1>6. CASE UNCHANGED vars
  BY <1>6, Frame DEF vars, locals, memo, TypeOK
<1> QED
  BY <1>1, <1>2, <1>3, <1>4, <1>5, <1>6 DEF Next

(* Neither a ledger in memory nor the account in the store ever owes cash  *)
(* or shares, whichever of the cycle, the manual sell, the redeem endpoint *)
(* and the reset run beside each other.                                    *)
THEOREM TypeCorrect == Spec => []TypeOK
<1>1. Init => TypeOK
  BY TypeInit
<1>2. TypeOK /\ [Next]_vars => TypeOK'
  BY TypeStep
<1> QED
  BY <1>1, <1>2, PTL DEF Spec

-----------------------------------------------------------------------------
(***************************************************************************)
(* The stored simulation account implements Account when only the cycle    *)
(* works on it, whenever the process dies.                                 *)
(*                                                                         *)
(* The store changes in one step, SaveLedger, and what that step writes    *)
(* was read in two others, after an operation made a step before them. The *)
(* invariant carries the operation across: until the save, the ledger is   *)
(* one operation ahead of the store.                                       *)
(***************************************************************************)

Stored == [cash |-> account.cash, shares |-> positions]

(* m is l after one operation.                                             *)
Traded(l, m) ==
  \/ \E x \in Token, n \in Lot, p \in Price :
       \/ CanAfford(l, n, p) /\ m = Bought(l, x, n, p)
       \/ Holds(l, x, n) /\ m = Sold(l, x, n, p)
  \/ \E x \in Token, pay \in {0, Unit} :
       l.shares[x] > 0 /\ m = Redeemed(l, x, pay)

CycleAlone ==
  /\ \A t \in Thread : t # "cycle" => pc[t] = "idle"
  /\ runtime = "run1" /\ hold["cycle"] = "run1" /\ account.exists

Settled == {"idle", "redeem", "payout", "exec"}
Unsaved == {"fill", "positions", "cash", "save"}

AtMostOneAhead ==
  /\ pc["cycle"] \in Settled \union Unsaved
  /\ pc["cycle"] \in Settled => ledger["run1"] = Stored
  /\ pc["cycle"] \in Unsaved => Traded(Stored, ledger["run1"])

ReadIsCurrent ==
  /\ pc["cycle"] \in {"cash", "save"} =>
       seenShares["cycle"] = ledger["run1"].shares
  /\ pc["cycle"] = "save" => seenCash["cycle"] = ledger["run1"].cash

IInv == TypeOK /\ CycleAlone /\ AtMostOneAhead /\ ReadIsCurrent

LEMMA StepsApart ==
  /\ "idle" \in Settled /\ "redeem" \in Settled /\ "payout" \in Settled
  /\ "exec" \in Settled
  /\ "fill" \in Unsaved /\ "positions" \in Unsaved
  /\ "cash" \in Unsaved /\ "save" \in Unsaved
  /\ Settled \intersect Unsaved = {}
BY DEF Settled, Unsaved

LEMMA InvInit == Init => IInv
<1> SUFFICES ASSUME Init
             PROVE  IInv
  OBVIOUS
<1>1. TypeOK
  BY TypeInit
<1>2. CycleAlone
  BY DEF Init, CycleAlone, Thread, ThreadKind
<1>3. pc["cycle"] = "idle"
  BY DEF Init, Thread, ThreadKind
<1>4. ledger["run1"] = Stored
  BY DEF Init, Stored, Fresh, Slot
<1>5. AtMostOneAhead /\ ReadIsCurrent
  BY <1>3, <1>4, StepsApart DEF AtMostOneAhead, ReadIsCurrent
<1> QED
  BY <1>1, <1>2, <1>5 DEF IInv

(* What can happen when the cycle is alone.                                *)
LEMMA AloneSteps ==
  ASSUME Threads \subseteq {"cycle"}, CycleAlone, Next
  PROVE  \/ BeginCycle \/ TraderStep("cycle")
         \/ (\E x \in Token : Resolve(x)) \/ Crash
<1>1. "sell" \notin Threads /\ "redeem" \notin Threads /\ "reset" \notin Threads
  OBVIOUS
<1>2. pc["sell"] = "idle" /\ pc["redeem"] = "idle" /\ pc["reset"] = "idle"
  BY DEF CycleAlone, Thread, ThreadKind
<1>3. ~BeginSell /\ ~EndSell /\ ~BeginApiRedeem /\ ~ApiFindRedeemable
  BY <1>1, <1>2 DEF BeginSell, EndSell, BeginApiRedeem, ApiFindRedeemable
<1>4. ~ResetStep
  BY <1>1, <1>2 DEF ResetStep, BeginReset, WipePositions, WipeAccount, SaveFresh,
                    ResetFails, RemoveTrader, InstallTrader
<1>5. ASSUME NEW t \in Thread, t # "cycle", TraderStep(t)
      PROVE  FALSE
  <2>1. pc[t] = "idle"
    BY <1>5 DEF CycleAlone
  <2> QED
    BY <1>5, <2>1 DEF TraderStep, Buy, Sell, DecideRedeem, EndCycle, EndRedeem,
                      RedeemCondition, RedeemPosition, RedeemFails, RecordFill,
                      FillLost, ReadPositions, ReadCash, SaveLedger,
                      InitLedger, CreateAccount, LoadCash, LoadPositions, LoadFails
<1> QED
  BY <1>3, <1>4, <1>5 DEF Next

(* An operation starts from a settled state and leaves the ledger one      *)
(* ahead.                                                                  *)
LEMMA OperationAhead ==
  ASSUME IInv, NEW l, NEW x, NEW n, NEW usd,
         pc["cycle"] \in Settled, Apply("cycle", l, x, n, usd),
         Traded(ledger["run1"], l)
  PROVE  CycleAlone' /\ AtMostOneAhead' /\ ReadIsCurrent'
<1> USE DEF IInv, TypeOK
<1>1. pc' = [pc EXCEPT !["cycle"] = "fill"] /\ pc["cycle"]' = "fill"
  BY DEF Apply, Goto, ControlTypes, Thread, ThreadKind
<1>2. CycleAlone'
  BY <1>1 DEF CycleAlone, Apply, store, ControlTypes
<1>3. ledger["run1"]' = l /\ UNCHANGED Stored
  BY DEF Apply, CycleAlone, LedgerTypes, Slot, Stored, store
<1>4. ledger["run1"] = Stored
  BY DEF AtMostOneAhead
<1>5. AtMostOneAhead'
  BY <1>1, <1>3, <1>4, StepsApart DEF AtMostOneAhead
<1> QED
  BY <1>1, <1>2, <1>5 DEF ReadIsCurrent

(* A step that moves the cycle within a phase keeps what the phase says.   *)
LEMMA SamePhase ==
  ASSUME IInv, NEW s \in Settled \union Unsaved,
         pc["cycle"] \in Settled <=> s \in Settled,
         Goto("cycle", s), UNCHANGED <<ledger, store>>
  PROVE  AtMostOneAhead' /\ pc["cycle"]' = s
<1>1. pc["cycle"]' = s
  BY DEF Goto, IInv, TypeOK, ControlTypes, Thread, ThreadKind
<1>2. UNCHANGED <<ledger["run1"], Stored>>
  BY DEF Stored, store
<1> QED
  BY <1>1, <1>2, StepsApart DEF IInv, AtMostOneAhead

LEMMA CycleStaysAlone ==
  ASSUME IInv, NEW s, Goto("cycle", s), UNCHANGED <<runtime, account.exists>>,
         hold["cycle"]' = "run1"
  PROVE  CycleAlone'
BY DEF IInv, CycleAlone, Goto, TypeOK, ControlTypes

LEMMA TradeAhead ==
  ASSUME IInv, NEW x \in Token,
         \/ \E n \in Lot, p \in Price :
              Buy("cycle", x, n, p) \/ Sell("cycle", x, n, p)
         \/ RedeemPosition("cycle", x)
  PROVE  CycleAlone' /\ AtMostOneAhead' /\ ReadIsCurrent'
<1>0. hold["cycle"] = "run1"
  BY DEF IInv, CycleAlone
<1>1. ASSUME NEW n \in Lot, NEW p \in Price, Buy("cycle", x, n, p)
      PROVE  CycleAlone' /\ AtMostOneAhead' /\ ReadIsCurrent'
  BY <1>0, <1>1, OperationAhead, StepsApart DEF Buy, Traded
<1>2. ASSUME NEW n \in Lot, NEW p \in Price, Sell("cycle", x, n, p)
      PROVE  CycleAlone' /\ AtMostOneAhead' /\ ReadIsCurrent'
  BY <1>0, <1>2, OperationAhead, StepsApart DEF Sell, Traded
<1>3. CASE RedeemPosition("cycle", x)
  <2> DEFINE l == ledger["run1"]
             pay == found["cycle"].pay
  <2>1. pc["cycle"] = "payout" /\ l.shares[x] > 0
        /\ Apply("cycle", Redeemed(l, x, pay), x, -found["cycle"].shares,
                 l.shares[x] * pay)
    BY <1>0, <1>3 DEF RedeemPosition, Held
  <2>2. pay \in {0, Unit}
    BY DEF IInv, TypeOK, FoundTypes, Thread, ThreadKind
  <2>3. Traded(l, Redeemed(l, x, pay))
    BY <2>1, <2>2 DEF Traded
  <2> HIDE DEF l, pay
  <2> QED
    BY <2>1, <2>3, OperationAhead, StepsApart DEF l
<1> QED
  BY <1>1, <1>2, <1>3

LEMMA MoveKeeps ==
  ASSUME IInv,
         \/ BeginCycle \/ DecideRedeem("cycle") \/ EndCycle("cycle")
         \/ EndRedeem("cycle") \/ (\E c \in Conditions : RedeemCondition("cycle", c))
         \/ RedeemFails("cycle") \/ RecordFill("cycle")
         \/ FillLost("cycle") \/ ReadPositions("cycle") \/ ReadCash("cycle")
  PROVE  CycleAlone' /\ AtMostOneAhead' /\ ReadIsCurrent'
<1> USE DEF IInv, TypeOK
<1>1. CASE BeginCycle \/ DecideRedeem("cycle") \/ EndCycle("cycle") \/ EndRedeem("cycle")
          \/ RedeemFails("cycle")
  <2>1. UNCHANGED <<ledger, store, runtime>> /\ hold["cycle"]' = "run1"
    BY <1>1 DEF BeginCycle, DecideRedeem, EndCycle, EndRedeem, RedeemFails, locals,
                CycleAlone,
                ControlTypes, Thread, ThreadKind
  <2>2. pc["cycle"] \in Settled
    BY <1>1, StepsApart DEF BeginCycle, DecideRedeem, EndCycle, EndRedeem, RedeemFails
  <2>3. PICK s \in Settled : Goto("cycle", s)
    BY <1>1, StepsApart DEF BeginCycle, DecideRedeem, EndCycle, EndRedeem, RedeemFails,
                            Cycle
  <2>4. AtMostOneAhead' /\ pc["cycle"]' = s
    BY <2>1, <2>2, <2>3, SamePhase
  <2>5. CycleAlone'
    BY <2>1, <2>3, CycleStaysAlone DEF store
  <2> QED
    BY <2>4, <2>5 DEF ReadIsCurrent, Settled
<1>5. ASSUME NEW c \in Conditions, RedeemCondition("cycle", c)
      PROVE  CycleAlone' /\ AtMostOneAhead' /\ ReadIsCurrent'
  <2>1. UNCHANGED <<ledger, store, runtime, hold, seenShares, seenCash>>
        /\ pc["cycle"] = "redeem"
    BY <1>5 DEF RedeemCondition
  <2>2. CASE Goto("cycle", "payout")
    <3>1. AtMostOneAhead' /\ pc["cycle"]' = "payout"
      BY <2>1, <2>2, SamePhase, StepsApart
    <3>2. CycleAlone'
      BY <2>1, <2>2, CycleStaysAlone DEF store, CycleAlone
    <3> QED
      BY <3>1, <3>2 DEF ReadIsCurrent
  <2>3. CASE UNCHANGED pc
    BY <2>1, <2>3 DEF CycleAlone, AtMostOneAhead, ReadIsCurrent, Stored, store
  <2> QED
    BY <1>5, <2>2, <2>3 DEF RedeemCondition
<1>2. CASE RecordFill("cycle")
  <2>1. CycleAlone'
    BY <1>2, CycleStaysAlone DEF RecordFill, CycleAlone
  <2>2. pc["cycle"]' = "positions"
    BY <1>2 DEF RecordFill, Goto, ControlTypes, Thread, ThreadKind
  <2>3. AtMostOneAhead'
    BY <1>2, <2>2, StepsApart DEF RecordFill, AtMostOneAhead, Stored
  <2> QED
    BY <2>1, <2>2, <2>3 DEF ReadIsCurrent
<1>3. CASE ReadPositions("cycle")
  <2>1. CycleAlone'
    BY <1>3, CycleStaysAlone DEF ReadPositions, CycleAlone, store
  <2>2. AtMostOneAhead' /\ pc["cycle"]' = "cash"
    BY <1>3, SamePhase, StepsApart DEF ReadPositions
  <2>3. seenShares["cycle"]' = ledger["run1"].shares /\ UNCHANGED ledger
    BY <1>3 DEF ReadPositions, CycleAlone, ValueTypes, Thread, ThreadKind
  <2> QED
    BY <2>1, <2>2, <2>3 DEF ReadIsCurrent
<1>4. CASE ReadCash("cycle")
  <2>1. CycleAlone'
    BY <1>4, CycleStaysAlone DEF ReadCash, CycleAlone, store
  <2>2. AtMostOneAhead' /\ pc["cycle"]' = "save"
    BY <1>4, SamePhase, StepsApart DEF ReadCash
  <2>3. seenCash["cycle"]' = ledger["run1"].cash /\ UNCHANGED <<ledger, seenShares>>
    BY <1>4 DEF ReadCash, CycleAlone, ValueTypes, Thread, ThreadKind
  <2>4. seenShares["cycle"] = ledger["run1"].shares
    BY <1>4 DEF ReadCash, ReadIsCurrent
  <2> QED
    BY <2>1, <2>2, <2>3, <2>4 DEF ReadIsCurrent
<1>6. CASE FillLost("cycle")
  <2>1. CycleAlone'
    BY <1>6, CycleStaysAlone DEF FillLost, CycleAlone, store
  <2>2. AtMostOneAhead' /\ pc["cycle"]' = "positions"
    BY <1>6, SamePhase, StepsApart DEF FillLost
  <2> QED
    BY <2>1, <2>2 DEF ReadIsCurrent
<1> QED
  BY <1>1, <1>2, <1>3, <1>4, <1>5, <1>6

(* The save writes what the ledger holds: it was read after the operation, *)
(* and nothing came between.                                               *)
LEMMA SaveSettles ==
  ASSUME Failures \subseteq {"fill"}, IInv, SaveLedger("cycle")
  PROVE  /\ CycleAlone' /\ AtMostOneAhead' /\ ReadIsCurrent'
         /\ Stored' = ledger["run1"] /\ Traded(Stored, ledger["run1"])
<1> USE DEF IInv, TypeOK
<1>1. pc["cycle"] = "save" /\ UNCHANGED <<ledger, runtime, hold>>
      /\ account' = [exists |-> TRUE, cash |-> seenCash["cycle"]]
      /\ positions' = seenShares["cycle"]
  BY DEF SaveLedger, SaveSimState
<1>2. Traded(Stored, ledger["run1"])
  BY <1>1, StepsApart DEF AtMostOneAhead
<1>3. Stored' = [cash |-> ledger["run1"].cash, shares |-> ledger["run1"].shares]
  BY <1>1 DEF Stored, ReadIsCurrent
<1>4. ledger["run1"] \in LedgerType
  BY DEF LedgerTypes, LedgerType, Slot
<1>5. Stored' = ledger["run1"]
  BY <1>3, <1>4 DEF LedgerType
<1>6. PICK s \in {"exec", "redeem"} : Goto("cycle", s)
  BY DEF SaveLedger
<1>7. pc["cycle"]' = s
  BY <1>6 DEF Goto, ControlTypes, Thread, ThreadKind
<1>8. CycleAlone'
  <2>1. account.exists' = account.exists
    BY <1>1 DEF CycleAlone, StoreTypes
  <2> QED
    BY <1>1, <1>6, <2>1, CycleStaysAlone DEF CycleAlone
<1>9. AtMostOneAhead' /\ ReadIsCurrent'
  BY <1>1, <1>5, <1>7, StepsApart DEF AtMostOneAhead, ReadIsCurrent
<1> QED
  BY <1>2, <1>5, <1>8, <1>9

(* A crash loses the operation the store does not have yet.                *)
LEMMA CrashSettles ==
  ASSUME Failures \subseteq {"fill"}, IInv, Crash
  PROVE  CycleAlone' /\ AtMostOneAhead' /\ ReadIsCurrent' /\ UNCHANGED Stored
<1> USE DEF IInv, TypeOK
<1>1. account.exists /\ UNCHANGED <<account, positions>>
  BY DEF CycleAlone, Crash
<1>2. ledger["run1"]' = Stored /\ UNCHANGED Stored
  <2>1. Loadable(account', positions') = {Stored}
    BY <1>1 DEF Loadable, Stored
  <2> QED
    BY <1>1, <2>1 DEF Crash, Stored, Slot
<1>3. pc' = [t \in Thread |-> "idle"] /\ hold["cycle"]' = "run1" /\ runtime' = "run1"
  BY DEF Crash, Thread, ThreadKind
<1>4. CycleAlone'
  BY <1>1, <1>3 DEF CycleAlone
<1>5. pc["cycle"]' = "idle"
  BY <1>3 DEF Thread, ThreadKind
<1> QED
  BY <1>2, <1>4, <1>5, StepsApart DEF AtMostOneAhead, ReadIsCurrent

(* Every step keeps the invariant, and what it does to the store is        *)
(* nothing, or one operation.                                              *)
LEMMA InvStep ==
  ASSUME Threads \subseteq {"cycle"}, Failures \subseteq {"fill"}, IInv, [Next]_vars
  PROVE  /\ IInv'
         /\ UNCHANGED Stored \/ Traded(Stored, Stored')
<1>1. TypeOK'
  BY TypeStep DEF IInv
<1>2. CASE UNCHANGED vars
  BY <1>1, <1>2
     DEF vars, store, locals, memo, IInv, CycleAlone,
         AtMostOneAhead, ReadIsCurrent, Stored
<1>3. CASE Next
  <2>1. \/ BeginCycle \/ TraderStep("cycle")
        \/ (\E x \in Token : Resolve(x)) \/ Crash
    BY <1>3, AloneSteps DEF IInv
  <2>2. ASSUME NEW x \in Token,
               \/ \E n \in Lot, p \in Price :
                    Buy("cycle", x, n, p) \/ Sell("cycle", x, n, p)
               \/ RedeemPosition("cycle", x)
        PROVE  IInv' /\ UNCHANGED Stored
    <3>1. UNCHANGED Stored
      BY <2>2 DEF Buy, Sell, RedeemPosition, Apply, store, Stored
    <3> QED
      BY <1>1, <2>2, <3>1, TradeAhead DEF IInv
  <2>3. CASE \/ BeginCycle \/ DecideRedeem("cycle") \/ EndCycle("cycle")
             \/ EndRedeem("cycle")
             \/ (\E c \in Conditions : RedeemCondition("cycle", c))
             \/ RedeemFails("cycle") \/ RecordFill("cycle")
             \/ FillLost("cycle") \/ ReadPositions("cycle") \/ ReadCash("cycle")
    <3>1. UNCHANGED Stored
      BY <2>3 DEF BeginCycle, DecideRedeem, EndCycle, EndRedeem, RedeemCondition,
                  RedeemFails, RecordFill, FillLost, ReadPositions, ReadCash, store, Stored
    <3> QED
      BY <1>1, <2>3, <3>1, MoveKeeps DEF IInv
  <2>4. CASE SaveLedger("cycle")
    BY <1>1, <2>4, SaveSettles DEF IInv
  <2>5. ~InitLedger("cycle") /\ ~CreateAccount("cycle")
        /\ ~LoadCash("cycle") /\ ~LoadPositions("cycle") /\ ~LoadFails("cycle")
    BY DEF InitLedger, CreateAccount, LoadCash, LoadPositions, LoadFails, Building
  <2>6. CASE \E x \in Token : Resolve(x)
    BY <1>1, <2>6
       DEF Resolve, store, locals, memo, IInv, CycleAlone,
           AtMostOneAhead, ReadIsCurrent, Stored
  <2>7. CASE Crash
    BY <1>1, <2>7, CrashSettles DEF IInv
  <2> QED
    BY <2>1, <2>2, <2>3, <2>4, <2>5, <2>6, <2>7 DEF TraderStep
<1> QED
  BY <1>2, <1>3

LEMMA InitImplemented == Init => Durable!Init
BY DEF Init, Durable!Init, NoShares, Durable!NoShares

(* One operation on what is stored is a step of Account.                   *)
LEMMA TradeImplemented ==
  ASSUME TypeOK, Traded(Stored, Stored')
  PROVE  Durable!Next
<1>1. account.cash' = Stored'.cash /\ positions' = Stored'.shares
      /\ Stored.cash = account.cash /\ Stored.shares = positions
  BY DEF Stored
<1>2. ASSUME NEW x \in Token, NEW n \in Lot, NEW p \in Price,
             CanAfford(Stored, n, p), Stored' = Bought(Stored, x, n, p)
      PROVE  Durable!Buy(x, n, p)
  BY <1>1, <1>2 DEF CanAfford, Bought, Durable!Buy
<1>3. ASSUME NEW x \in Token, NEW n \in Lot, NEW p \in Price,
             Holds(Stored, x, n), Stored' = Sold(Stored, x, n, p)
      PROVE  Durable!Sell(x, n, p)
  BY <1>1, <1>3 DEF Holds, Sold, Durable!Sell
<1>4. ASSUME NEW x \in Token, NEW pay \in {0, Unit},
             Stored.shares[x] > 0, Stored' = Redeemed(Stored, x, pay)
      PROVE  Durable!Redeem(x)
  <2>1. positions[x] \in Nat /\ account.cash \in Nat
    BY DEF TypeOK, StoreTypes
  <2>2. account.cash' = account.cash + positions[x] * pay
        /\ positions' = [positions EXCEPT ![x] = 0] /\ positions[x] > 0
    BY <1>1, <1>4 DEF Redeemed
  <2> QED
    BY <2>1, <2>2, SimAssumption DEF Durable!Redeem
<1> QED
  BY <1>2, <1>3, <1>4 DEF Traded, Durable!Next

(* With the cycle alone and loads and saves that do not fail, the stored   *)
(* account changes like one account: by whole operations, each once and in *)
(* the order they were made, also when the process dies between any two    *)
(* steps (saveLedger, SaveSimState, LoadLedgerFromStore).                  *)
THEOREM StoreImplementsAccount ==
  ASSUME Threads \subseteq {"cycle"}, Failures \subseteq {"fill"}
  PROVE  Spec => AccountImplemented
<1>1. Init => IInv
  BY InvInit
<1>2. IInv /\ [Next]_vars => IInv'
  BY InvStep
<1>3. Init => Durable!Init
  BY InitImplemented
<1>4. IInv /\ [Next]_vars => [Durable!Next]_<<account.cash, positions>>
  <2> SUFFICES ASSUME IInv, [Next]_vars
               PROVE  [Durable!Next]_<<account.cash, positions>>
    OBVIOUS
  <2>1. CASE UNCHANGED Stored
    BY <2>1 DEF Stored
  <2>2. CASE Traded(Stored, Stored')
    BY <2>2, TradeImplemented DEF IInv
  <2> QED
    BY <2>1, <2>2, InvStep
<1> QED
  BY <1>1, <1>2, <1>3, <1>4, PTL DEF Spec, AccountImplemented, Durable!Spec

(* With the cycle alone and loads and saves that do not fail, the store    *)
(* holds what the trader holds between operations, also after a restart.   *)
THEOREM StoredIsCurrentAlways ==
  ASSUME Threads \subseteq {"cycle"}, Failures \subseteq {"fill"}
  PROVE  Spec => []StoredIsCurrent
<1>1. Init => IInv
  BY InvInit
<1>2. IInv /\ [Next]_vars => IInv'
  BY InvStep
<1>3. IInv => StoredIsCurrent
  <2> SUFFICES ASSUME IInv, Idle
               PROVE  account.cash = ledger[runtime].cash
                      /\ positions = ledger[runtime].shares
    BY DEF StoredIsCurrent
  <2>1. pc["cycle"] = "idle"
    BY DEF Idle, Thread, ThreadKind
  <2>2. ledger["run1"] = Stored /\ runtime = "run1"
    BY <2>1, StepsApart DEF IInv, AtMostOneAhead, CycleAlone
  <2> QED
    BY <2>2 DEF Stored
<1> QED
  BY <1>1, <1>2, <1>3, PTL DEF Spec

-----------------------------------------------------------------------------
(* The ledger of the trader, with every thread. It is written by an        *)
(* operation or while it is built; what keeps the second apart is that a   *)
(* request builds on a slot of its own and a reset builds while there is   *)
(* no trader.                                                              *)

BuildStep == {"init", "create", "loadcash", "loadpositions", "built"}

BuildsApart ==
  /\ pc["redeem"] # "idle" => hold["redeem"] = "api"
  /\ pc["reset"] \in BuildStep => hold["reset"] = "run2" /\ runtime = "none"

LEMMA ApartInit == Init => BuildsApart
BY DEF Init, BuildsApart, BuildStep, Thread, ThreadKind

LEMMA ApartStep ==
  ASSUME TypeOK, BuildsApart, [Next]_vars
  PROVE  BuildsApart'
<1> USE DEF TypeOK, ControlTypes, Goto, BuildsApart
<1>0. "redeem" \in Thread /\ "reset" \in Thread
  BY DEF Thread, ThreadKind
<1>1. CASE UNCHANGED vars
  BY <1>1 DEF vars, locals, memo
<1>2. CASE BeginCycle \/ BeginSell \/ EndSell
  <2>1. UNCHANGED runtime /\ pc'["redeem"] = pc["redeem"] /\ pc'["reset"] = pc["reset"]
    BY <1>0, <1>2 DEF BeginCycle, BeginSell, EndSell
  <2>2. hold'["redeem"] = hold["redeem"] /\ hold'["reset"] = hold["reset"]
    BY <1>0, <1>2 DEF BeginCycle, BeginSell, EndSell, locals, memo
  <2> QED
    BY <2>1, <2>2
<1>3. CASE BeginApiRedeem \/ ApiFindRedeemable
  BY <1>0, <1>3 DEF BeginApiRedeem, ApiFindRedeemable
<1>4. ASSUME NEW t \in Thread, TraderStep(t)
      PROVE  BuildsApart'
  <2>1. UNCHANGED <<hold, runtime>>
    BY <1>4 DEF TraderStep, Buy, Sell, Apply, DecideRedeem, EndCycle, EndRedeem,
                RedeemCondition, RedeemPosition, RedeemFails, RecordFill,
                      FillLost, ReadPositions, ReadCash, SaveLedger,
                InitLedger, CreateAccount, LoadCash, LoadPositions, LoadFails, locals, memo
  <2>2. pc[t] # "idle"
    BY <1>4 DEF TraderStep, Buy, Sell, Apply, DecideRedeem, EndCycle, EndRedeem,
                RedeemCondition, RedeemPosition, RedeemFails, RecordFill,
                      FillLost, ReadPositions, ReadCash, SaveLedger,
                InitLedger, CreateAccount, LoadCash, LoadPositions, LoadFails
  <2>3. \A u \in Thread : u # t => pc'[u] = pc[u]
    BY <1>4 DEF TraderStep, Buy, Sell, Apply, DecideRedeem, EndCycle, EndRedeem,
                RedeemCondition, RedeemPosition, RedeemFails, RecordFill,
                      FillLost, ReadPositions, ReadCash, SaveLedger,
                InitLedger, CreateAccount, LoadCash, LoadPositions, LoadFails
  <2>4. pc'[t] \in BuildStep => pc[t] \in BuildStep
    BY <1>4 DEF TraderStep, Buy, Sell, Apply, DecideRedeem, EndCycle, EndRedeem,
                RedeemCondition, RedeemPosition, RedeemFails, RecordFill,
                      FillLost, ReadPositions, ReadCash, SaveLedger,
                InitLedger, CreateAccount, LoadCash, LoadPositions, LoadFails, BuildStep
  <2> QED
    BY <1>0, <2>1, <2>2, <2>3, <2>4
<1>5. CASE ResetStep
  <2>1. CASE BeginReset \/ WipePositions \/ WipeAccount \/ SaveFresh
    BY <1>0, <2>1 DEF BeginReset, WipePositions, WipeAccount, SaveFresh,
                          BuildStep, locals, memo
  <2>2. CASE RemoveTrader
    BY <1>0, <2>2 DEF RemoveTrader
  <2>3. CASE InstallTrader \/ ResetFails
    BY <1>0, <2>3 DEF InstallTrader, ResetFails, BuildStep, locals, memo
  <2> QED
    BY <1>5, <2>1, <2>2, <2>3 DEF ResetStep
<1>6. CASE \E x \in Token : Resolve(x)
  BY <1>6 DEF Resolve, locals, memo
<1>7. CASE Crash
  BY <1>0, <1>7 DEF Crash, BuildStep
<1> QED
  BY <1>1, <1>2, <1>3, <1>4, <1>5, <1>6, <1>7 DEF Next

(* A ledger a thread operates on is one operation ahead, whichever it is.  *)
LEMMA OperationTrades ==
  ASSUME TypeOK, NEW t \in Thread, NEW s \in Slot, NEW x \in Token,
         \/ \E n \in Lot, p \in Price : Buy(t, x, n, p) \/ Sell(t, x, n, p)
         \/ RedeemPosition(t, x)
  PROVE  UNCHANGED ledger[s] \/ Traded(ledger[s], ledger[s]')
<1>1. CASE hold[t] = s
  <2>1. ASSUME NEW l, NEW n, NEW usd, Apply(t, l, x, n, usd)
        PROVE  ledger[s]' = l
    BY <1>1, <2>1 DEF Apply, TypeOK, LedgerTypes
  <2>2. ASSUME NEW n \in Lot, NEW p \in Price, Buy(t, x, n, p) \/ Sell(t, x, n, p)
        PROVE  Traded(ledger[s], ledger[s]')
    BY <1>1, <2>1, <2>2 DEF Buy, Sell, Traded
  <2>3. CASE RedeemPosition(t, x)
    <3>1. found[t].pay \in {0, Unit}
      BY DEF TypeOK, FoundTypes
    <3>2. ledger[s].shares[x] > 0
          /\ ledger[s]' = Redeemed(ledger[s], x, found[t].pay)
      BY <1>1, <2>1, <2>3 DEF RedeemPosition, Held
    <3> QED
      BY <3>1, <3>2 DEF Traded
  <2> QED
    BY <2>2, <2>3
<1>2. CASE hold[t] # s
  BY <1>2 DEF Buy, Sell, RedeemPosition, Apply, TypeOK, LedgerTypes
<1> QED
  BY <1>1, <1>2

LEMMA TraderLedgerStep ==
  ASSUME TypeOK, BuildsApart, [Next]_vars, NEW s \in {"run1", "run2"},
         runtime = s, UNCHANGED crashes
  PROVE  UNCHANGED ledger[s] \/ Traded(ledger[s], ledger[s]')
<1> USE DEF TypeOK, LedgerTypes
<1>0. s \in Slot
  BY DEF Slot
<1>1. CASE UNCHANGED ledger
  BY <1>1
<1>2. ASSUME NEW t \in Thread, NEW x \in Token,
             \/ \E n \in Lot, p \in Price : Buy(t, x, n, p) \/ Sell(t, x, n, p)
             \/ RedeemPosition(t, x)
      PROVE  UNCHANGED ledger[s] \/ Traded(ledger[s], ledger[s]')
  BY <1>0, <1>2, OperationTrades
<1>3. CASE BeginApiRedeem
  BY <1>3 DEF BeginApiRedeem
<1>4. ASSUME NEW t \in Thread, LoadCash(t) \/ LoadPositions(t)
      PROVE  UNCHANGED ledger[s]
  <2>1. t \in {"redeem", "reset"} /\ pc[t] \in BuildStep /\ pc[t] # "idle"
    BY <1>4 DEF LoadCash, LoadPositions, Building, BuildStep
  <2>2. hold[t] # s
    BY <2>1 DEF BuildsApart
  <2> QED
    <3>1. CASE LoadPositions(t)
      BY <2>2, <3>1, <1>0 DEF LoadPositions
    <3>2. CASE LoadCash(t) /\ account.exists
      BY <2>2, <3>2, <1>0 DEF LoadCash
    <3>3. CASE LoadCash(t) /\ ~account.exists
      BY <3>3 DEF LoadCash
    <3> QED
      BY <1>4, <3>1, <3>2, <3>3
<1>5. ~Crash
  BY DEF Crash, HistoryTypes
<1>6. ASSUME ledger' # ledger
      PROVE  \/ BeginApiRedeem
             \/ \E t \in Thread :
                  \/ \E x \in Token :
                       \/ \E n \in Lot, p \in Price :
                            Buy(t, x, n, p) \/ Sell(t, x, n, p)
                       \/ RedeemPosition(t, x)
                  \/ LoadCash(t) \/ LoadPositions(t)
  BY <1>5, <1>6
     DEF Next, vars, BeginCycle, BeginSell, EndSell, ApiFindRedeemable, TraderStep,
         DecideRedeem, EndCycle, EndRedeem, RedeemCondition, RedeemFails, RecordFill,
         FillLost, ReadPositions, ReadCash, SaveLedger, InitLedger, CreateAccount, LoadFails,
         ResetStep, BeginReset, WipePositions, WipeAccount, SaveFresh, ResetFails,
         RemoveTrader, InstallTrader, Resolve
<1> QED
  BY <1>1, <1>2, <1>3, <1>4, <1>6

LEMMA Run1 ==
  ASSUME TypeOK, Traded(ledger["run1"], ledger["run1"]')
  PROVE  InRun1!Next
<1> DEFINE l == ledger["run1"]
<1>1. l \in LedgerType
  BY DEF TypeOK, LedgerTypes, LedgerType, Slot
<1>2. ASSUME NEW x \in Token, NEW n \in Lot, NEW p \in Price,
             CanAfford(l, n, p), l' = Bought(l, x, n, p)
      PROVE  InRun1!Buy(x, n, p)
  BY <1>2 DEF CanAfford, Bought, InRun1!Buy
<1>3. ASSUME NEW x \in Token, NEW n \in Lot, NEW p \in Price,
             Holds(l, x, n), l' = Sold(l, x, n, p)
      PROVE  InRun1!Sell(x, n, p)
  BY <1>3 DEF Holds, Sold, InRun1!Sell
<1>4. ASSUME NEW x \in Token, NEW pay \in {0, Unit},
             l.shares[x] > 0, l' = Redeemed(l, x, pay)
      PROVE  InRun1!Redeem(x)
  <2>1. l.shares[x] \in Nat /\ l.cash \in Nat
    BY <1>1 DEF LedgerType
  <2> QED
    BY <1>4, <2>1, SimAssumption DEF Redeemed, InRun1!Redeem
<1> QED
  BY <1>2, <1>3, <1>4 DEF Traded, InRun1!Next

LEMMA Run2 ==
  ASSUME TypeOK, Traded(ledger["run2"], ledger["run2"]')
  PROVE  InRun2!Next
<1> DEFINE l == ledger["run2"]
<1>1. l \in LedgerType
  BY DEF TypeOK, LedgerTypes, LedgerType, Slot
<1>2. ASSUME NEW x \in Token, NEW n \in Lot, NEW p \in Price,
             CanAfford(l, n, p), l' = Bought(l, x, n, p)
      PROVE  InRun2!Buy(x, n, p)
  BY <1>2 DEF CanAfford, Bought, InRun2!Buy
<1>3. ASSUME NEW x \in Token, NEW n \in Lot, NEW p \in Price,
             Holds(l, x, n), l' = Sold(l, x, n, p)
      PROVE  InRun2!Sell(x, n, p)
  BY <1>3 DEF Holds, Sold, InRun2!Sell
<1>4. ASSUME NEW x \in Token, NEW pay \in {0, Unit},
             l.shares[x] > 0, l' = Redeemed(l, x, pay)
      PROVE  InRun2!Redeem(x)
  <2>1. l.shares[x] \in Nat /\ l.cash \in Nat
    BY <1>1 DEF LedgerType
  <2> QED
    BY <1>4, <2>1, SimAssumption DEF Redeemed, InRun2!Redeem
<1> QED
  BY <1>2, <1>3, <1>4 DEF Traded, InRun2!Next

(* What the trader holds in memory changes by whole operations too, with   *)
(* every thread beside the cycle: ApplyBuy, ApplySell and RedeemPosition   *)
(* are one step each under Ledger.mu, and no ledger a thread can trade on  *)
(* is being built.                                                         *)
THEOREM LedgersTradeOnlyAlways == Spec => LedgersTradeOnly
<1>1. Init => TypeOK /\ BuildsApart
  BY TypeInit, ApartInit
<1>2. TypeOK /\ BuildsApart /\ [Next]_vars => (TypeOK /\ BuildsApart)'
  BY TypeStep, ApartStep
<1>3. TypeOK /\ BuildsApart /\ [Next]_vars
      => [crashes' = crashes /\ runtime' = runtime =>
            /\ runtime = "run1" => InRun1!Next \/ UNCHANGED ledger["run1"]
            /\ runtime = "run2" => InRun2!Next \/ UNCHANGED ledger["run2"]]_vars
  BY TraderLedgerStep, Run1, Run2
<1> QED
  BY <1>1, <1>2, <1>3, PTL DEF Spec, LedgersTradeOnly

-----------------------------------------------------------------------------
(* The fill rows and the ledger. A fill is missing from the rows only      *)
(* between the ledger operation and its insertion, and then the thread     *)
(* that made it has it.                                                    *)

Own == {"cycle", "sell"}

Pending(t, x) == IF fill[t].token = x THEN fill[t].shares ELSE 0

OthersAreIdle ==
  /\ runtime = "run1"
  /\ \A t \in Own : hold[t] = "run1"
  /\ \A t \in Thread \ Own : pc[t] = "idle"

FillsInHand ==
  \A t \in Own : IF pc[t] = "fill" THEN fill[t].token \in Token ELSE fill[t] = NoFill

CashRecorded ==
  ledger["run1"].cash
    = InitialBalance + fillCash + fill["cycle"].cash + fill["sell"].cash

SharesRecorded ==
  \A x \in Token \ misstated :
    ledger["run1"].shares[x]
      = fillShares[x] + Pending("cycle", x) + Pending("sell", x)

Accounted == OthersAreIdle /\ FillsInHand /\ CashRecorded /\ SharesRecorded

LEMMA AccountedInit == Init => Accounted
BY SimAssumption
   DEF Init, Accounted, OthersAreIdle, FillsInHand, CashRecorded, SharesRecorded, Pending,
       Own, Fresh, NoShares, NoFill, Thread, ThreadKind, Slot

(* The types the sums are made of.                                         *)
LEMMA SumTypes ==
  ASSUME TypeOK
  PROVE  /\ "cycle" \in Thread /\ "sell" \in Thread /\ "run1" \in Slot
         /\ fillCash \in Int /\ fillShares \in [Token -> Int]
         /\ ledger["run1"].cash \in Int
         /\ \A x \in Token : ledger["run1"].shares[x] \in Int
         /\ \A t \in Own : fill[t].cash \in Int /\ fill[t].shares \in Int
         /\ InitialBalance \in Int
BY SimAssumption
   DEF TypeOK, StoreTypes, LedgerTypes, ValueTypes, Own, Thread, ThreadKind, Slot

(* A ledger operation puts into the hands of its thread what it does to    *)
(* the ledger, but for the shares of a token it misstates.                 *)
LEMMA ApplyAccounted ==
  ASSUME TypeOK, Accounted, NEW t \in Own, pc[t] # "fill",
         NEW x \in Token, NEW n \in Int, NEW usd \in Int, NEW l \in LedgerType,
         Apply(t, l, x, n, usd),
         l.cash = ledger["run1"].cash + usd,
         \A y \in Token \ {x} : l.shares[y] = ledger["run1"].shares[y],
         misstated \subseteq misstated',
         x \notin misstated' => l.shares[x] = ledger["run1"].shares[x] + n
  PROVE  Accounted'
<1> USE SumTypes DEF Accounted, Own
<1>1. fill[t] = NoFill
  BY DEF FillsInHand
<1>2. fill'[t] = [token |-> x, shares |-> n, cash |-> usd]
      /\ (\A u \in Own \ {t} : fill'[u] = fill[u] /\ pc'[u] = pc[u])
      /\ pc'[t] = "fill"
  BY DEF Apply, Goto, TypeOK, ValueTypes, ControlTypes
<1>3. ledger'["run1"] = l /\ UNCHANGED <<runtime, hold, fillCash, fillShares>>
  BY DEF Apply, store, OthersAreIdle, TypeOK, LedgerTypes
<1>4. OthersAreIdle'
  <2>1. \A u \in Thread \ Own : pc'[u] = pc[u]
    BY DEF Apply, Goto, TypeOK, ControlTypes
  <2> QED
    BY <1>3, <2>1 DEF OthersAreIdle
<1>5. FillsInHand'
  BY <1>2 DEF FillsInHand
<1>6. CashRecorded'
  BY <1>1, <1>2, <1>3 DEF CashRecorded, NoFill
<1>7. SharesRecorded'
  <2> SUFFICES ASSUME NEW y \in Token, y \notin misstated'
               PROVE  l.shares[y] = fillShares[y] + Pending("cycle", y)'
                                                  + Pending("sell", y)'
    BY <1>3 DEF SharesRecorded
  <2>1. Pending(t, y) = 0
    BY <1>1, SimAssumption DEF Pending, NoFill
  <2>2. Pending(t, y)' = (IF x = y THEN n ELSE 0)
    BY <1>2 DEF Pending
  <2>3. \A u \in Own \ {t} : Pending(u, y)' = Pending(u, y) /\ Pending(u, y) \in Int
    BY <1>2 DEF Pending
  <2>4. ledger["run1"].shares[y] = fillShares[y] + Pending("cycle", y) + Pending("sell", y)
    BY DEF SharesRecorded
  <2>5. fillShares[y] \in Int /\ ledger["run1"].shares[y] \in Int
    OBVIOUS
  <2>6. l.shares[y] = ledger["run1"].shares[y] + (IF x = y THEN n ELSE 0)
    BY <2>5
  <2> HIDE DEF Own
  <2>7. CASE t = "cycle"
    <3>1. Pending("sell", y)' = Pending("sell", y) /\ Pending("sell", y) \in Int
      BY <2>3, <2>7 DEF Own
    <3> QED
      BY <2>1, <2>2, <2>4, <2>5, <2>6, <2>7, <3>1
  <2>8. CASE t = "sell"
    <3>1. Pending("cycle", y)' = Pending("cycle", y) /\ Pending("cycle", y) \in Int
      BY <2>3, <2>8 DEF Own
    <3> QED
      BY <2>1, <2>2, <2>4, <2>5, <2>6, <2>8, <3>1
  <2> QED
    BY <2>7, <2>8 DEF Own
<1> QED
  BY <1>4, <1>5, <1>6, <1>7

LEMMA OperationAccounted ==
  ASSUME TypeOK, Accounted, NEW t \in Own, NEW x \in Token,
         \/ \E n \in Lot, p \in Price : Buy(t, x, n, p) \/ Sell(t, x, n, p)
         \/ RedeemPosition(t, x)
  PROVE  Accounted'
<1> DEFINE l == ledger["run1"]
<1>0. ledger[hold[t]] = l /\ l \in LedgerType /\ t \in Thread
  BY DEF Accounted, OthersAreIdle, TypeOK, LedgerTypes, LedgerType, Slot, Own, Thread,
         ThreadKind
<1> HIDE DEF l
<1>1. ASSUME NEW n \in Lot, NEW p \in Price, Buy(t, x, n, p)
      PROVE  Accounted'
  <2>1. Bought(l, x, n, p) \in LedgerType /\ n * p \in Nat /\ n \in Nat
    BY <1>0, <1>1, BoughtType, SimAssumption DEF Buy
  <2>2. Apply(t, Bought(l, x, n, p), x, n, -(n * p)) /\ UNCHANGED misstated
        /\ pc[t] # "fill"
    BY <1>0, <1>1 DEF Buy
  <2>3. l.cash \in Nat /\ l.shares \in [Token -> Nat]
    BY <1>0 DEF LedgerType
  <2>4. Bought(l, x, n, p).cash = l.cash + -(n * p)
    BY <2>1, <2>3 DEF Bought
  <2>5. /\ \A y \in Token \ {x} : Bought(l, x, n, p).shares[y] = l.shares[y]
        /\ Bought(l, x, n, p).shares[x] = l.shares[x] + n
    BY <2>3 DEF Bought
  <2> QED
    BY <2>1, <2>2, <2>4, <2>5, ApplyAccounted DEF l
<1>2. ASSUME NEW n \in Lot, NEW p \in Price, Sell(t, x, n, p)
      PROVE  Accounted'
  <2>1. Sold(l, x, n, p) \in LedgerType /\ n * p \in Nat /\ n \in Nat
    BY <1>0, <1>2, SoldType DEF Sell
  <2>2. Apply(t, Sold(l, x, n, p), x, -n, n * p) /\ UNCHANGED misstated
        /\ pc[t] # "fill"
    BY <1>0, <1>2 DEF Sell
  <2>3. l.cash \in Nat /\ l.shares \in [Token -> Nat]
    BY <1>0 DEF LedgerType
  <2>4. Sold(l, x, n, p).cash = l.cash + n * p
    BY DEF Sold
  <2>5. /\ \A y \in Token \ {x} : Sold(l, x, n, p).shares[y] = l.shares[y]
        /\ Sold(l, x, n, p).shares[x] = l.shares[x] + -n
    BY <2>1, <2>3 DEF Sold
  <2> QED
    BY <2>1, <2>2, <2>4, <2>5, ApplyAccounted DEF l
<1>3. CASE RedeemPosition(t, x)
  <2>0. found[t].pay \in Nat /\ found[t].shares \in Nat
    BY <1>0, SimAssumption DEF TypeOK, FoundTypes
  <2> DEFINE pay == found[t].pay
             n == found[t].shares
  <2>1. Redeemed(l, x, pay) \in LedgerType /\ l.shares[x] * pay \in Nat
    BY <1>0, <2>0, RedeemedType
  <2>2. Apply(t, Redeemed(l, x, pay), x, -n, l.shares[x] * pay) /\ pc[t] # "fill"
    BY <1>0, <1>3 DEF RedeemPosition
  <2>3. l.cash \in Nat /\ l.shares \in [Token -> Nat]
    BY <1>0 DEF LedgerType
  <2>4. Redeemed(l, x, pay).cash = l.cash + l.shares[x] * pay
    BY DEF Redeemed
  <2>5. /\ \A y \in Token \ {x} : Redeemed(l, x, pay).shares[y] = l.shares[y]
        /\ Redeemed(l, x, pay).shares[x] = 0
    BY <2>3 DEF Redeemed
  <2>6. misstated' = (IF l.shares[x] = n THEN misstated ELSE misstated \union {x})
    BY <1>0, <1>3 DEF RedeemPosition
  <2>7. x \notin misstated' => Redeemed(l, x, pay).shares[x] = l.shares[x] + -n
    BY <2>0, <2>3, <2>5, <2>6
  <2>8. misstated \subseteq misstated' /\ -n \in Int
    BY <2>0, <2>6
  <2> HIDE DEF pay, n
  <2> QED
    BY <2>1, <2>2, <2>4, <2>5, <2>7, <2>8, ApplyAccounted DEF l
<1> QED
  BY <1>1, <1>2, <1>3

(* The row takes the fill out of the thread's hands.                       *)
LEMMA RecordAccounted ==
  ASSUME TypeOK, Accounted, NEW t \in Own, RecordFill(t)
  PROVE  Accounted'
<1> USE SumTypes DEF Accounted, Own
<1>1. fill'[t] = NoFill /\ pc'[t] = "positions"
      /\ (\A u \in Own \ {t} : fill'[u] = fill[u] /\ pc'[u] = pc[u])
  BY DEF RecordFill, Goto, TypeOK, ValueTypes, ControlTypes
<1>2. UNCHANGED <<ledger, runtime, hold, misstated>>
  BY DEF RecordFill, history
<1>3. fillCash' = fillCash + fill[t].cash
      /\ fillShares' = [fillShares EXCEPT ![fill[t].token] = @ + fill[t].shares]
  BY DEF RecordFill
<1>4. OthersAreIdle'
  <2>1. \A u \in Thread \ Own : pc'[u] = pc[u]
    BY DEF RecordFill, Goto, TypeOK, ControlTypes
  <2> QED
    BY <1>2, <2>1 DEF OthersAreIdle
<1>5. FillsInHand'
  BY <1>1 DEF FillsInHand
<1>6. CashRecorded'
  BY <1>1, <1>2, <1>3 DEF CashRecorded, NoFill
<1>7. SharesRecorded'
  <2> SUFFICES ASSUME NEW y \in Token, y \notin misstated'
               PROVE  ledger["run1"].shares[y]
                        = fillShares'[y] + Pending("cycle", y)' + Pending("sell", y)'
    BY <1>2 DEF SharesRecorded
  <2>1. Pending(t, y)' = 0
    BY <1>1, SimAssumption DEF Pending, NoFill
  <2>2. \A u \in Own : Pending(u, y) \in Int
    BY DEF Pending
  <2>3. \A u \in Own \ {t} : Pending(u, y)' = Pending(u, y)
    BY <1>1 DEF Pending
  <2>4. fillShares'[y] = fillShares[y] + Pending(t, y) /\ fillShares[y] \in Int
    <3>1. CASE fill[t].token = y
      BY <1>3, <3>1 DEF Pending
    <3>2. CASE fill[t].token # y
      BY <1>3, <3>2 DEF Pending
    <3> QED
      BY <3>1, <3>2
  <2>5. ledger["run1"].shares[y] = fillShares[y] + Pending("cycle", y) + Pending("sell", y)
    BY <1>2 DEF SharesRecorded
  <2> HIDE DEF Own
  <2>7. CASE t = "cycle"
    <3>1. Pending("sell", y)' = Pending("sell", y) /\ Pending("sell", y) \in Int
          /\ Pending("cycle", y) \in Int
      BY <2>2, <2>3, <2>7 DEF Own
    <3> QED
      BY <2>1, <2>4, <2>5, <2>7, <3>1
  <2>8. CASE t = "sell"
    <3>1. Pending("cycle", y)' = Pending("cycle", y) /\ Pending("cycle", y) \in Int
          /\ Pending("sell", y) \in Int
      BY <2>2, <2>3, <2>8 DEF Own
    <3> QED
      BY <2>1, <2>4, <2>5, <2>8, <3>1
  <2> QED
    BY <2>7, <2>8 DEF Own
<1> QED
  BY <1>4, <1>5, <1>6, <1>7

(* Steps that touch neither the ledger nor the rows nor a fill in hand.    *)
LEMMA QuietAccounted ==
  ASSUME TypeOK, Accounted, NEW t \in Own,
         UNCHANGED <<ledger, runtime, fillCash, fillShares, fill, misstated>>,
         \A u \in Own : hold'[u] = "run1",
         \A u \in Thread \ {t} : pc'[u] = pc[u],
         pc[t] # "fill" /\ pc'[t] # "fill"
  PROVE  Accounted'
<1>1. OthersAreIdle'
  BY DEF Accounted, OthersAreIdle
<1>2. FillsInHand'
  BY DEF Accounted, FillsInHand, Own, Thread, ThreadKind
<1>3. CashRecorded' /\ SharesRecorded'
  BY DEF Accounted, CashRecorded, SharesRecorded, Pending
<1> QED
  BY <1>1, <1>2, <1>3 DEF Accounted

(* While nothing else touches the account, the rows and what the threads   *)
(* have in hand explain the ledger. What does touch it, does so for good.  *)
LEMMA AccountedStep ==
  ASSUME "fill" \notin Failures, TypeOK, OwnAccount => Accounted, [Next]_vars,
         OwnAccount'
  PROVE  Accounted'
<1> USE DEF Own
<1>0. "cycle" \in Thread /\ "sell" \in Thread /\ "redeem" \in Thread /\ "reset" \in Thread
      /\ "old" \in Thread
  BY DEF Thread, ThreadKind
<1>1. CASE UNCHANGED vars
  <2>1. Accounted
    BY <1>1 DEF vars, locals, memo, history, OwnAccount
  <2> QED
    BY <1>1, <2>1 DEF vars, store, locals, memo, history, Accounted, OthersAreIdle,
                      FillsInHand, CashRecorded, SharesRecorded, Pending
<1>2. ~Crash /\ ~BeginReset /\ ~BeginApiRedeem
  BY <1>0 DEF Crash, BeginReset, BeginApiRedeem, OwnAccount, TypeOK, ControlTypes,
              HistoryTypes
<1>3. CASE Next
  <2>0. ASSUME NEW t \in Thread, TraderStep(t)
        PROVE  UNCHANGED <<crashes, resets, hold>>
    <3>1. CASE \/ \E x \in Token, n \in Lot, p \in Price : Buy(t, x, n, p) \/ Sell(t, x, n, p)
               \/ \E x \in Token : RedeemPosition(t, x)
      BY <3>1 DEF Buy, Sell, RedeemPosition, Apply
    <3>2. CASE \/ DecideRedeem(t) \/ EndCycle(t) \/ EndRedeem(t) \/ RedeemFails(t)
               \/ \E c \in Conditions : RedeemCondition(t, c)
      BY <3>2 DEF DecideRedeem, EndCycle, EndRedeem, RedeemFails, RedeemCondition,
                  locals, history
    <3>3. CASE \/ RecordFill(t) \/ FillLost(t) \/ ReadPositions(t) \/ ReadCash(t)
               \/ SaveLedger(t)
      BY <3>3 DEF RecordFill, FillLost, ReadPositions, ReadCash, SaveLedger, history
    <3>4. CASE \/ InitLedger(t) \/ CreateAccount(t) \/ LoadCash(t) \/ LoadPositions(t)
               \/ LoadFails(t)
      BY <3>4 DEF InitLedger, CreateAccount, LoadCash, LoadPositions, LoadFails, locals,
                  history
    <3> QED
      BY <2>0, <3>1, <3>2, <3>3, <3>4 DEF TraderStep
  <2>1. UNCHANGED <<crashes, resets>> /\ hold'["redeem"] = hold["redeem"]
    <3>1. CASE BeginCycle \/ BeginSell \/ EndSell \/ ApiFindRedeemable
      BY <1>0, <3>1 DEF BeginCycle, BeginSell, EndSell, ApiFindRedeemable, locals,
                        history, TypeOK, ControlTypes
    <3>2. CASE WipePositions \/ WipeAccount \/ SaveFresh \/ ResetFails \/ InstallTrader
      BY <3>2 DEF WipePositions, WipeAccount, SaveFresh, ResetFails, InstallTrader,
                  locals, history
    <3>3. CASE RemoveTrader
      BY <1>0, <3>3 DEF RemoveTrader, history, TypeOK, ControlTypes
    <3>4. CASE \E x \in Token : Resolve(x)
      BY <3>4 DEF Resolve, locals, history
    <3> QED
      BY <1>2, <1>3, <2>0, <3>1, <3>2, <3>3, <3>4 DEF Next, ResetStep
  <2>3. Accounted
    BY <2>1 DEF OwnAccount
  <2>4. \A t \in Thread \ Own : pc[t] = "idle"
    BY <2>3 DEF Accounted, OthersAreIdle
  <2>5. ~ApiFindRedeemable /\ ~ResetStep
    BY <1>0, <1>2, <2>4
       DEF ApiFindRedeemable, ResetStep, WipePositions, WipeAccount, SaveFresh,
           ResetFails, RemoveTrader, InstallTrader
  <2>6. ASSUME NEW t \in Thread, TraderStep(t)
        PROVE  t \in Own
    BY <2>4, <2>6
       DEF TraderStep, Buy, Sell, DecideRedeem, EndCycle, EndRedeem, RedeemCondition,
           RedeemPosition, RedeemFails, RecordFill, FillLost, ReadPositions, ReadCash,
           SaveLedger, InitLedger, CreateAccount, LoadCash, LoadPositions, LoadFails
  <2>7. CASE BeginCycle \/ BeginSell \/ EndSell
    <3>1. PICK t \in Own : /\ pc[t] # "fill" /\ pc'[t] # "fill"
                           /\ \A u \in Thread \ {t} : pc'[u] = pc[u]
      BY <1>0, <2>7 DEF BeginCycle, BeginSell, EndSell, Goto, TypeOK, ControlTypes
    <3>2. UNCHANGED <<ledger, runtime, fillCash, fillShares, fill, misstated>>
      BY <2>7 DEF BeginCycle, BeginSell, EndSell, store, locals, memo, history
    <3>3. \A u \in Own : hold'[u] = "run1"
      BY <1>0, <2>3, <2>7
         DEF BeginCycle, BeginSell, EndSell, locals, Accounted, OthersAreIdle, TypeOK,
             ControlTypes
    <3> QED
      BY <2>3, <3>1, <3>2, <3>3, QuietAccounted
  <2>8. ASSUME NEW t \in Own, TraderStep(t)
        PROVE  Accounted'
    <3>1. CASE \E x \in Token :
                 \/ \E n \in Lot, p \in Price : Buy(t, x, n, p) \/ Sell(t, x, n, p)
                 \/ RedeemPosition(t, x)
      BY <2>3, <3>1, OperationAccounted
    <3>2. CASE RecordFill(t)
      BY <2>3, <3>2, RecordAccounted
    <3>3. /\ ~InitLedger(t) /\ ~CreateAccount(t) /\ ~LoadCash(t) /\ ~LoadPositions(t)
          /\ ~LoadFails(t) /\ ~FillLost(t)
      BY DEF FillLost, InitLedger, CreateAccount, LoadCash, LoadPositions, LoadFails, Building
    <3>4. CASE \/ DecideRedeem(t) \/ EndCycle(t) \/ EndRedeem(t) \/ RedeemFails(t)
               \/ \E c \in Conditions : RedeemCondition(t, c)
               \/ ReadPositions(t) \/ ReadCash(t) \/ SaveLedger(t)
      <4> DEFINE Quiet == UNCHANGED <<ledger, runtime, fillCash, fillShares, fill, misstated, hold>>
                 Moves == /\ pc[t] # "fill" /\ pc'[t] # "fill"
                          /\ \A u \in Thread \ {t} : pc'[u] = pc[u]
      <4>1. Quiet
        BY <3>4 DEF DecideRedeem, EndCycle, EndRedeem, RedeemFails, RedeemCondition,
                    ReadPositions, ReadCash, SaveLedger, store, locals, memo, history
      <4>2. Moves
        BY <1>0, <3>4
           DEF DecideRedeem, EndCycle, EndRedeem, RedeemFails, RedeemCondition,
               ReadPositions, ReadCash, SaveLedger, Goto, TypeOK, ControlTypes
      <4>3. \A u \in Own : hold'[u] = "run1"
        BY <2>3, <4>1 DEF Accounted, OthersAreIdle
      <4> QED
        BY <2>3, <4>1, <4>2, <4>3, QuietAccounted
    <3> QED
      BY <2>8, <3>1, <3>2, <3>3, <3>4 DEF TraderStep
  <2>9. CASE \E x \in Token : Resolve(x)
    BY <2>3, <2>9
       DEF Resolve, store, locals, memo, history, Accounted, OthersAreIdle, FillsInHand,
           CashRecorded, SharesRecorded, Pending
  <2> QED
    BY <1>2, <1>3, <2>5, <2>6, <2>7, <2>8, <2>9 DEF Next
<1> QED
  BY <1>1, <1>3

(* When no insert of a fill row fails, the fill rows explain between       *)
(* operations the trader's cash and, but for a token that was being sold   *)
(* while it was redeemed, its shares, with a manual sell beside the cycle  *)
(* (SaveSimFill, saveLedger).                                              *)
THEOREM FillsExplainLedgerAlways ==
  ASSUME "fill" \notin Failures
  PROVE  Spec => []FillsExplainLedger
<1> DEFINE Inv == TypeOK /\ (OwnAccount => Accounted)
<1>1. Init => Inv
  BY TypeInit, AccountedInit
<1>2. Inv /\ [Next]_vars => Inv'
  <2> SUFFICES ASSUME Inv, [Next]_vars
               PROVE  Inv'
    OBVIOUS
  <2>1. OwnAccount' => Accounted'
    BY AccountedStep
  <2> QED
    BY <2>1, TypeStep
<1>3. Inv => FillsExplainLedger
  <2> SUFFICES ASSUME TypeOK, Accounted, Idle
               PROVE  /\ ledger[runtime].cash = InitialBalance + fillCash
                      /\ \A x \in Token \ misstated :
                           ledger[runtime].shares[x] = fillShares[x]
    BY DEF FillsExplainLedger
  <2>1. runtime = "run1" /\ \A t \in Own : fill[t] = NoFill
    BY DEF Accounted, OthersAreIdle, FillsInHand, Idle, Own, Thread, ThreadKind
  <2>2. ledger["run1"].cash = InitialBalance + fillCash
    BY <2>1, SumTypes DEF Accounted, CashRecorded, NoFill, Own
  <2>3. \A t \in Own, x \in Token : Pending(t, x) = 0
    BY <2>1, SimAssumption DEF Pending, NoFill
  <2>4. \A x \in Token \ misstated : ledger["run1"].shares[x] = fillShares[x]
    BY <2>3, SumTypes DEF Accounted, SharesRecorded, Own
  <2> QED
    BY <2>1, <2>2, <2>4
<1> HIDE DEF Inv
<1> QED
  BY <1>1, <1>2, <1>3, PTL DEF Spec
=============================================================================
