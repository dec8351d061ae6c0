------------------------- MODULE GridTrading_proofs -------------------------
(***************************************************************************)
(* What GridTrading keeps for any number of levels and orders and whatever *)
(* the exchange answers: types, that every open order is tracked or known  *)
(* to have strayed, and that the book knows every pending level. The last  *)
(* two are inductive next to the types: an order stays with its level      *)
(* until one step takes it from both or notes that it strayed.             *)
(***************************************************************************)
EXTENDS GridTrading, TLAPS

(* What a level holds when n orders were placed, and all levels of a grid  *)
(* of which none is pending.                                               *)
LevelType(n) ==
  [state : {"empty", "pending", "filled", "stopped"}, order : 0..n]
Settled(levels, n) ==
  levels \in [Level -> LevelType(n)] /\ \A i \in Level : levels[i].state # "pending"
PendingPlaced(levels) ==
  \A i \in Level : levels[i].state = "pending" => levels[i].order \in OrderId

(* An empty level is one, however many orders were placed.                 *)
LEMMA Empties ==
  ASSUME TypeOK
  PROVE  /\ EmptyLevel \in LevelType(placed) /\ EmptyLevel.state # "pending"
         /\ NoBook \in [OrderId -> Level \union {NoLevel}]
         /\ Settled(NoLevels, placed)
BY GridAssumption DEF EmptyLevel, NoLevels, NoBook, NoOrder, LevelType, Settled,
   TypeOK

(* What the exchange has open was placed.                                  *)
LEMMA OpenPlaced == ASSUME TypeOK PROVE open \subseteq OrderId
BY GridAssumption DEF TypeOK, OrderId

(* What cancelAllGridOrders leaves.                                        *)
LEMMA CancelAllTypes ==
  ASSUME TypeOK, NEW a \in CancelAnswer, CancelAll(a)
  PROVE  /\ open' \subseteq open /\ strayed' \subseteq OrderId
         /\ level' \in [Level -> LevelType(placed)] /\ PendingPlaced(level')
         /\ book' \in [OrderId -> Level \union {NoLevel}]
<1>1. a.left \subseteq open
  BY DEF CancelAnswer
<1> QED
  BY <1>1, Empties, OpenPlaced DEF CancelAll, TypeOK, LevelType, PendingPlaced

(* As it, with the new levels of a reset.                                  *)
LEMMA ResetTypes ==
  ASSUME TypeOK, NEW a \in CancelAnswer, NEW levels, CancelThenReset(a, levels)
  PROVE  /\ open' \subseteq open /\ strayed' \subseteq OrderId
         /\ level' = levels
         /\ book' \in [OrderId -> Level \union {NoLevel}]
<1>1. a.left \subseteq open
  BY DEF CancelAnswer
<1> QED
  BY <1>1, Empties, OpenPlaced DEF CancelThenReset, TypeOK

(* autoAdjustGrid moves filled levels only, so none is pending after it.   *)
LEMMA MovedSettled ==
  ASSUME TypeOK, NEW target \in [InState("filled") -> Level],
         NEW last \in [{target[i] : i \in InState("filled")} -> InState("filled")]
  PROVE  Settled(Moved(last), placed)
<1>1. \A j \in DOMAIN last : last[j] \in Level /\ level[last[j]].state = "filled"
  BY DEF InState
<1>2. \A j \in DOMAIN last : level[last[j]] \in LevelType(placed)
  BY <1>1 DEF TypeOK, LevelType
<1> QED
  BY <1>1, <1>2, Empties DEF Moved, Settled

(* Types hold at the start and after every step.                           *)
LEMMA InitTypes == Init => TypeOK
<1> SUFFICES ASSUME Init PROVE TypeOK
  OBVIOUS
<1>1. EmptyLevel \in [state : {"empty", "pending", "filled", "stopped"},
                      order : 0..placed]
  BY DEF Init, EmptyLevel, NoOrder
<1>2. \A i \in Level : level[i].state # "pending"
  BY DEF Init, NoLevels, EmptyLevel
<1>3. level \in [Level -> [state : {"empty", "pending", "filled", "stopped"},
                           order : 0..placed]]
  BY <1>1 DEF Init, NoLevels
<1>4. placed \in 0..MaxOrders /\ open \subseteq 1..placed
  BY GridAssumption DEF Init
<1> QED
  BY <1>2, <1>3, <1>4 DEF Init, TypeOK, NoBook

LEMMA NextTypes == TypeOK /\ [Next]_vars => TypeOK'
<1> SUFFICES ASSUME TypeOK, [Next]_vars PROVE TypeOK'
  OBVIOUS
<1>p. placed \in Nat /\ MaxOrders \in Nat
  BY GridAssumption DEF TypeOK
<1>o. open \subseteq OrderId
  BY OpenPlaced
<1>l. level \in [Level -> LevelType(placed)] /\ PendingPlaced(level)
  BY DEF TypeOK, LevelType, PendingPlaced
<1>1. CASE \E o \in OrderId : Fill(o) \/ Expire(o)
  BY <1>1 DEF Fill, Expire, TypeOK, grid
<1>2. CASE Restart
  BY <1>2, <1>o, Empties DEF Restart, TypeOK, Settled, LevelType
<1>3. CASE Breakout \/ Drawdown \/ BoxCancels \/ CancelDecision
  <2>1. PICK a \in CancelAnswer : CancelAll(a)
    BY <1>3 DEF Breakout, Drawdown, BoxCancels, CancelDecision
  <2>2. placed' = placed /\ active' = active /\ paused' \in BOOLEAN
    BY <1>3 DEF Breakout, Drawdown, BoxCancels, CancelDecision, TypeOK
  <2>3. pc' = pc \/ pc' = "exit" \/ pc' = "recover"
    BY <1>3 DEF Breakout, Drawdown, BoxCancels, CancelDecision
  <2> QED
    BY <2>1, <2>2, <2>3, CancelAllTypes DEF TypeOK, LevelType, PendingPlaced
<1>4. CASE EndExit \/ DailyLoss \/ Box \/ Recover \/ EndDecisions \/ Resume
             \/ CheckSkew
  BY <1>4 DEF EndExit, DailyLoss, Box, Recover, EndDecisions, Resume, CheckSkew,
     AfterDecisions, TypeOK, grid
<1>5. CASE PlaceOrder
  <2>1. placed + 1 \in OrderId /\ placed' = placed + 1 /\ placed' \in 0..MaxOrders
    BY <1>5, <1>p DEF PlaceOrder, OrderId
  <2>2. LevelType(placed) \subseteq LevelType(placed')
    BY <1>p, <2>1 DEF LevelType
  <2>3. open' \subseteq 1..placed'
    BY <1>5, <1>p, <2>1 DEF PlaceOrder, TypeOK
  <2>4. PICK i \in Level \union (IF "bad_index" \in Env THEN {GridCount} ELSE {}),
             answered \in Answers("lost_reply") :
          /\ strayed' = strayed \union
               (IF answered THEN Displaced(i) ELSE {placed + 1})
          /\ IF answered /\ KnownIndex(i)
             THEN /\ level' = [level EXCEPT ![i] =
                       [state |-> "pending", order |-> placed + 1]]
                  /\ book' = [book EXCEPT ![placed + 1] = i]
             ELSE UNCHANGED <<level, book>>
    BY <1>5 DEF PlaceOrder
  <2>5. strayed' \subseteq OrderId
    BY <2>1, <2>4, <1>o DEF Displaced, TypeOK
  <2>6. [state |-> "pending", order |-> placed + 1] \in LevelType(placed')
    BY <1>p, <2>1 DEF LevelType
  <2>7. level' \in [Level -> LevelType(placed')] /\ PendingPlaced(level')
    BY <1>l, <2>1, <2>2, <2>4, <2>6 DEF KnownIndex, PendingPlaced
  <2>8. book' \in [OrderId -> Level \union {NoLevel}]
    BY <2>1, <2>4 DEF TypeOK, KnownIndex
  <2> QED
    BY <1>5, <2>1, <2>3, <2>5, <2>7, <2>8
       DEF PlaceOrder, TypeOK, LevelType, PendingPlaced
<1>6. CASE CancelOne
  <2>1. PICK o \in open, cancelled \in Answers("silent_cancel") :
          /\ open' = IF cancelled THEN open \ {o} ELSE open
          /\ IF book[o] = NoLevel THEN UNCHANGED <<level, book, strayed>>
             ELSE /\ level' = [level EXCEPT ![book[o]] = EmptyLevel]
                  /\ book' = [book EXCEPT ![o] = NoLevel]
                  /\ strayed' = strayed \union
                       (({o} \union {level[book[o]].order}) \intersect open')
    BY <1>6 DEF CancelOne
  <2>2. open' \subseteq open /\ strayed' \subseteq OrderId
    BY <2>1, <1>o DEF TypeOK
  <2>3. level' \in [Level -> LevelType(placed)] /\ PendingPlaced(level')
    BY <2>1, <1>l, Empties DEF PendingPlaced
  <2>4. book' \in [OrderId -> Level \union {NoLevel}]
    BY <2>1 DEF TypeOK
  <2> QED
    BY <1>6, <2>2, <2>3, <2>4 DEF CancelOne, TypeOK, LevelType, PendingPlaced
<1>7. CASE Adjust \/ AutoAdjust
  <2>1. PICK a \in CancelAnswer :
          \E levels : CancelThenReset(a, levels) /\ Settled(levels, placed)
    BY <1>7, Empties, MovedSettled DEF Adjust, AutoAdjust
  <2>2. placed' = placed /\ active' = active /\ paused' = paused
    BY <1>7 DEF Adjust, AutoAdjust
  <2>3. pc' = pc \/ pc' = "idle"
    BY <1>7 DEF Adjust, AutoAdjust
  <2> QED
    BY <2>1, <2>2, <2>3, ResetTypes DEF TypeOK, Settled, LevelType
<1>8. CASE AskOrders
  BY <1>8, <1>o DEF AskOrders, TypeOK, grid
<1>9. CASE Judge
  <2>1. PICK filled \in BOOLEAN :
          /\ level' = [i \in Level |->
               IF ~Vanished(i) THEN level[i]
               ELSE IF filled THEN [level[i] EXCEPT !.state = "filled"]
               ELSE EmptyLevel]
          /\ book' = [o \in OrderId |->
               IF filled /\ \E i \in Level : Vanished(i) /\ level[i].order = o
               THEN NoLevel ELSE book[o]]
    BY <1>9 DEF Judge
  <2>2. \A i \in Level : /\ [level[i] EXCEPT !.state = "filled"] \in LevelType(placed)
                         /\ [level[i] EXCEPT !.state = "filled"].state # "pending"
    BY <1>l DEF LevelType
  <2>3. level' \in [Level -> LevelType(placed)] /\ PendingPlaced(level')
    BY <2>1, <2>2, <1>l, Empties DEF PendingPlaced
  <2>4. book' \in [OrderId -> Level \union {NoLevel}]
    BY <2>1 DEF TypeOK
  <2>5. strayed' \subseteq OrderId
    BY <1>9, <1>o DEF Judge, TypeOK
  <2> QED
    BY <1>9, <2>3, <2>4, <2>5 DEF Judge, TypeOK, LevelType, PendingPlaced
<1>10. CASE StopLoss
  <2>1. PICK i \in Level : level' = [level EXCEPT ![i].state = "stopped"]
    BY <1>10 DEF StopLoss, InState
  <2>2. level' \in [Level -> LevelType(placed)] /\ PendingPlaced(level')
    BY <2>1, <1>l DEF LevelType, PendingPlaced
  <2> QED
    BY <1>10, <2>2 DEF StopLoss, TypeOK, LevelType, PendingPlaced
<1>11. CASE UNCHANGED vars
  BY <1>11 DEF vars, grid, TypeOK
<1> QED
  BY <1>1, <1>2, <1>3, <1>4, <1>5, <1>6, <1>7, <1>8, <1>9, <1>10, <1>11
     DEF Next, Cycle, Check, Decision, Sync

(* Type correctness, for any grid and whatever fails: no level is          *)
(* addressed that does not exist, and no level waits for an order that was *)
(* never placed.                                                           *)
THEOREM TypeCorrect == Spec => []TypeOK
<1>1. Init => TypeOK
  BY InitTypes
<1>2. TypeOK /\ [Next]_vars => TypeOK'
  BY NextTypes
<1> QED
  BY <1>1, <1>2, PTL DEF Spec

(* An order stays known by its level, or strays, under every step that    *)
(* cancels all orders: the levels lose what is still open only when they   *)
(* are reset, and then it is noted.                                        *)
LEMMA CancelAllTracks ==
  ASSUME TypeOK, OpenOrdersTracked, NEW a \in CancelAnswer, CancelAll(a)
  PROVE  OpenOrdersTracked'
<1>1. a.left \subseteq open
  BY DEF CancelAnswer
<1> QED
  BY <1>1 DEF CancelAll, OpenOrdersTracked

LEMMA ResetTracks ==
  ASSUME NEW a \in CancelAnswer, NEW levels, CancelThenReset(a, levels)
  PROVE  OpenOrdersTracked'
BY DEF CancelThenReset, OpenOrdersTracked

LEMMA NextTracks == TypeOK /\ OpenOrdersTracked /\ [Next]_vars => OpenOrdersTracked'
<1> SUFFICES ASSUME TypeOK, OpenOrdersTracked, [Next]_vars
             PROVE  OpenOrdersTracked'
  OBVIOUS
<1>1. CASE \E o \in OrderId : Fill(o) \/ Expire(o)
  BY <1>1 DEF Fill, Expire, OpenOrdersTracked, grid
<1>2. CASE Restart
  BY <1>2 DEF Restart, OpenOrdersTracked
<1>3. CASE Breakout \/ Drawdown \/ BoxCancels \/ CancelDecision
  BY <1>3, CancelAllTracks DEF Breakout, Drawdown, BoxCancels, CancelDecision
<1>4. CASE EndExit \/ DailyLoss \/ Box \/ Recover \/ EndDecisions \/ Resume
             \/ AskOrders \/ CheckSkew
  BY <1>4 DEF EndExit, DailyLoss, Box, Recover, EndDecisions, Resume, AskOrders,
     CheckSkew, OpenOrdersTracked, grid
<1>5. CASE PlaceOrder
  <2>1. PICK i \in Level \union (IF "bad_index" \in Env THEN {GridCount} ELSE {}),
             answered \in Answers("lost_reply") :
          /\ strayed' = strayed \union
               (IF answered THEN Displaced(i) ELSE {placed + 1})
          /\ IF answered /\ KnownIndex(i)
             THEN /\ level' = [level EXCEPT ![i] =
                       [state |-> "pending", order |-> placed + 1]]
                  /\ book' = [book EXCEPT ![placed + 1] = i]
             ELSE UNCHANGED <<level, book>>
    BY <1>5 DEF PlaceOrder
  <2>2. open' = open \union {placed + 1}
    BY <1>5 DEF PlaceOrder
  <2>3. CASE answered /\ KnownIndex(i)
    <3>1. /\ level'[i] = [state |-> "pending", order |-> placed + 1]
          /\ \A j \in Level \ {i} : level'[j] = level[j]
          /\ i \in Level
      BY <2>1, <2>3 DEF KnownIndex, TypeOK
    <3>2. level[i].order \in open => level[i].order \in strayed'
      BY <2>1, <2>3, <3>1 DEF Displaced
    <3>3. strayed \subseteq strayed'
      BY <2>1
    <3> QED
      BY <2>2, <3>1, <3>2, <3>3 DEF OpenOrdersTracked
  <2>4. CASE ~(answered /\ KnownIndex(i))
    <3>1. placed + 1 \in strayed' /\ strayed \subseteq strayed' /\ level' = level
      BY <2>1, <2>4 DEF Displaced, KnownIndex
    <3> QED
      BY <2>2, <3>1 DEF OpenOrdersTracked
  <2> QED
    BY <2>3, <2>4
<1>6. CASE CancelOne
  <2>1. PICK o \in open, cancelled \in Answers("silent_cancel") :
          /\ open' = IF cancelled THEN open \ {o} ELSE open
          /\ IF book[o] = NoLevel THEN UNCHANGED <<level, book, strayed>>
             ELSE /\ level' = [level EXCEPT ![book[o]] = EmptyLevel]
                  /\ book' = [book EXCEPT ![o] = NoLevel]
                  /\ strayed' = strayed \union
                       (({o} \union {level[book[o]].order}) \intersect open')
    BY <1>6 DEF CancelOne
  <2>2. open' \subseteq open
    BY <2>1
  <2>3. CASE book[o] = NoLevel
    BY <2>1, <2>2, <2>3 DEF OpenOrdersTracked
  <2>4. CASE book[o] # NoLevel
    <3>1. \A j \in Level \ {book[o]} : level'[j] = level[j]
      BY <2>1, <2>4 DEF TypeOK
    <3>2. level[book[o]].order \in open' => level[book[o]].order \in strayed'
      BY <2>1, <2>4
    <3>3. strayed \subseteq strayed'
      BY <2>1, <2>4
    <3> QED
      BY <2>2, <3>1, <3>2, <3>3 DEF OpenOrdersTracked
  <2> QED
    BY <2>3, <2>4
<1>7. CASE Adjust \/ AutoAdjust
  BY <1>7, ResetTracks DEF Adjust, AutoAdjust
<1>8. CASE Judge
  <2>1. /\ open' = open /\ strayed' = strayed \union (open \ active)
        /\ \A i \in Level : ~Vanished(i) => level'[i] = level[i]
    BY <1>8 DEF Judge
  <2>2. ASSUME NEW o \in open' \ strayed'
        PROVE  \E i \in Level : level'[i].state = "pending" /\ level'[i].order = o
    <3>1. o \in open \ strayed /\ o \in active
      BY <2>1, <2>2
    <3>2. PICK i \in Level : level[i].state = "pending" /\ level[i].order = o
      BY <3>1 DEF OpenOrdersTracked
    <3> QED
      BY <2>1, <3>1, <3>2 DEF Vanished
  <2> QED
    BY <2>2 DEF OpenOrdersTracked
<1>9. CASE StopLoss
  <2>1. PICK i \in Level : /\ level[i].state = "filled"
                           /\ level' = [level EXCEPT ![i].state = "stopped"]
    BY <1>9 DEF StopLoss, InState
  <2>2. \A j \in Level : level[j].state = "pending" => level'[j] = level[j]
    BY <2>1 DEF TypeOK
  <2>3. open' = open /\ strayed' = strayed
    BY <1>9 DEF StopLoss
  <2> QED
    BY <2>2, <2>3 DEF OpenOrdersTracked
<1>10. CASE UNCHANGED vars
  BY <1>10 DEF vars, grid, OpenOrdersTracked
<1> QED
  BY <1>1, <1>2, <1>3, <1>4, <1>5, <1>6, <1>7, <1>8, <1>9, <1>10
     DEF Next, Cycle, Check, Decision, Sync

(* The levels lose an open order only where the model says so, for any     *)
(* grid, any number of orders, and whatever the exchange answers.          *)
THEOREM OpenOrdersTrackedAlways == Spec => []OpenOrdersTracked
<1>1. Init => OpenOrdersTracked
  BY DEF Init, OpenOrdersTracked
<1>2. TypeOK /\ OpenOrdersTracked /\ [Next]_vars => OpenOrdersTracked'
  BY NextTracks
<1> QED
  BY <1>1, <1>2, TypeCorrect, PTL DEF Spec

(* The book keeps the entry of every pending level: a new order was in no  *)
(* entry before, and an entry goes only with its level.                    *)
LEMMA NextInBook == TypeOK /\ PendingInBook /\ [Next]_vars => PendingInBook'
<1> SUFFICES ASSUME TypeOK, PendingInBook, [Next]_vars PROVE PendingInBook'
  OBVIOUS
<1>1. CASE \E o \in OrderId : Fill(o) \/ Expire(o)
  BY <1>1 DEF Fill, Expire, PendingInBook, grid
<1>2. CASE Restart
  BY <1>2 DEF Restart, NoLevels, EmptyLevel, PendingInBook
<1>3. CASE Breakout \/ Drawdown \/ BoxCancels \/ CancelDecision
  <2>1. PICK a \in CancelAnswer : CancelAll(a)
    BY <1>3 DEF Breakout, Drawdown, BoxCancels, CancelDecision
  <2> QED
    BY <2>1 DEF CancelAll, EmptyLevel, PendingInBook
<1>4. CASE EndExit \/ DailyLoss \/ Box \/ Recover \/ EndDecisions \/ Resume
             \/ AskOrders \/ CheckSkew
  BY <1>4 DEF EndExit, DailyLoss, Box, Recover, EndDecisions, Resume, AskOrders,
     CheckSkew, PendingInBook, grid
<1>5. CASE PlaceOrder
  <2>1. PICK i \in Level \union (IF "bad_index" \in Env THEN {GridCount} ELSE {}) :
          \/ UNCHANGED <<level, book>>
          \/ /\ i \in Level
             /\ level' = [level EXCEPT ![i] =
                  [state |-> "pending", order |-> placed + 1]]
             /\ book' = [book EXCEPT ![placed + 1] = i]
    BY <1>5 DEF PlaceOrder, KnownIndex
  <2>2. placed + 1 \in OrderId
    BY <1>5, GridAssumption DEF PlaceOrder, TypeOK, OrderId
  <2>3. \A j \in Level : level[j].order # placed + 1
    BY GridAssumption DEF TypeOK
  <2>4. ASSUME NEW j \in Level, level'[j].state = "pending"
        PROVE  book'[level'[j].order] = j
    BY <2>1, <2>2, <2>3, <2>4 DEF PendingInBook, TypeOK
  <2> QED
    BY <2>4 DEF PendingInBook
<1>6. CASE CancelOne
  <2>1. PICK o \in open :
          \/ UNCHANGED <<level, book>>
          \/ /\ book[o] # NoLevel
             /\ level' = [level EXCEPT ![book[o]] = EmptyLevel]
             /\ book' = [book EXCEPT ![o] = NoLevel]
    BY <1>6 DEF CancelOne
  <2>2. ASSUME NEW j \in Level, level'[j].state = "pending"
        PROVE  book'[level'[j].order] = j
    <3>1. CASE UNCHANGED <<level, book>>
      BY <2>2, <3>1 DEF PendingInBook
    <3>2. CASE /\ book[o] # NoLevel
               /\ level' = [level EXCEPT ![book[o]] = EmptyLevel]
               /\ book' = [book EXCEPT ![o] = NoLevel]
      <4>1. EmptyLevel.state # "pending"
        BY DEF EmptyLevel
      <4>2. j # book[o] /\ level'[j] = level[j]
        BY <2>2, <3>2, <4>1 DEF TypeOK
      <4>3. book[level[j].order] = j
        BY <2>2, <4>2 DEF PendingInBook
      <4>4. level[j].order # o
        BY <4>2, <4>3
      <4> QED
        BY <2>2, <3>2, <4>2, <4>3, <4>4 DEF TypeOK
    <3> QED
      BY <2>1, <3>1, <3>2
  <2> QED
    BY <2>2 DEF PendingInBook
<1>7. CASE Adjust \/ AutoAdjust
  <2>1. PICK a \in CancelAnswer :
          \E levels : CancelThenReset(a, levels) /\ Settled(levels, placed)
    BY <1>7, Empties, MovedSettled DEF Adjust, AutoAdjust
  <2> QED
    BY <2>1 DEF CancelThenReset, Settled, PendingInBook
<1>8. CASE Judge
  <2>1. PICK filled \in BOOLEAN :
          /\ level' = [i \in Level |->
               IF ~Vanished(i) THEN level[i]
               ELSE IF filled THEN [level[i] EXCEPT !.state = "filled"]
               ELSE EmptyLevel]
          /\ book' = [o \in OrderId |->
               IF filled /\ \E i \in Level : Vanished(i) /\ level[i].order = o
               THEN NoLevel ELSE book[o]]
    BY <1>8 DEF Judge
  <2>2. ASSUME NEW j \in Level, level'[j].state = "pending"
        PROVE  book'[level'[j].order] = j
    <3>1. \A i \in Level :
             [level[i] EXCEPT !.state = "filled"].state # "pending"
      BY DEF TypeOK
    <3>2. EmptyLevel.state # "pending"
      BY DEF EmptyLevel
    <3>3. ~Vanished(j) /\ level'[j] = level[j]
      BY <2>1, <2>2, <3>1, <3>2
    <3>4. level[j].order \in OrderId /\ level[j].order \in active
      BY <2>2, <3>3 DEF TypeOK, Vanished
    <3>5. \A i \in Level : Vanished(i) => level[i].order # level[j].order
      BY <3>4 DEF Vanished
    <3> QED
      BY <2>1, <2>2, <3>3, <3>4, <3>5 DEF PendingInBook
  <2> QED
    BY <2>2 DEF PendingInBook
<1>9. CASE StopLoss
  <2>1. PICK i \in Level : level' = [level EXCEPT ![i].state = "stopped"]
    BY <1>9 DEF StopLoss, InState
  <2>2. book' = book
    BY <1>9 DEF StopLoss
  <2>3. \A j \in Level : level'[j].state = "pending" => level'[j] = level[j]
    BY <2>1 DEF TypeOK
  <2> QED
    BY <2>2, <2>3 DEF PendingInBook
<1>10. CASE UNCHANGED vars
  BY <1>10 DEF vars, grid, PendingInBook
<1> QED
  BY <1>1, <1>2, <1>3, <1>4, <1>5, <1>6, <1>7, <1>8, <1>9, <1>10
     DEF Next, Cycle, Check, Decision, Sync

(* A cancel decision for the order of a pending level finds that level,    *)
(* for any grid, any number of orders, and whatever the exchange answers.  *)
THEOREM PendingInBookAlways == Spec => []PendingInBook
<1>1. Init => PendingInBook
  BY DEF Init, NoLevels, EmptyLevel, PendingInBook
<1>2. TypeOK /\ PendingInBook /\ [Next]_vars => PendingInBook'
  BY NextInBook
<1> QED
  BY <1>1, <1>2, TypeCorrect, PTL DEF Spec
=============================================================================
