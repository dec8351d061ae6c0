--------------------------- MODULE RiskGate_proofs ---------------------------
(***************************************************************************)
(* Type correctness of RiskGate, that a buy the gate lets through fits     *)
(* what the trader really holds, and that no market is traded twice in a   *)
(* cycle, for any markets, sizes and limits, any number of orders and of   *)
(* decisions, and any behaviour of the environment.                        *)
(***************************************************************************)
EXTENDS RiskGate, FiniteSetTheorems, WellFoundedInduction, TLAPS

Sending == {"place", "poll", "tell"}

(* A thread that sends has a trade; one that polls, an order of that trade *)
(* which no other thread polls; and the manual sell only sells.            *)
HasTrade == \A t \in Thread : pc[t] \in Sending => task[t] \in Trade
PollsOwn ==
  \A t \in Thread : At(t, "poll") =>
    /\ cur[t] \in 1..placed
    /\ orders[cur[t]] \in Order
    /\ orders[cur[t]].side = task[t].action
    /\ orders[cur[t]].market = task[t].market
Apart ==
  \A t, u \in Thread :
    t # u /\ At(t, "poll") /\ At(u, "poll") => cur[t] # cur[u]
SellsOnly ==
  /\ \A i \in DOMAIN todo["sell"] : todo["sell"][i].action = "sell"
  /\ pc["sell"] \in Sending => task["sell"].action = "sell"

Wiring == HasTrade /\ PollsOwn /\ Apart /\ SellsOnly
Types == TypeOK /\ Wiring

(* The fill of t's order that the gate has not been told of yet.           *)
Pending(t) ==
  IF At(t, "poll") THEN orders[cur[t]].matched
  ELSE IF At(t, "tell") THEN told[t] ELSE 0

Part(t, action, m) ==
  IF /\ pc[t] \in {"poll", "tell"}
     /\ task[t].action = action /\ task[t].market = m
  THEN Pending(t) ELSE 0

(* What the gate must at least know to be held in m: what is, with the     *)
(* sales it has not been told of and without the buys it has not.          *)
Due(m) ==
  held[m] + Part("cycle", "sell", m) + Part("sell", "sell", m)
    - Part("cycle", "buy", m)

GateKnows == \A m \in Market \ unseen : Due(m) <= exposure[m]
ReadKnows ==
  \A t \in Thread : At(t, "refresh") =>
    \A m \in Market \ stale[t] : Due(m) <= snap[t][m]

Known == GateKnows /\ ReadKnows
-----------------------------------------------------------------------------
LEMMA TradesFit == Trades \subseteq Trade /\ NoTask \notin Trade /\ Unused \notin Order
  BY LimitAssumption DEF Trades, Trade, NoTask, Unused, Order

(* The plan of a cycle is a list of trades.                                *)
LEMMA AnyList == ASSUME NEW S, NEW s \in Lists(S) PROVE s \in Seq(S)
  BY BoundAssumption DEF Lists

LEMMA MergedFinite ==
  ASSUME NEW f \in RuleAnswers, NEW s \in Lists(Sayable)
  PROVE  IsFiniteSet(Merged(f, s))
<1> DEFINE D == DOMAIN f \union Named(s)
           g == BySlug(f, s)
<1>1. D \subseteq Market
  <2>1. DOMAIN f \subseteq Market
    BY DEF RuleAnswers
  <2>2. s \in Seq(Sayable)
    BY AnyList
  <2>3. \A i \in DOMAIN s : s[i].market \in Market
    BY <2>2 DEF Sayable, Trades
  <2> QED
    BY <2>1, <2>3 DEF Named
<1>2. IsFiniteSet(D)
  BY <1>1, FS_Subset, LimitAssumption
<1>3. DOMAIN g = D
  BY DEF BySlug
<1>4. Merged(f, s) = {g[m] : m \in D}
  BY <1>3 DEF Merged
<1>5. g \in Surjection(D, Merged(f, s))
  BY <1>3, <1>4 DEF Surjection, BySlug
<1> QED
  BY <1>2, <1>5, FS_Surjection DEF ExistsSurjection

LEMMA PlansAreTrades == ASSUME NEW s \in Plans PROVE s \in Seq(Trade)
<1>1. CASE mode = "ai"
  <2>1. s \in Seq(Trades)
    BY <1>1, AnyList DEF Plans
  <2> QED
    BY <2>1, TradesFit
<1>2. CASE mode # "ai"
  <2>1. PICK f \in RuleAnswers, l \in Lists(Sayable) :
          s \in SetToSeqs(Merged(f, l) \intersect Trades)
    BY <1>2 DEF Plans, HybridPlans
  <2> DEFINE S == Merged(f, l) \intersect Trades
  <2>2. Cardinality(S) \in Nat
    BY MergedFinite, FS_Subset, FS_CardinalityType
  <2>3. s \in [1..Cardinality(S) -> S]
    BY <2>1 DEF SetToSeqs
  <2> HIDE DEF S
  <2>4. s \in Seq(S)
    BY <2>2, <2>3
  <2>5. S \subseteq Trade
    BY TradesFit DEF S
  <2> QED
    BY <2>4, <2>5
<1> QED
  BY <1>1, <1>2
-----------------------------------------------------------------------------
LEMMA TypesInit == Init => Types
<1> SUFFICES ASSUME Init PROVE Types
  OBVIOUS
<1>1. TypeOK
  BY BoundAssumption DEF Init, TypeOK, NoShares
<1>2. Wiring
  BY DEF Init, Wiring, HasTrade, PollsOwn, Apart, SellsOnly, Sending, At, Thread
<1> QED
  BY <1>1, <1>2 DEF Types

LEMMA Bounds ==
  /\ MaxOrders \in Nat /\ FirstHeld \in Nat
  /\ NoTask \notin Trade /\ Unused \notin Order
  BY BoundAssumption, TradesFit

(* What every record of the exchange becomes is an order again.            *)
LEMMA ChangedOrders ==
  ASSUME NEW r \in Order, NEW left \in Nat, NEW matched \in Nat, NEW w \in BOOLEAN
  PROVE  LET rec == Kept(Changed(r, left, matched), w) IN
         /\ rec \in Order \union {Unused}
         /\ w \/ left > 0 => /\ rec \in Order /\ rec.matched = matched
                             /\ rec.side = r.side /\ rec.market = r.market
  BY DEF Order, Changed, Kept

(* An order that changes stays the order of the thread that polls it.      *)
LEMMA OrdersChange ==
  ASSUME Types, NEW n \in OrderId, NEW rec \in Order \union {Unused},
         orders[n] \in Order,
         orders' = [orders EXCEPT ![n] = rec],
         Watched(n) => /\ rec \in Order /\ rec.side = orders[n].side
                       /\ rec.market = orders[n].market,
         UNCHANGED <<placed, pc, cur, task>>
  PROVE  orders' \in [OrderId -> Order \union {Unused}] /\ PollsOwn' /\ Apart'
<1>1. orders' \in [OrderId -> Order \union {Unused}]
  BY DEF Types, TypeOK
<1>2. PollsOwn'
  <2> SUFFICES ASSUME NEW t \in Thread, At(t, "poll")
               PROVE  /\ cur[t] \in 1..placed /\ orders'[cur[t]] \in Order
                      /\ orders'[cur[t]].side = task[t].action
                      /\ orders'[cur[t]].market = task[t].market
    BY DEF PollsOwn, At
  <2>1. /\ cur[t] \in 1..placed /\ cur[t] \in OrderId /\ orders[cur[t]] \in Order
        /\ orders[cur[t]].side = task[t].action
        /\ orders[cur[t]].market = task[t].market
    BY Bounds DEF Types, TypeOK, Wiring, PollsOwn, OrderId
  <2>2. CASE cur[t] = n
    <3>1. Watched(n)
      BY <2>2 DEF Watched
    <3> QED
      BY <2>1, <2>2, <3>1 DEF Types, TypeOK
  <2>3. CASE cur[t] # n
    BY <2>1, <2>3 DEF Types, TypeOK
  <2> QED
    BY <2>2, <2>3
<1>3. Apart'
  BY DEF Types, Wiring, Apart, At
<1> QED
  BY <1>1, <1>2, <1>3

(* Missing a fill of a market keeps the two histories sets of markets.     *)
LEMMA MissedTypes ==
  ASSUME Types, NEW m \in Market, Missed(m) \/ UNCHANGED history
  PROVE  unseen' \subseteq Market /\ stale' \in [Thread -> SUBSET Market]
  BY DEF Types, TypeOK, Missed, history

LEMMA TypesFill ==
  ASSUME Types, NEW n \in OrderId, Fill(n)
  PROVE  Types'
<1> DEFINE r == orders[n]
           w == Watched(n)
<1>1. r \in Order
  BY Bounds DEF Types, TypeOK, Fill
<1>2. PICK k \in 1..r.left :
        LET matched == IF w THEN r.matched + k ELSE 0 IN
        /\ CanTrade(r.side, r.market, k)
        /\ held' = Moved(r.side, r.market, k)
        /\ orders' = [orders EXCEPT ![n] = Kept(Changed(r, r.left - k, matched), w)]
        /\ Missed(r.market) \/ UNCHANGED history
  BY DEF Fill
<1> DEFINE matched == IF w THEN r.matched + k ELSE 0
           rec == Kept(Changed(r, r.left - k, matched), w)
<1>3. /\ k \in Nat /\ r.left - k \in Nat /\ r.matched + k \in Nat
      /\ r.market \in Market /\ w \in BOOLEAN
  BY <1>1 DEF Order, Watched
<1>4. rec \in Order \union {Unused} /\ (w => rec \in Order /\ rec.side = r.side /\ rec.market = r.market)
  BY <1>1, <1>3, ChangedOrders
<1>5. UNCHANGED <<mode, placed, exposure, byToken, pc, snap, todo, task, cur, told>>
  BY DEF Fill, gate, work
<1>6. orders' \in [OrderId -> Order \union {Unused}] /\ PollsOwn' /\ Apart'
  <2> HIDE DEF rec
  <2> QED
    BY <1>1, <1>2, <1>4, <1>5, OrdersChange DEF rec
<1>7. held' \in [Market -> Nat]
  BY <1>2, <1>3 DEF Types, TypeOK, Moved, CanTrade
<1>8. unseen' \subseteq Market /\ stale' \in [Thread -> SUBSET Market]
  BY <1>2, <1>3, MissedTypes
<1>9. TypeOK'
  BY <1>5, <1>6, <1>7, <1>8 DEF Types, TypeOK
<1>10. HasTrade' /\ SellsOnly'
  BY <1>5 DEF Types, Wiring, HasTrade, SellsOnly
<1> QED
  BY <1>6, <1>9, <1>10 DEF Types, Wiring

LEMMA TypesClose ==
  ASSUME Types, NEW n \in OrderId, Close(n)
  PROVE  Types'
<1> DEFINE r == orders[n]
           w == Watched(n)
           rec == Kept(Changed(r, 0, r.matched), w)
<1>1. r \in Order
  BY Bounds DEF Types, TypeOK, Close
<1>2. 0 \in Nat /\ r.matched \in Nat /\ w \in BOOLEAN
  BY <1>1 DEF Order, Watched
<1>3. /\ rec \in Order \union {Unused}
      /\ w => rec \in Order /\ rec.side = r.side /\ rec.market = r.market
  <2> HIDE DEF r, w
  <2> QED
    BY <1>1, <1>2, ChangedOrders
<1>4. /\ orders' = [orders EXCEPT ![n] = rec]
      /\ UNCHANGED <<mode, held, placed, exposure, byToken, pc, snap, todo, task, cur,
                     told, unseen, stale>>
  BY DEF Close, gate, work, history
<1>5. orders' \in [OrderId -> Order \union {Unused}] /\ PollsOwn' /\ Apart'
  <2> HIDE DEF rec
  <2> QED
    BY <1>1, <1>3, <1>4, OrdersChange DEF rec
<1>6. TypeOK'
  BY <1>4, <1>5 DEF Types, TypeOK
<1>7. HasTrade' /\ SellsOnly'
  BY <1>4 DEF Types, Wiring, HasTrade, SellsOnly
<1> QED
  BY <1>5, <1>6, <1>7 DEF Types, Wiring

LEMMA TypesRedeem ==
  ASSUME Types, NEW m \in Market, Redeem(m)
  PROVE  Types'
<1>1. /\ held' = [held EXCEPT ![m] = 0]
      /\ UNCHANGED <<mode, orders, placed, exposure, byToken, pc, snap, todo, task, cur,
                     told, unseen, stale>>
  BY DEF Redeem, gate, work, history
<1>2. TypeOK'
  BY <1>1 DEF Types, TypeOK
<1>3. Wiring'
  BY <1>1 DEF Types, Wiring, HasTrade, PollsOwn, Apart, SellsOnly, At
<1> QED
  BY <1>2, <1>3 DEF Types

(* A thread that takes a step of its own outside the exchange, and does    *)
(* not begin to poll, leaves what the others poll alone.                   *)
LEMMA WiringKept ==
  ASSUME Types, NEW t \in Thread, NEW s, pc' = [pc EXCEPT ![t] = s],
         s # "poll", UNCHANGED <<orders, placed, cur>>,
         \A u \in Thread \ {t} : task'[u] = task[u] /\ todo'[u] = todo[u],
         s \in Sending => task'[t] \in Trade,
         t = "sell" => /\ \A i \in DOMAIN todo'[t] : todo'[t][i].action = "sell"
                       /\ s \in Sending => task'[t].action = "sell"
  PROVE  Wiring'
<1>1. \A u \in Thread : pc'[u] = IF u = t THEN s ELSE pc[u]
  BY DEF Types, TypeOK
<1>2. HasTrade'
  BY <1>1 DEF Types, Wiring, HasTrade
<1>3. PollsOwn'
  BY <1>1 DEF Types, Wiring, PollsOwn, At
<1>4. Apart'
  BY <1>1 DEF Types, Wiring, Apart, At
<1>5. SellsOnly'
  BY <1>1 DEF Types, Wiring, SellsOnly, Thread
<1> QED
  BY <1>2, <1>3, <1>4, <1>5 DEF Wiring

LEMMA ReadTypes ==
  ASSUME Types, NEW t \in Thread, Read(t), HasTrade
  PROVE  /\ snap' \in [Thread -> [Market -> Nat]] /\ stale' \in [Thread -> SUBSET Market]
         /\ pc' = [pc EXCEPT ![t] = "refresh"]
         /\ UNCHANGED <<mode, held, orders, placed, exposure, byToken, task, cur, told, unseen>>
<1>1. HalfTold \subseteq Market
  BY DEF HalfTold, HasTrade, Sending, At, Trade
<1> QED
  BY <1>1 DEF Types, TypeOK, Read, Goto, exchange, gate

LEMMA TypesReadPositions ==
  ASSUME Types, ReadPositions
  PROVE  Types'
<1>1. HasTrade
  BY DEF Types, Wiring
<1>2. Read("cycle") /\ "cycle" \in Thread /\ UNCHANGED todo
  BY DEF ReadPositions, Thread
<1>3. TypeOK'
  BY <1>1, <1>2, ReadTypes DEF Types, TypeOK
<1>4. Wiring'
  BY <1>1, <1>2, ReadTypes, WiringKept DEF Sending
<1> QED
  BY <1>3, <1>4 DEF Types

LEMMA TypesReadFails ==
  ASSUME Types, ReadFails
  PROVE  Types'
<1>1. /\ pc' = [pc EXCEPT !["cycle"] = "refresh"]
      /\ snap' = [snap EXCEPT !["cycle"] = NoShares]
      /\ stale' = [stale EXCEPT !["cycle"] = Market]
      /\ UNCHANGED <<mode, held, orders, placed, exposure, byToken, todo, task, cur,
                     told, unseen>>
      /\ "cycle" \in Thread /\ NoShares \in [Market -> Nat]
  BY DEF ReadFails, Goto, exchange, gate, Thread, NoShares
<1>2. TypeOK'
  BY <1>1 DEF Types, TypeOK
<1>3. Wiring'
  BY <1>1, WiringKept DEF Sending
<1> QED
  BY <1>2, <1>3 DEF Types

LEMMA TypesSellPosition ==
  ASSUME Types, SellPosition
  PROVE  Types'
<1>1. HasTrade
  BY DEF Types, Wiring
<1>2. PICK m \in Market, q \in Quantity :
        todo' = [todo EXCEPT !["sell"] = <<[action |-> "sell", market |-> m, usd |-> q]>>]
  BY DEF SellPosition
<1> DEFINE d == [action |-> "sell", market |-> m, usd |-> q]
<1>3. d \in Trade /\ d.action = "sell"
  BY LimitAssumption DEF Trade
<1> HIDE DEF d
<1>4. todo' = [todo EXCEPT !["sell"] = <<d>>]
  BY <1>2 DEF d
<1>5. Read("sell") /\ "sell" \in Thread
  BY DEF SellPosition, Thread
<1>6. todo' \in [Thread -> Seq(Trade)]
  <2>1. <<d>> \in Seq(Trade)
    BY <1>3
  <2> QED
    BY <1>4, <2>1 DEF Types, TypeOK
<1>7. TypeOK'
  BY <1>1, <1>5, <1>6, ReadTypes DEF Types, TypeOK
<1>8. /\ \A u \in Thread \ {"sell"} : todo'[u] = todo[u]
      /\ todo'["sell"] = <<d>> /\ \A i \in DOMAIN todo'["sell"] : todo'["sell"][i].action = "sell"
  BY <1>3, <1>4, <1>5 DEF Types, TypeOK
<1>9. Wiring'
  BY <1>1, <1>5, <1>8, ReadTypes, WiringKept DEF Sending
<1> QED
  BY <1>7, <1>9 DEF Types

LEMMA TypesDecide ==
  ASSUME Types, Decide
  PROVE  Types'
<1>1. PICK s \in Plans : todo' = [todo EXCEPT !["cycle"] = s]
  BY DEF Decide
<1>2. s \in Seq(Trade)
  BY PlansAreTrades
<1>3. /\ pc' = [pc EXCEPT !["cycle"] = "next"] /\ "cycle" \in Thread
      /\ UNCHANGED <<mode, held, orders, placed, exposure, byToken, snap, task, cur, told,
                     unseen, stale>>
  BY DEF Decide, Goto, Thread, exchange, gate, history
<1>4. TypeOK'
  BY <1>1, <1>2, <1>3 DEF Types, TypeOK
<1>5. Wiring'
  BY <1>1, <1>3, WiringKept DEF Types, TypeOK, Sending
<1> QED
  BY <1>4, <1>5 DEF Types

LEMMA TypesModelFails ==
  ASSUME Types, ModelFails
  PROVE  Types'
<1>1. /\ pc' = [pc EXCEPT !["cycle"] = "idle"] /\ "cycle" \in Thread
      /\ UNCHANGED <<mode, held, orders, placed, exposure, byToken, snap, todo, task, cur,
                     told, unseen, stale>>
  BY DEF ModelFails, Goto, Thread, exchange, gate, work, history
<1>2. TypeOK'
  BY <1>1 DEF Types, TypeOK
<1>3. Wiring'
  BY <1>1, WiringKept DEF Sending
<1> QED
  BY <1>2, <1>3 DEF Types

LEMMA TypesSetPositions ==
  ASSUME Types, NEW t \in Thread, SetPositions(t)
  PROVE  Types'
<1>1. /\ exposure' = snap[t] /\ byToken' \subseteq Market
      /\ unseen' = stale[t] /\ stale' = [stale EXCEPT ![t] = {}]
      /\ snap' = [snap EXCEPT ![t] = NoShares] /\ NoShares \in [Market -> Nat]
      /\ UNCHANGED <<mode, held, orders, placed, task, cur, told>>
  BY DEF SetPositions, exchange, NoShares
<1>2. PICK s \in {"decide", "next", "idle"} :
        /\ pc' = [pc EXCEPT ![t] = s]
        /\ todo' = todo \/ todo' = [todo EXCEPT ![t] = <<>>]
  BY DEF SetPositions, Goto
<1>3. todo' \in [Thread -> Seq(Trade)] /\ (todo'[t] = todo[t] \/ todo'[t] = <<>>)
  <2>1. <<>> \in Seq(Trade)
    OBVIOUS
  <2> QED
    BY <1>2, <2>1 DEF Types, TypeOK
<1>4. TypeOK'
  BY <1>1, <1>2, <1>3 DEF Types, TypeOK
<1>5. /\ \A u \in Thread \ {t} : task'[u] = task[u] /\ todo'[u] = todo[u]
      /\ t = "sell" => \A i \in DOMAIN todo'[t] : todo'[t][i].action = "sell"
  <2>1. \A u \in Thread \ {t} : task'[u] = task[u] /\ todo'[u] = todo[u]
    BY <1>1, <1>2 DEF Types, TypeOK
  <2>2. t = "sell" => \A i \in DOMAIN todo[t] : todo[t][i].action = "sell"
    BY DEF Types, Wiring, SellsOnly
  <2> QED
    BY <1>3, <2>1, <2>2
<1>6. Wiring'
  BY <1>1, <1>2, <1>5, WiringKept DEF Sending
<1> QED
  BY <1>4, <1>6 DEF Types

(* What is taken off a list of trades is a trade, and leaves such a list.  *)
LEMMA TakenTypes ==
  ASSUME Types, NEW t \in Thread, todo[t] # <<>>, Taken(t)
  PROVE  /\ First(t) \in Trade /\ todo' \in [Thread -> Seq(Trade)]
         /\ \A u \in Thread \ {t} : todo'[u] = todo[u]
         /\ t = "sell" => /\ First(t).action = "sell"
                          /\ \A i \in DOMAIN todo'[t] : todo'[t][i].action = "sell"
<1>1. todo[t] \in Seq(Trade) /\ todo' = [todo EXCEPT ![t] = Tail(todo[t])]
  BY DEF Types, TypeOK, Taken
<1>2. /\ First(t) \in Trade /\ Tail(todo[t]) \in Seq(Trade) /\ 1 \in DOMAIN todo[t]
      /\ \A i \in DOMAIN Tail(todo[t]) :
           i + 1 \in DOMAIN todo[t] /\ Tail(todo[t])[i] = todo[t][i + 1]
  BY <1>1 DEF First
<1>3. todo'[t] = Tail(todo[t]) /\ \A u \in Thread \ {t} : todo'[u] = todo[u]
  BY <1>1 DEF Types, TypeOK
<1>4. todo' \in [Thread -> Seq(Trade)]
  BY <1>1, <1>2 DEF Types, TypeOK
<1>5. t = "sell" => \A i \in DOMAIN todo[t] : todo[t][i].action = "sell"
  BY DEF Types, Wiring, SellsOnly
<1> QED
  BY <1>2, <1>3, <1>4, <1>5 DEF First

LEMMA TypesJudge ==
  ASSUME Types, NEW t \in Thread, Judge(t)
  PROVE  Types'
<1>1. /\ todo[t] # <<>> /\ Taken(t) /\ pc' = [pc EXCEPT ![t] = "place"]
      /\ UNCHANGED <<mode, held, orders, placed, exposure, byToken, snap, cur, told,
                     unseen, stale>>
  BY DEF Judge, Goto, exchange, gate, history
<1>2. PICK d \in Trade : /\ task' = [task EXCEPT ![t] = d]
                         /\ d.action = First(t).action
  <2>1. First(t) \in Trade
    BY <1>1, TakenTypes
  <2>2. \A q \in 1..First(t).usd :
          [action |-> "sell", market |-> First(t).market, usd |-> q] \in Trade
    BY <2>1 DEF Trade
  <2> QED
    BY <2>1, <2>2 DEF Judge
<1>3. task' \in [Thread -> Trade \union {NoTask}] /\ task'[t] = d
      /\ \A u \in Thread \ {t} : task'[u] = task[u]
  BY <1>2 DEF Types, TypeOK
<1>4. TypeOK'
  BY <1>1, <1>3, TakenTypes DEF Types, TypeOK
<1>5. Wiring'
  BY <1>1, <1>2, <1>3, TakenTypes, WiringKept DEF Sending
<1> QED
  BY <1>4, <1>5 DEF Types

LEMMA TypesSkip ==
  ASSUME Types, NEW t \in Thread, Skip(t)
  PROVE  Types'
<1>1. /\ todo[t] # <<>> /\ Taken(t)
      /\ UNCHANGED <<mode, held, orders, placed, exposure, byToken, pc, snap, task, cur,
                     told, unseen, stale>>
  BY DEF Skip, exchange, gate, history
<1>2. TypeOK'
  BY <1>1, TakenTypes DEF Types, TypeOK
<1>3. SellsOnly'
  BY <1>1, TakenTypes DEF Types, Wiring, SellsOnly, Thread
<1>4. Wiring'
  BY <1>1, <1>3 DEF Types, Wiring, HasTrade, PollsOwn, Apart, At
<1> QED
  BY <1>2, <1>4 DEF Types

LEMMA TypesFinish ==
  ASSUME Types, NEW t \in Thread, Finish(t)
  PROVE  Types'
<1>1. /\ pc' = [pc EXCEPT ![t] = "idle"] /\ todo[t] = <<>>
      /\ UNCHANGED <<mode, held, orders, placed, exposure, byToken, snap, todo, task, cur,
                     told, unseen, stale>>
  BY DEF Finish, Goto, exchange, gate, work, history
<1>2. TypeOK'
  BY <1>1 DEF Types, TypeOK
<1>3. t = "sell" => \A i \in DOMAIN todo'[t] : todo'[t][i].action = "sell"
  BY <1>1 DEF Types, Wiring, SellsOnly
<1>4. Wiring'
  BY <1>1, <1>3, WiringKept DEF Sending
<1> QED
  BY <1>2, <1>4 DEF Types

(* A thread that is done with its trade leaves the rest of the wiring.     *)
LEMMA DoneTypes ==
  ASSUME Types, NEW t \in Thread, Done(t)
  PROVE  /\ pc' = [pc EXCEPT ![t] = "next"]
         /\ task' \in [Thread -> Trade \union {NoTask}]
         /\ \A u \in Thread \ {t} : task'[u] = task[u]
         /\ todo' = todo => HasTrade' /\ SellsOnly'
<1>1. pc' = [pc EXCEPT ![t] = "next"] /\ task' = [task EXCEPT ![t] = NoTask]
  BY DEF Done, Goto
<1>2. \A u \in Thread : pc'[u] = (IF u = t THEN "next" ELSE pc[u])
                        /\ task'[u] = (IF u = t THEN NoTask ELSE task[u])
  BY <1>1 DEF Types, TypeOK
<1>3. task' \in [Thread -> Trade \union {NoTask}]
  BY <1>1 DEF Types, TypeOK
<1>4. HasTrade'
  BY <1>2 DEF Types, Wiring, HasTrade, Sending
<1>5. todo' = todo => SellsOnly'
  BY <1>2 DEF Types, Wiring, SellsOnly, Sending, Thread
<1> QED
  BY <1>1, <1>2, <1>3, <1>4, <1>5

(* Who polls, what, and for which trade is unchanged for the others.       *)
LEMMA DonePolls ==
  ASSUME Types, NEW t \in Thread, Done(t), UNCHANGED <<orders, placed, cur>>
  PROVE  PollsOwn' /\ Apart'
<1>1. \A u \in Thread : At(u, "poll")' => At(u, "poll") /\ task'[u] = task[u]
  BY DoneTypes DEF Types, TypeOK, At
<1> QED
  BY <1>1 DEF Types, Wiring, PollsOwn, Apart

LEMMA TypesPlaceFails ==
  ASSUME Types, NEW t \in Thread, PlaceFails(t)
  PROVE  Types'
<1>1. /\ Done(t)
      /\ UNCHANGED <<mode, held, orders, placed, exposure, byToken, snap, todo, cur, told,
                     unseen, stale>>
  BY DEF PlaceFails, exchange, gate, history
<1>2. TypeOK'
  BY <1>1, DoneTypes DEF Types, TypeOK
<1>3. Wiring'
  BY <1>1, DoneTypes, DonePolls DEF Wiring
<1> QED
  BY <1>2, <1>3 DEF Types

(* A new order is one that nobody polls yet.                               *)
LEMMA PostedTypes ==
  ASSUME Types, NEW t \in Thread, At(t, "place"), Posted(t)
  PROVE  /\ placed' = placed + 1 /\ placed' \in 1..MaxOrders /\ placed' \in OrderId
         /\ orders' \in [OrderId -> Order \union {Unused}]
         /\ orders'[placed'] \in Order /\ orders'[placed'].side = task[t].action
         /\ orders'[placed'].market = task[t].market /\ orders'[placed'].matched = 0
         /\ \A n \in OrderId : n # placed' => orders'[n] = orders[n]
<1> DEFINE d == task[t]
           new == [side |-> d.action, market |-> d.market, left |-> d.usd, matched |-> 0]
<1>1. new \in Order
  BY DEF Types, Wiring, HasTrade, At, Sending, Trade, Order
<1>2. /\ placed < MaxOrders /\ placed' = placed + 1
      /\ orders' = [orders EXCEPT ![placed'] = new]
  BY DEF Posted
<1>3. placed' \in 1..MaxOrders /\ placed' \in OrderId
  BY <1>2, Bounds DEF Types, TypeOK, OrderId
<1>4. new.side = d.action /\ new.market = d.market /\ new.matched = 0
  OBVIOUS
<1> HIDE DEF new
<1> QED
  BY <1>1, <1>2, <1>3, <1>4 DEF Types, TypeOK

LEMMA TypesPlaceLost ==
  ASSUME Types, NEW t \in Thread, PlaceLost(t)
  PROVE  Types'
<1>1. /\ At(t, "place") /\ Done(t) /\ Posted(t)
      /\ UNCHANGED <<mode, held, exposure, byToken, snap, todo, cur, told, unseen, stale>>
  BY DEF PlaceLost, gate, history
<1>2. TypeOK'
  <2>1. /\ pc' = [pc EXCEPT ![t] = "next"]
        /\ task' \in [Thread -> Trade \union {NoTask}]
    BY <1>1, DoneTypes
  <2>2. placed' \in 0..MaxOrders /\ orders' \in [OrderId -> Order \union {Unused}]
    BY <1>1, PostedTypes
  <2> QED
    BY <1>1, <2>1, <2>2 DEF Types, TypeOK
<1>3. \A u \in Thread : At(u, "poll")' => At(u, "poll") /\ task'[u] = task[u] /\ u # t
  BY <1>1, DoneTypes DEF Types, TypeOK, At
<1>4. \A u \in Thread : At(u, "poll") =>
        cur[u] \in 1..placed' /\ orders'[cur[u]] = orders[cur[u]]
  BY <1>1, PostedTypes, Bounds DEF Types, TypeOK, Wiring, PollsOwn, OrderId
<1>5. PollsOwn' /\ Apart'
  BY <1>1, <1>3, <1>4 DEF Types, Wiring, PollsOwn, Apart
<1> QED
  BY <1>1, <1>2, <1>5, DoneTypes DEF Types, Wiring

LEMMA TypesPlace ==
  ASSUME Types, NEW t \in Thread, Place(t)
  PROVE  Types'
<1>1. /\ At(t, "place") /\ Posted(t) /\ pc' = [pc EXCEPT ![t] = "poll"]
      /\ cur' = [cur EXCEPT ![t] = placed']
      /\ UNCHANGED <<mode, held, exposure, byToken, snap, todo, task, told, unseen, stale>>
  BY DEF Place, Goto, gate, history
<1>2. cur' \in [Thread -> OrderId \union {NoOrder}] /\ cur'[t] = placed'
      /\ \A u \in Thread \ {t} : cur'[u] = cur[u]
  BY <1>1, PostedTypes DEF Types, TypeOK
<1>3. TypeOK'
  BY <1>1, <1>2, PostedTypes DEF Types, TypeOK
<1>4. \A u \in Thread \ {t} : At(u, "poll")' => At(u, "poll")
  BY <1>1 DEF Types, TypeOK, At
<1>5. \A u \in Thread : At(u, "poll") =>
        cur[u] \in 1..placed' /\ orders'[cur[u]] = orders[cur[u]] /\ cur[u] # placed'
  BY <1>1, PostedTypes, Bounds DEF Types, TypeOK, Wiring, PollsOwn, OrderId
<1>6. PollsOwn'
  <2> SUFFICES ASSUME NEW u \in Thread, At(u, "poll")'
               PROVE  /\ cur'[u] \in 1..placed' /\ orders'[cur'[u]] \in Order
                      /\ orders'[cur'[u]].side = task'[u].action
                      /\ orders'[cur'[u]].market = task'[u].market
    BY DEF PollsOwn
  <2>1. CASE u = t
    BY <1>1, <1>2, <2>1, PostedTypes DEF OrderId
  <2>2. CASE u # t
    BY <1>1, <1>2, <1>4, <1>5, <2>2 DEF Types, Wiring, PollsOwn
  <2> QED
    BY <2>1, <2>2
<1>7. Apart'
  BY <1>2, <1>4, <1>5 DEF Types, Wiring, Apart
<1>8. HasTrade' /\ SellsOnly'
  BY <1>1 DEF Types, TypeOK, Wiring, HasTrade, SellsOnly, Sending, At, Thread
<1> QED
  BY <1>3, <1>6, <1>7, <1>8 DEF Types, Wiring

LEMMA TypesPlaceSilent ==
  ASSUME Types, NEW t \in Thread, PlaceSilent(t)
  PROVE  Types'
<1> DEFINE d == task[t]
<1>1. /\ At(t, "place") /\ Done(t)
      /\ placed < MaxOrders /\ placed' = placed + 1
      /\ CanTrade(d.action, d.market, d.usd)
      /\ held' = Moved(d.action, d.market, d.usd)
      /\ Missed(d.market) \/ UNCHANGED history
      /\ UNCHANGED <<mode, orders, exposure, byToken, snap, todo, cur, told>>
  BY DEF PlaceSilent, gate
<1>2. d \in Trade /\ d.market \in Market /\ d.usd \in Nat
  BY <1>1 DEF Types, Wiring, HasTrade, Sending, At, Trade
<1>3. held' \in [Market -> Nat]
  BY <1>1, <1>2 DEF Types, TypeOK, Moved, CanTrade
<1>4. /\ unseen' \subseteq Market /\ stale' \in [Thread -> SUBSET Market]
      /\ placed' \in 0..MaxOrders
  BY <1>1, <1>2, MissedTypes, Bounds DEF Types, TypeOK
<1>5. /\ pc' = [pc EXCEPT ![t] = "next"]
      /\ task' \in [Thread -> Trade \union {NoTask}]
  BY <1>1, DoneTypes
<1>6. TypeOK'
  BY <1>1, <1>3, <1>4, <1>5 DEF Types, TypeOK
<1>7. \A u \in Thread : At(u, "poll")' => At(u, "poll") /\ task'[u] = task[u]
  BY <1>1, DoneTypes DEF Types, TypeOK, At
<1>8. PollsOwn' /\ Apart'
  BY <1>1, <1>7 DEF Types, TypeOK, Wiring, PollsOwn, Apart
<1> QED
  BY <1>1, <1>6, <1>8, DoneTypes DEF Types, Wiring

(* The order a thread lets go stays as it is for the others, who do not    *)
(* poll it.                                                                *)
LEMMA LetGoTypes ==
  ASSUME Types, NEW t \in Thread, At(t, "poll"), LetGo(t), UNCHANGED placed,
         \A u \in Thread : At(u, "poll")' =>
           u # t /\ At(u, "poll") /\ task'[u] = task[u]
  PROVE  /\ orders' \in [OrderId -> Order \union {Unused}]
         /\ cur' \in [Thread -> OrderId \union {NoOrder}]
         /\ orders[cur[t]].matched \in Nat
         /\ PollsOwn' /\ Apart'
         /\ \A u \in Thread \ {t} : At(u, "poll") => orders'[cur'[u]] = orders[cur[u]]
<1> DEFINE r == orders[cur[t]]
           rec == Kept(Changed(r, r.left, 0), FALSE)
<1>1. cur[t] \in OrderId /\ r \in Order /\ r.left \in Nat /\ r.matched \in Nat
  BY Bounds DEF Types, TypeOK, Wiring, PollsOwn, OrderId, Order
<1>2. rec \in Order \union {Unused}
  BY <1>1, ChangedOrders
<1>3. orders' = [orders EXCEPT ![cur[t]] = rec] /\ cur' = [cur EXCEPT ![t] = NoOrder]
  BY DEF LetGo
<1> HIDE DEF rec
<1>4. orders' \in [OrderId -> Order \union {Unused}]
  BY <1>2, <1>3 DEF Types, TypeOK
<1>5. cur' \in [Thread -> OrderId \union {NoOrder}]
  BY <1>3 DEF Types, TypeOK
<1>6. \A u \in Thread \ {t} : cur'[u] = cur[u] /\ (At(u, "poll") =>
        orders'[cur'[u]] = orders[cur[u]])
  BY <1>1, <1>3, Bounds DEF Types, TypeOK, Wiring, PollsOwn, Apart, OrderId
<1>7. PollsOwn' /\ Apart'
  BY <1>6 DEF Types, Wiring, PollsOwn, Apart
<1> QED
  BY <1>1, <1>4, <1>5, <1>6, <1>7

LEMMA TypesPoll ==
  ASSUME Types, NEW t \in Thread, Poll(t)
  PROVE  Types'
<1>1. /\ At(t, "poll") /\ LetGo(t) /\ pc' = [pc EXCEPT ![t] = "tell"]
      /\ told' = [told EXCEPT ![t] = orders[cur[t]].matched]
      /\ UNCHANGED <<mode, held, placed, exposure, byToken, snap, todo, task, unseen, stale>>
  BY DEF Poll, Goto, gate, history
<1>2. \A u \in Thread : At(u, "poll")' =>
        u # t /\ At(u, "poll") /\ task'[u] = task[u]
  BY <1>1 DEF Types, TypeOK, At
<1>3. TypeOK'
  BY <1>1, <1>2, LetGoTypes DEF Types, TypeOK
<1>4. HasTrade' /\ SellsOnly'
  BY <1>1 DEF Types, TypeOK, Wiring, HasTrade, SellsOnly, Sending, At, Thread
<1> QED
  BY <1>1, <1>2, <1>3, <1>4, LetGoTypes DEF Types, Wiring

LEMMA TypesGiveUp ==
  ASSUME Types, NEW t \in Thread, GiveUp(t)
  PROVE  Types'
<1>1. /\ At(t, "poll") /\ LetGo(t) /\ Done(t)
      /\ Missed(task[t].market) \/ UNCHANGED history
      /\ UNCHANGED <<mode, held, placed, exposure, byToken, snap, todo, told>>
  BY DEF GiveUp, gate
<1>2. task[t].market \in Market
  BY <1>1 DEF Types, Wiring, HasTrade, Sending, At, Trade
<1>3. \A u \in Thread : At(u, "poll")' =>
        u # t /\ At(u, "poll") /\ task'[u] = task[u]
  BY <1>1, DoneTypes DEF Types, TypeOK, At
<1>4. TypeOK'
  <2>1. /\ pc' = [pc EXCEPT ![t] = "next"]
        /\ task' \in [Thread -> Trade \union {NoTask}]
    BY <1>1, DoneTypes
  <2> QED
    BY <1>1, <1>2, <1>3, <2>1, LetGoTypes, MissedTypes DEF Types, TypeOK
<1> QED
  BY <1>1, <1>3, <1>4, LetGoTypes, DoneTypes DEF Types, Wiring

LEMMA TypesTell ==
  ASSUME Types, NEW t \in Thread, Tell(t)
  PROVE  Types'
<1>1. /\ At(t, "tell") /\ Done(t) /\ told' = [told EXCEPT ![t] = 0]
      /\ UNCHANGED <<mode, held, orders, placed, byToken, snap, todo, cur, unseen>>
  BY DEF Tell, exchange
<1>2. task[t].market \in Market
  BY <1>1 DEF Types, Wiring, HasTrade, Sending, At, Trade
<1> DEFINE m == task[t].market
<1>3. told[t] \in Nat /\ exposure \in [Market -> Nat]
  BY DEF Types, TypeOK
<1>4. \/ /\ AddMarketExposure(m, told[t])
         /\ stale' = [u \in Thread |-> IF At(u, "refresh") THEN stale[u] \union {m}
                                                          ELSE stale[u]]
      \/ ReduceMarketExposure(m, told[t]) /\ UNCHANGED stale
  BY DEF Tell
<1> HIDE DEF m
<1>5. exposure' \in [Market -> Nat] /\ stale' \in [Thread -> SUBSET Market]
  <2>1. m \in Market
    BY <1>2 DEF m
  <2>2. AddMarketExposure(m, told[t]) => exposure' \in [Market -> Nat]
    BY <1>3, <2>1 DEF AddMarketExposure
  <2>3. ReduceMarketExposure(m, told[t]) => exposure' \in [Market -> Nat]
    BY <1>3, <2>1 DEF ReduceMarketExposure
  <2>4. stale' \in [Thread -> SUBSET Market]
    <3>1. stale \in [Thread -> SUBSET Market]
      BY DEF Types, TypeOK
    <3>2. [u \in Thread |-> IF At(u, "refresh") THEN stale[u] \union {m} ELSE stale[u]]
            \in [Thread -> SUBSET Market]
      <4>1. \A u \in Thread : (IF At(u, "refresh") THEN stale[u] \union {m} ELSE stale[u])
                                \in SUBSET Market
        BY <2>1, <3>1
      <4> QED
        BY <4>1
    <3> QED
      BY <1>4, <3>1, <3>2
  <2> QED
    BY <1>4, <2>2, <2>3, <2>4
<1>6. TypeOK'
  <2>1. /\ pc' = [pc EXCEPT ![t] = "next"]
        /\ task' \in [Thread -> Trade \union {NoTask}]
    BY <1>1, DoneTypes
  <2> QED
    BY <1>1, <1>5, <2>1 DEF Types, TypeOK
<1> QED
  BY <1>1, <1>6, DoneTypes, DonePolls DEF Types, Wiring

LEMMA TypesNext == Types /\ [Next]_vars => Types'
<1> SUFFICES ASSUME Types, [Next]_vars PROVE Types'
  OBVIOUS
<1>1. CASE Next
  BY <1>1, TypesFill, TypesClose, TypesRedeem, TypesReadPositions, TypesReadFails,
     TypesSellPosition, TypesDecide, TypesModelFails, TypesSetPositions, TypesJudge,
     TypesSkip, TypesFinish, TypesPlaceFails, TypesPlaceLost, TypesPlace,
     TypesPlaceSilent, TypesPoll, TypesGiveUp, TypesTell DEF Next
<1>2. CASE UNCHANGED vars
  BY <1>2 DEF Types, TypeOK, Wiring, HasTrade, PollsOwn, Apart, SellsOnly, At, vars,
     exchange, gate, work, history
<1> QED
  BY <1>1, <1>2

(* Every variable keeps to its type: no sale leaves less than nothing, and *)
(* a fill is told for a trade that has an order.                           *)
THEOREM TypeCorrect == Spec => []TypeOK
<1>1. Types => TypeOK
  BY DEF Types
<1> QED
  BY <1>1, TypesInit, TypesNext, PTL DEF Spec

-----------------------------------------------------------------------------
LEMMA PartTypes ==
  ASSUME Types, NEW t \in Thread, NEW a, NEW m
  PROVE  Part(t, a, m) \in Nat /\ Pending(t) \in Nat
<1>1. At(t, "poll") => orders[cur[t]].matched \in Nat
  BY DEF Types, Wiring, PollsOwn, Order
<1>2. told[t] \in Nat
  BY DEF Types, TypeOK
<1> QED
  BY <1>1, <1>2 DEF Part, Pending

LEMMA DueTypes ==
  ASSUME Types, NEW m \in Market
  PROVE  /\ Due(m) \in Int /\ held[m] \in Nat /\ "cycle" \in Thread /\ "sell" \in Thread
         /\ Part("cycle", "sell", m) \in Nat /\ Part("sell", "sell", m) \in Nat
         /\ Part("cycle", "buy", m) \in Nat
<1>1. "cycle" \in Thread /\ "sell" \in Thread
  BY DEF Thread
<1>2. /\ Part("cycle", "sell", m) \in Nat /\ Part("sell", "sell", m) \in Nat
      /\ Part("cycle", "buy", m) \in Nat
  BY <1>1, PartTypes
<1>3. held[m] \in Nat
  BY DEF Types, TypeOK
<1> QED
  BY <1>1, <1>2, <1>3 DEF Due

LEMMA DueInts == Types => \A m \in Market : Due(m) \in Int
  BY DueTypes

LEMMA DueIntsNext == Types' => (\A m \in Market : Due(m) \in Int)'
  BY DueInts, PTL

(* A thread for which nothing changes keeps what it has not told.          *)
LEMMA PartSame ==
  ASSUME NEW t \in Thread,
         \/ pc'[t] = pc[t] /\ task'[t] = task[t]
         \/ pc'[t] \notin {"poll", "tell"} /\ pc[t] \notin {"poll", "tell"},
         At(t, "poll") => orders'[cur'[t]].matched = orders[cur[t]].matched,
         told'[t] = told[t]
  PROVE  \A a, m : Part(t, a, m)' = Part(t, a, m)
  BY DEF Part, Pending, At

LEMMA DueSame ==
  ASSUME \A t \in Thread : \A a, m : Part(t, a, m)' = Part(t, a, m),
         NEW m, held'[m] = held[m]
  PROVE  Due(m)' = Due(m)
  BY DEF Due, Thread

(* The gate goes on knowing enough while no more becomes due in a market,  *)
(* but for the markets X that it is known to miss.                         *)
LEMMA KnownKept ==
  ASSUME Types, Types', Known, NEW X \in SUBSET Market,
         UNCHANGED <<exposure, snap>>,
         unseen \union X \subseteq unseen',
         \A t \in Thread : At(t, "refresh")' =>
           At(t, "refresh") /\ stale[t] \union X \subseteq stale'[t],
         \A m \in Market \ X : Due(m)' <= Due(m)
  PROVE  Known'
<1>1. \A m \in Market : Due(m) \in Int /\ Due(m)' \in Int
  BY DueInts, DueIntsNext
<1>2. GateKnows'
  <2> SUFFICES ASSUME NEW m \in Market \ unseen' PROVE Due(m)' <= exposure'[m]
    BY DEF GateKnows
  <2>1. Due(m) <= exposure[m] /\ Due(m)' <= Due(m)
    BY DEF Known, GateKnows
  <2>2. exposure[m] \in Int
    BY DEF Types, TypeOK
  <2> QED
    BY <1>1, <2>1, <2>2
<1>3. ReadKnows'
  <2> SUFFICES ASSUME NEW t \in Thread, At(t, "refresh")', NEW m \in Market \ stale'[t]
               PROVE  Due(m)' <= snap'[t][m]
    BY DEF ReadKnows
  <2>1. Due(m) <= snap[t][m] /\ Due(m)' <= Due(m)
    BY DEF Known, ReadKnows
  <2>2. snap[t][m] \in Int
    BY DEF Types, TypeOK
  <2> QED
    BY <1>1, <2>1, <2>2
<1> QED
  BY <1>2, <1>3 DEF Known

(* A step of t away from its fills, that leaves held alone.                *)
LEMMA KnownStep ==
  ASSUME Types, Types', Known, NEW t \in Thread,
         pc[t] \notin {"poll", "tell", "refresh"},
         pc'[t] \notin {"poll", "tell", "refresh"},
         \A u \in Thread \ {t} : pc'[u] = pc[u] /\ task'[u] = task[u],
         \A u \in Thread : At(u, "poll") => orders'[cur[u]] = orders[cur[u]],
         UNCHANGED <<held, exposure, snap, cur, told, unseen, stale>>
  PROVE  Known'
<1>1. \A u \in Thread : \A a, m : Part(u, a, m)' = Part(u, a, m)
  BY PartSame
<1>2. \A m \in Market \ {} : Due(m)' <= Due(m)
  BY <1>1, DueSame, DueTypes
<1>3. \A u \in Thread : At(u, "refresh")' => At(u, "refresh")
  BY DEF At
<1>4. {} \in SUBSET Market /\ unseen \union {} \subseteq unseen'
      /\ \A u \in Thread : stale[u] \union {} \subseteq stale'[u]
  OBVIOUS
<1> QED
  BY <1>2, <1>3, <1>4, KnownKept

LEMMA KnownInit == Init => Known
<1> SUFFICES ASSUME Init PROVE Known
  OBVIOUS
<1>1. \A m \in Market \ unseen : held[m] = 0 /\ exposure[m] = 0
  BY BoundAssumption DEF Init, NoShares
<1>2. \A t \in Thread : \A a, m : Part(t, a, m) = 0
  BY DEF Init, Part
<1>3. GateKnows
  BY <1>1, <1>2 DEF GateKnows, Due, Thread
<1>4. ReadKnows
  BY DEF Init, ReadKnows, At
<1> QED
  BY <1>3, <1>4 DEF Known


(* The steps that neither fill nor tell.                                   *)
LEMMA KnownQuiet ==
  ASSUME Types, Types', Known, NEW t \in Thread,
         \/ Decide \/ ModelFails \/ Judge(t) \/ Skip(t) \/ Finish(t)
         \/ PlaceFails(t) \/ PlaceLost(t)
  PROVE  Known'
<1>1. CASE Decide \/ ModelFails
  <2>1. /\ "cycle" \in Thread /\ pc["cycle"] = "decide"
        /\ \E s \in {"next", "idle"} : pc' = [pc EXCEPT !["cycle"] = s]
        /\ UNCHANGED <<held, exposure, snap, cur, told, unseen, stale, task, orders>>
    BY <1>1 DEF Decide, ModelFails, Goto, At, Thread, exchange, gate, work, history
  <2>2. /\ pc'["cycle"] \in {"next", "idle"}
        /\ \A u \in Thread \ {"cycle"} : pc'[u] = pc[u] /\ task'[u] = task[u]
    BY <2>1 DEF Types, TypeOK
  <2> QED
    BY <2>1, <2>2, KnownStep
<1>2. CASE Judge(t) \/ Skip(t) \/ Finish(t)
  <2>1. /\ pc[t] = "next"
        /\ \/ pc' = pc
           \/ \E s \in {"place", "idle"} : pc' = [pc EXCEPT ![t] = s]
        /\ task' = task \/ \E d : task' = [task EXCEPT ![t] = d]
        /\ UNCHANGED <<held, exposure, snap, cur, told, unseen, stale, orders>>
    BY <1>2 DEF Judge, Skip, Finish, Goto, At, exchange, gate, work, history
  <2>2. /\ pc'[t] \in {"next", "place", "idle"}
        /\ \A u \in Thread \ {t} : pc'[u] = pc[u] /\ task'[u] = task[u]
    BY <2>1 DEF Types, TypeOK
  <2> QED
    BY <2>1, <2>2, KnownStep
<1>3. CASE PlaceFails(t) \/ PlaceLost(t)
  <2>1. /\ pc[t] = "place" /\ Done(t)
        /\ UNCHANGED <<held, exposure, snap, cur, told, unseen, stale>>
        /\ UNCHANGED orders \/ Posted(t)
    BY <1>3 DEF PlaceFails, PlaceLost, At, exchange, gate, history
  <2>2. \A u \in Thread : At(u, "poll") => orders'[cur[u]] = orders[cur[u]]
    <3>1. CASE UNCHANGED orders
      BY <3>1
    <3>2. CASE Posted(t)
      <4>1. placed \in Nat /\ \A u \in Thread : At(u, "poll") => cur[u] \in 1..placed
        BY Bounds DEF Types, TypeOK, Wiring, PollsOwn
      <4>2. /\ placed + 1 \in 1..MaxOrders
            /\ \A n \in OrderId : n # placed + 1 => orders'[n] = orders[n]
        BY <2>1, <3>2, PostedTypes DEF At
      <4> QED
        BY <4>1, <4>2, Bounds DEF OrderId
    <3> QED
      BY <2>1, <3>1, <3>2
  <2>3. /\ pc'[t] = "next"
        /\ \A u \in Thread \ {t} : pc'[u] = pc[u] /\ task'[u] = task[u]
    BY <2>1, DoneTypes DEF Types, TypeOK
  <2> QED
    BY <2>1, <2>2, <2>3, KnownStep
<1> QED
  BY <1>1, <1>2, <1>3

(* Nothing of a new order is matched.                                      *)
LEMMA KnownPlace ==
  ASSUME Types, Types', Known, NEW t \in Thread, Place(t)
  PROVE  Known'
<1>1. /\ At(t, "place") /\ Posted(t) /\ pc' = [pc EXCEPT ![t] = "poll"]
      /\ cur' = [cur EXCEPT ![t] = placed']
      /\ UNCHANGED <<held, exposure, snap, task, told, unseen, stale>>
  BY DEF Place, Goto, gate, history
<1>2. /\ pc'[t] = "poll" /\ cur'[t] = placed' /\ orders'[placed'].matched = 0
      /\ \A u \in Thread \ {t} : pc'[u] = pc[u] /\ cur'[u] = cur[u]
  BY <1>1, PostedTypes DEF Types, TypeOK
<1>3. \A u \in Thread \ {t} : At(u, "poll") => orders'[cur'[u]] = orders[cur[u]]
  BY <1>1, <1>2, PostedTypes, Bounds DEF Types, TypeOK, Wiring, PollsOwn, OrderId
<1>4. \A u \in Thread \ {t} : \A a, m : Part(u, a, m)' = Part(u, a, m)
  BY <1>1, <1>2, <1>3, PartSame
<1>5. \A a, m : Part(t, a, m)' = 0 /\ Part(t, a, m) = 0
  BY <1>1, <1>2 DEF Part, Pending, At
<1>6. \A m \in Market \ {} : Due(m)' <= Due(m)
  BY <1>1, <1>4, <1>5, DueSame, DueTypes
<1>7. /\ {} \in SUBSET Market /\ unseen \union {} \subseteq unseen'
      /\ \A u \in Thread : At(u, "refresh")' =>
           At(u, "refresh") /\ stale[u] \union {} \subseteq stale'[u]
  BY <1>1, <1>2 DEF At
<1> QED
  BY <1>1, <1>6, <1>7, KnownKept

(* What has been polled is to be told.                                     *)
LEMMA KnownPoll ==
  ASSUME Types, Types', Known, NEW t \in Thread, Poll(t)
  PROVE  Known'
<1>1. /\ At(t, "poll") /\ LetGo(t) /\ pc' = [pc EXCEPT ![t] = "tell"]
      /\ told' = [told EXCEPT ![t] = orders[cur[t]].matched]
      /\ UNCHANGED <<held, placed, exposure, snap, task, unseen, stale>>
  BY DEF Poll, Goto, gate, history
<1>2. /\ pc'[t] = "tell" /\ told'[t] = orders[cur[t]].matched
      /\ \A u \in Thread \ {t} : pc'[u] = pc[u] /\ told'[u] = told[u]
  BY <1>1 DEF Types, TypeOK
<1>3. \A u \in Thread : At(u, "poll")' =>
        u # t /\ At(u, "poll") /\ task'[u] = task[u]
  BY <1>1, <1>2 DEF At
<1>4. \A u \in Thread \ {t} : \A a, m : Part(u, a, m)' = Part(u, a, m)
  BY <1>1, <1>2, <1>3, LetGoTypes, PartSame
<1>5. \A a, m : Part(t, a, m)' = Part(t, a, m)
  BY <1>1, <1>2 DEF Part, Pending, At
<1>6. \A m \in Market \ {} : Due(m)' <= Due(m)
  BY <1>1, <1>4, <1>5, DueSame, DueTypes
<1>7. /\ {} \in SUBSET Market /\ unseen \union {} \subseteq unseen'
      /\ \A u \in Thread : At(u, "refresh")' =>
           At(u, "refresh") /\ stale[u] \union {} \subseteq stale'[u]
  BY <1>1, <1>2 DEF At
<1> QED
  BY <1>1, <1>6, <1>7, KnownKept

(* A buy whose fill is given up is missed; a sale only makes less due.     *)
LEMMA KnownGiveUp ==
  ASSUME Types, Types', Known, NEW t \in Thread, GiveUp(t)
  PROVE  Known'
<1>1. /\ At(t, "poll") /\ LetGo(t) /\ Done(t)
      /\ IF task[t].action = "buy" /\ orders[cur[t]].matched > 0
         THEN Missed(task[t].market) ELSE UNCHANGED history
      /\ UNCHANGED <<held, placed, exposure, snap, told>>
  BY DEF GiveUp, gate
<1>2. /\ pc' = [pc EXCEPT ![t] = "next"] /\ pc'[t] = "next"
      /\ \A u \in Thread \ {t} : pc'[u] = pc[u] /\ task'[u] = task[u]
  BY <1>1, DoneTypes DEF Types, TypeOK
<1>3. \A u \in Thread : At(u, "poll")' =>
        u # t /\ At(u, "poll") /\ task'[u] = task[u]
  BY <1>2 DEF At
<1>4. \A u \in Thread \ {t} : \A a, m : Part(u, a, m)' = Part(u, a, m)
  BY <1>1, <1>2, <1>3, LetGoTypes, PartSame
<1>5. \A a, m : Part(t, a, m)' = 0 /\ Part(t, a, m) \in Nat
  BY <1>2, PartTypes DEF Part
<1> DEFINE missed == task[t].action = "buy" /\ orders[cur[t]].matched > 0
           X == IF missed THEN {task[t].market} ELSE {}
<1>6. task[t].market \in Market
  BY <1>1 DEF Types, Wiring, HasTrade, Sending, At, Trade
<1>7. \A m \in Market \ X : Part(t, "buy", m) = 0
  BY <1>1, LetGoTypes, <1>3 DEF Part, Pending, At
<1>8. \A m \in Market \ X : Due(m)' <= Due(m)
  <2> SUFFICES ASSUME NEW m \in Market \ X PROVE Due(m)' <= Due(m)
    OBVIOUS
  <2> HIDE DEF X
  <2>1. Part("cycle", "buy", m)' = Part("cycle", "buy", m)
    BY <1>4, <1>5, <1>7 DEF Thread
  <2>2. /\ Part("cycle", "sell", m)' <= Part("cycle", "sell", m)
        /\ Part("sell", "sell", m)' <= Part("sell", "sell", m)
        /\ Part("cycle", "sell", m)' \in Nat /\ Part("sell", "sell", m)' \in Nat
    BY <1>4, <1>5, DueTypes DEF Thread
  <2> QED
    BY <1>1, <2>1, <2>2, DueTypes DEF Due
<1>9. /\ X \in SUBSET Market /\ unseen \union X \subseteq unseen'
      /\ \A u \in Thread : At(u, "refresh")' =>
           At(u, "refresh") /\ stale[u] \union X \subseteq stale'[u]
  <2>1. X \in SUBSET Market
    BY <1>6
  <2>2. \A u \in Thread : At(u, "refresh")' => At(u, "refresh")
    BY <1>2 DEF At
  <2>3. CASE missed
    BY <1>1, <2>1, <2>2, <2>3 DEF Missed
  <2>4. CASE ~missed
    BY <1>1, <2>1, <2>2, <2>4 DEF history
  <2> QED
    BY <2>3, <2>4
<1> HIDE DEF X
<1> QED
  BY <1>1, <1>8, <1>9, KnownKept


LEMMA KnownRedeem ==
  ASSUME Types, Types', Known, NEW x \in Market, Redeem(x)
  PROVE  Known'
<1>1. /\ held' = [held EXCEPT ![x] = 0]
      /\ UNCHANGED <<orders, exposure, pc, snap, task, cur, told, unseen, stale>>
  BY DEF Redeem, gate, work, history
<1>2. \A u \in Thread : \A a, m : Part(u, a, m)' = Part(u, a, m)
  BY <1>1, PartSame
<1>3. \A m \in Market : held'[m] <= held[m] /\ held'[m] \in Nat
  BY <1>1 DEF Types, TypeOK
<1>4. \A m \in Market \ {} : Due(m)' <= Due(m)
  BY <1>2, <1>3, DueTypes DEF Due
<1>5. {} \in SUBSET Market /\ unseen \union {} \subseteq unseen'
      /\ \A u \in Thread : At(u, "refresh")' =>
           At(u, "refresh") /\ stale[u] \union {} \subseteq stale'[u]
  BY <1>1 DEF At
<1> QED
  BY <1>1, <1>4, <1>5, KnownKept

(* Matched at once and not told: a buy is missed, a sale makes less due.   *)
LEMMA KnownPlaceSilent ==
  ASSUME Types, Types', Known, NEW t \in Thread, PlaceSilent(t)
  PROVE  Known'
<1> DEFINE d == task[t]
           X == IF d.action = "buy" THEN {d.market} ELSE {}
<1>1. /\ At(t, "place") /\ Done(t) /\ held' = Moved(d.action, d.market, d.usd)
      /\ IF d.action = "buy" THEN Missed(d.market) ELSE UNCHANGED history
      /\ UNCHANGED <<orders, exposure, snap, cur, told>>
  BY DEF PlaceSilent, gate
<1>2. d \in Trade /\ d.market \in Market /\ d.usd \in Nat
  BY <1>1 DEF Types, Wiring, HasTrade, Sending, At, Trade
<1>3. /\ pc'[t] = "next" /\ pc[t] = "place"
      /\ \A u \in Thread \ {t} : pc'[u] = pc[u] /\ task'[u] = task[u]
  BY <1>1, DoneTypes DEF Types, TypeOK, At
<1>4. \A u \in Thread : \A a, m : Part(u, a, m)' = Part(u, a, m)
  BY <1>1, <1>3, PartSame
<1>5. \A m \in Market \ X : held'[m] <= held[m] /\ held'[m] \in Int
  <2>1. /\ held \in [Market -> Nat] /\ d.usd \in Nat
        /\ held' = [held EXCEPT ![d.market] = IF d.action = "buy" THEN @ + d.usd
                                             ELSE @ - d.usd]
    BY <1>1, <1>2 DEF Moved, Types, TypeOK
  <2> HIDE DEF d
  <2> QED
    BY <2>1
<1> HIDE DEF d
<1>6. \A m \in Market \ X : Due(m)' <= Due(m)
  <2> HIDE DEF X
  <2> SUFFICES ASSUME NEW m \in Market \ X PROVE Due(m)' <= Due(m)
    OBVIOUS
  <2>1. /\ Part("cycle", "buy", m)' = Part("cycle", "buy", m)
        /\ Part("cycle", "sell", m)' = Part("cycle", "sell", m)
        /\ Part("sell", "sell", m)' = Part("sell", "sell", m)
    BY <1>4 DEF Thread
  <2> QED
    BY <1>5, <2>1, DueTypes DEF Due
<1>7. /\ X \in SUBSET Market /\ unseen \union X \subseteq unseen'
      /\ \A u \in Thread : At(u, "refresh")' =>
           At(u, "refresh") /\ stale[u] \union X \subseteq stale'[u]
  <2>1. \A u \in Thread : At(u, "refresh")' => At(u, "refresh")
    BY <1>3 DEF At
  <2>2. CASE d.action = "buy"
    BY <1>1, <1>2, <2>1, <2>2 DEF Missed
  <2>3. CASE d.action # "buy"
    BY <1>1, <1>2, <2>1, <2>3 DEF history
  <2> QED
    BY <2>2, <2>3
<1> HIDE DEF X
<1> QED
  BY <1>1, <1>6, <1>7, KnownKept

(* A fill of an order that is polled moves what is held and what is not    *)
(* told alike; of another, a buy is missed and a sale makes less due.      *)
LEMMA KnownFill ==
  ASSUME Types, Types', Known, NEW n \in OrderId, Fill(n)
  PROVE  Known'
<1> DEFINE r == orders[n]
           w == Watched(n)
           X == IF r.side = "buy" /\ ~w THEN {r.market} ELSE {}
<1>1. r \in Order /\ r.matched \in Nat /\ r.market \in Market /\ r.side \in {"buy", "sell"}
  BY Bounds DEF Types, TypeOK, Fill, Order
<1>2. PICK k \in 1..r.left :
        LET matched == IF w THEN r.matched + k ELSE 0 IN
        /\ held' = Moved(r.side, r.market, k)
        /\ orders' = [orders EXCEPT ![n] = Kept(Changed(r, r.left - k, matched), w)]
  BY DEF Fill
<1>3. /\ IF r.side = "buy" /\ ~w THEN Missed(r.market) ELSE UNCHANGED history
      /\ UNCHANGED <<exposure, pc, snap, task, cur, told>>
  BY DEF Fill, gate, work
<1>4. k \in Nat /\ r.left - k \in Nat
  BY <1>1 DEF Order
<1>5. /\ \A o \in OrderId : o # n => orders'[o] = orders[o]
      /\ w => orders'[n].matched = r.matched + k
  <2> DEFINE matched == IF w THEN r.matched + k ELSE 0
             rec == Kept(Changed(r, r.left - k, matched), w)
  <2>1. w => rec.matched = r.matched + k
    <3>1. matched \in Nat /\ w \in BOOLEAN /\ (w => matched = r.matched + k)
      BY <1>1, <1>4 DEF Watched
    <3> HIDE DEF matched, w
    <3> QED
      BY <1>1, <1>4, <3>1, ChangedOrders
  <2>2. orders' = [orders EXCEPT ![n] = rec]
    BY <1>2
  <2> HIDE DEF rec
  <2> QED
    BY <2>1, <2>2 DEF Types, TypeOK
<1>6. \A u \in Thread : ~(At(u, "poll") /\ cur[u] = n) =>
        \A a, m : Part(u, a, m)' = Part(u, a, m)
  <2> SUFFICES ASSUME NEW u \in Thread, ~(At(u, "poll") /\ cur[u] = n)
               PROVE  \A a, m : Part(u, a, m)' = Part(u, a, m)
    OBVIOUS
  <2>1. At(u, "poll") => orders'[cur'[u]].matched = orders[cur[u]].matched
    <3> SUFFICES ASSUME At(u, "poll")
                 PROVE  orders'[cur'[u]].matched = orders[cur[u]].matched
      OBVIOUS
    <3>1. cur[u] \in 1..placed /\ placed \in 0..MaxOrders
      BY DEF Types, TypeOK, Wiring, PollsOwn
    <3>2. cur[u] \in OrderId /\ cur[u] # n
      BY <3>1, Bounds DEF OrderId
    <3>3. cur' = cur
      BY <1>3
    <3> HIDE DEF r, w, X
    <3> QED
      BY <3>2, <3>3, <1>5
  <2> QED
    BY <1>3, <2>1, PartSame
<1>7. \A m \in Market : held'[m] = IF m = r.market
                          THEN IF r.side = "buy" THEN held[m] + k ELSE held[m] - k
                          ELSE held[m]
  BY <1>1, <1>2 DEF Moved, Types, TypeOK
<1>8. CASE w
  <2>1. PICK t \in Thread : At(t, "poll") /\ cur[t] = n
    BY <1>8 DEF Watched
  <2>2. r.side = task[t].action /\ r.market = task[t].market
    BY <2>1 DEF Types, Wiring, PollsOwn
  <2>3. \A u \in Thread \ {t} : \A a, m : Part(u, a, m)' = Part(u, a, m)
    BY <1>6, <2>1 DEF Types, Wiring, Apart
  <2>4. \A a, m : /\ Part(t, a, m) \in Nat
                  /\ Part(t, a, m)' = IF a = r.side /\ m = r.market
                                      THEN Part(t, a, m) + k ELSE Part(t, a, m)
    BY <1>1, <1>3, <1>4, <1>5, <1>8, <2>1, <2>2 DEF Part, Pending, At
  <2>5. r.side = "buy" => t = "cycle"
    BY <2>1, <2>2 DEF Types, Wiring, SellsOnly, Sending, At, Thread
  <2>6. \A m \in Market \ {} : Due(m)' <= Due(m)
    <3> SUFFICES ASSUME NEW m \in Market PROVE Due(m)' <= Due(m)
      OBVIOUS
    <3>0. t = "cycle" \/ t = "sell"
      BY DEF Thread
    <3>1. CASE m # r.market
      <4>1. /\ held'[m] = held[m]
            /\ Part("cycle", "buy", m)' = Part("cycle", "buy", m)
            /\ Part("cycle", "sell", m)' = Part("cycle", "sell", m)
            /\ Part("sell", "sell", m)' = Part("sell", "sell", m)
        BY <1>7, <2>3, <2>4, <3>1 DEF Thread
      <4> QED
        BY <4>1, DueTypes DEF Due
    <3>2. CASE m = r.market /\ r.side = "buy"
      <4>1. /\ held'[m] = held[m] + k
            /\ Part("cycle", "buy", m)' = Part("cycle", "buy", m) + k
            /\ Part("cycle", "sell", m)' = Part("cycle", "sell", m)
            /\ Part("sell", "sell", m)' = Part("sell", "sell", m)
        BY <1>7, <2>3, <2>4, <2>5, <3>2 DEF Thread
      <4> QED
        BY <1>4, <4>1, DueTypes DEF Due
    <3>3. CASE m = r.market /\ r.side = "sell"
      <4>1. /\ held'[m] = held[m] - k
            /\ Part("cycle", "buy", m)' = Part("cycle", "buy", m)
            /\ \/ /\ Part("cycle", "sell", m)' = Part("cycle", "sell", m) + k
                  /\ Part("sell", "sell", m)' = Part("sell", "sell", m)
               \/ /\ Part("cycle", "sell", m)' = Part("cycle", "sell", m)
                  /\ Part("sell", "sell", m)' = Part("sell", "sell", m) + k
        BY <1>7, <2>3, <2>4, <3>0, <3>3 DEF Thread
      <4> QED
        BY <1>4, <4>1, DueTypes DEF Due
    <3> QED
      BY <1>1, <3>1, <3>2, <3>3
  <2>7. /\ {} \in SUBSET Market /\ unseen \union {} \subseteq unseen'
        /\ \A u \in Thread : At(u, "refresh")' =>
             At(u, "refresh") /\ stale[u] \union {} \subseteq stale'[u]
    BY <1>3, <1>8 DEF At, history
  <2> QED
    BY <1>3, <2>6, <2>7, KnownKept
<1>9. CASE ~w
  <2>1. \A u \in Thread : \A a, m : Part(u, a, m)' = Part(u, a, m)
    BY <1>6, <1>9 DEF Watched
  <2>2. \A m \in Market \ X : held'[m] <= held[m] /\ held'[m] \in Int
    BY <1>1, <1>4, <1>7, <1>9 DEF Types, TypeOK
  <2>3. \A m \in Market \ X : Due(m)' <= Due(m)
    <3> HIDE DEF X
    <3> QED
      BY <2>1, <2>2, DueTypes DEF Due, Thread
  <2>4. /\ X \in SUBSET Market /\ unseen \union X \subseteq unseen'
        /\ \A u \in Thread : At(u, "refresh")' =>
             At(u, "refresh") /\ stale[u] \union X \subseteq stale'[u]
    <3>1. \A u \in Thread : At(u, "refresh")' => At(u, "refresh")
      BY <1>3 DEF At
    <3>2. CASE r.side = "buy"
      BY <1>1, <1>3, <1>9, <3>1, <3>2 DEF Missed
    <3>3. CASE r.side # "buy"
      BY <1>1, <1>3, <3>1, <3>3 DEF history
    <3> QED
      BY <3>2, <3>3
  <2> HIDE DEF X
  <2> QED
    BY <1>3, <2>3, <2>4, KnownKept
<1> QED
  BY <1>8, <1>9


LEMMA KnownClose ==
  ASSUME Types, Types', Known, NEW n \in OrderId, Close(n)
  PROVE  Known'
<1> DEFINE r == orders[n]
           w == Watched(n)
           rec == Kept(Changed(r, 0, r.matched), w)
<1>1. r \in Order /\ r.matched \in Nat /\ 0 \in Nat /\ w \in BOOLEAN
  BY Bounds DEF Types, TypeOK, Close, Order, Watched
<1>2. /\ orders' = [orders EXCEPT ![n] = rec]
      /\ UNCHANGED <<held, exposure, pc, snap, task, cur, told, unseen, stale>>
  BY DEF Close, gate, work, history
<1>3. w => rec \in Order /\ rec.matched = r.matched
  BY <1>1, ChangedOrders
<1> HIDE DEF rec
<1>4. /\ \A o \in OrderId : o # n => orders'[o] = orders[o]
      /\ w => orders'[n].matched = r.matched
  BY <1>2, <1>3 DEF Types, TypeOK
<1>5. \A u \in Thread : At(u, "poll") => orders'[cur'[u]].matched = orders[cur[u]].matched
  BY <1>2, <1>4, Bounds DEF Types, TypeOK, Wiring, PollsOwn, OrderId, Watched
<1>6. \A u \in Thread : \A a, m : Part(u, a, m)' = Part(u, a, m)
  BY <1>2, <1>5, PartSame
<1>7. \A m \in Market \ {} : Due(m)' <= Due(m)
  BY <1>2, <1>6, DueSame, DueTypes
<1>8. {} \in SUBSET Market /\ unseen \union {} \subseteq unseen'
      /\ \A u \in Thread : At(u, "refresh")' =>
           At(u, "refresh") /\ stale[u] \union {} \subseteq stale'[u]
  BY <1>2 DEF At
<1> QED
  BY <1>2, <1>7, <1>8, KnownKept

(* What a refresh reads is due, but for sales that will be told again; and *)
(* the cycle that read nothing knows of no market.                         *)
LEMMA KnownRead ==
  ASSUME Types, Types', Known, NEW t \in Thread, At(t, "idle"),
         Read(t) \/ (ReadFails /\ t = "cycle")
  PROVE  Known'
<1>1. /\ pc' = [pc EXCEPT ![t] = "refresh"]
      /\ UNCHANGED <<held, orders, exposure, task, cur, told, unseen>>
  BY DEF Read, ReadFails, Goto, exchange, gate
<1>2. /\ pc[t] = "idle" /\ pc'[t] = "refresh"
      /\ \A u \in Thread \ {t} : pc'[u] = pc[u]
  BY <1>1 DEF Types, TypeOK, At
<1>3. \A u \in Thread : \A a, m : Part(u, a, m)' = Part(u, a, m)
  BY <1>1, <1>2, PartSame
<1>4. \A m : Due(m)' = Due(m)
  BY <1>1, <1>3, DueSame
<1>5. GateKnows'
  BY <1>1, <1>4 DEF Known, GateKnows
<1>6. \A u \in Thread \ {t} : snap'[u] = snap[u] /\ stale'[u] = stale[u]
  <2>1. \E f, g : /\ snap' = [snap EXCEPT ![t] = f]
                  /\ stale' = [stale EXCEPT ![t] = g]
    BY DEF Read, ReadFails
  <2> QED
    BY <2>1 DEF Types, TypeOK
<1>7. CASE Read(t)
  <2>1. snap'[t] = held /\ stale'[t] = HalfTold
    BY <1>7 DEF Types, TypeOK, Read
  <2>2. ASSUME NEW m \in Market \ HalfTold, NEW u \in Thread
        PROVE  Part(u, "sell", m) = 0
    <3>1. CASE At(u, "poll") /\ task[u].action = "sell" /\ task[u].market = m
      <4>1. orders[cur[u]].matched \in Nat /\ ~(orders[cur[u]].matched > 0)
        BY <2>2, <3>1 DEF HalfTold, Types, Wiring, PollsOwn, Order
      <4> QED
        BY <3>1, <4>1 DEF Part, Pending
    <3>2. CASE At(u, "tell") /\ task[u].action = "sell" /\ task[u].market = m
      BY <2>2, <3>2 DEF HalfTold
    <3>3. CASE ~(pc[u] \in {"poll", "tell"} /\ task[u].action = "sell" /\ task[u].market = m)
      BY <3>3 DEF Part
    <3> QED
      BY <3>1, <3>2, <3>3 DEF At
  <2>3. \A m \in Market \ stale'[t] : Due(m) <= snap'[t][m]
    <3> SUFFICES ASSUME NEW m \in Market \ HalfTold PROVE Due(m) <= held[m]
      BY <2>1
    <3>1. Part("cycle", "sell", m) = 0 /\ Part("sell", "sell", m) = 0
      BY <2>2 DEF Thread
    <3> QED
      BY <3>1, DueTypes DEF Due
  <2>4. ReadKnows'
    BY <1>2, <1>4, <1>6, <2>3 DEF Known, ReadKnows, At
  <2> QED
    BY <1>5, <2>4 DEF Known
<1>8. CASE ReadFails /\ t = "cycle"
  <2>1. stale'[t] = Market
    BY <1>8 DEF Types, TypeOK, ReadFails
  <2>2. ReadKnows'
    BY <1>2, <1>4, <1>6, <2>1 DEF Known, ReadKnows, At
  <2> QED
    BY <1>5, <2>2 DEF Known
<1> QED
  BY <1>7, <1>8

LEMMA KnownSetPositions ==
  ASSUME Types, Types', Known, NEW t \in Thread, SetPositions(t)
  PROVE  Known'
<1>1. /\ At(t, "refresh") /\ exposure' = snap[t] /\ unseen' = stale[t]
      /\ stale' = [stale EXCEPT ![t] = {}] /\ snap' = [snap EXCEPT ![t] = NoShares]
      /\ \E s \in {"decide", "next", "idle"} : pc' = [pc EXCEPT ![t] = s]
      /\ UNCHANGED <<held, orders, task, cur, told>>
  BY DEF SetPositions, exchange, Goto
<1>2. /\ pc'[t] \in {"decide", "next", "idle"} /\ pc[t] = "refresh"
      /\ \A u \in Thread \ {t} : /\ pc'[u] = pc[u] /\ snap'[u] = snap[u]
                                 /\ stale'[u] = stale[u]
  BY <1>1 DEF Types, TypeOK, At
<1>3. \A u \in Thread : \A a, m : Part(u, a, m)' = Part(u, a, m)
  BY <1>1, <1>2, PartSame
<1>4. \A m : Due(m)' = Due(m)
  BY <1>1, <1>3, DueSame
<1>5. GateKnows'
  BY <1>1, <1>4 DEF Known, GateKnows, ReadKnows
<1>6. ReadKnows'
  BY <1>2, <1>4 DEF Known, ReadKnows, At
<1> QED
  BY <1>5, <1>6 DEF Known


(* What is told is no longer due to be told; positions read before a buy   *)
(* was told do not have it.                                                *)
LEMMA KnownTell ==
  ASSUME Types, Types', Known, NEW t \in Thread, Tell(t)
  PROVE  Known'
<1> DEFINE x == task[t].market
           a0 == task[t].action
           k == told[t]
<1>1. /\ At(t, "tell") /\ Done(t) /\ told' = [told EXCEPT ![t] = 0]
      /\ UNCHANGED <<held, orders, snap, cur, unseen>>
  BY DEF Tell, exchange
<1>2. IF a0 = "buy"
      THEN /\ AddMarketExposure(x, k)
           /\ stale' = [u \in Thread |-> IF At(u, "refresh") THEN stale[u] \union {x}
                                                            ELSE stale[u]]
      ELSE ReduceMarketExposure(x, k) /\ stale' = stale
  BY DEF Tell
<1>3. x \in Market /\ k \in Nat /\ a0 \in {"buy", "sell"}
  BY <1>1 DEF Types, TypeOK, Wiring, HasTrade, Sending, At, Trade
<1>4. /\ pc[t] = "tell" /\ pc'[t] = "next"
      /\ \A u \in Thread \ {t} : pc'[u] = pc[u] /\ task'[u] = task[u] /\ told'[u] = told[u]
  BY <1>1, DoneTypes DEF Types, TypeOK, At
<1>5. \A u \in Thread \ {t} : \A a, m : Part(u, a, m)' = Part(u, a, m)
  BY <1>1, <1>4, PartSame
<1>6. \A a, m : Part(t, a, m)' = 0 /\ Part(t, a, m) = IF a = a0 /\ m = x THEN k ELSE 0
  BY <1>4 DEF Part, Pending, At
<1>7. a0 = "buy" => t = "cycle"
  BY <1>4 DEF Types, Wiring, SellsOnly, Sending, Thread
<1>8. \A m \in Market :
        Due(m)' = IF m # x THEN Due(m)
                  ELSE IF a0 = "buy" THEN Due(m) + k ELSE Due(m) - k
  <2> SUFFICES ASSUME NEW m \in Market
               PROVE  Due(m)' = IF m # x THEN Due(m)
                                ELSE IF a0 = "buy" THEN Due(m) + k ELSE Due(m) - k
    OBVIOUS
  <2> HIDE DEF x, a0, k
  <2>1. t = "cycle" \/ t = "sell"
    BY DEF Thread
  <2>2. CASE m # x
    <3>1. /\ Part("cycle", "buy", m)' = Part("cycle", "buy", m)
          /\ Part("cycle", "sell", m)' = Part("cycle", "sell", m)
          /\ Part("sell", "sell", m)' = Part("sell", "sell", m)
      BY <1>5, <1>6, <2>2 DEF Thread
    <3> QED
      BY <1>1, <2>2, <3>1, DueTypes DEF Due
  <2>3. CASE m = x /\ a0 = "buy"
    <3>1. /\ Part("cycle", "buy", m) = k /\ Part("cycle", "buy", m)' = 0
          /\ Part("cycle", "sell", m)' = Part("cycle", "sell", m)
          /\ Part("sell", "sell", m)' = Part("sell", "sell", m)
      BY <1>5, <1>6, <1>7, <2>3 DEF Thread
    <3> QED
      BY <1>1, <1>3, <2>3, <3>1, DueTypes DEF Due
  <2>4. CASE m = x /\ a0 = "sell"
    <3>1. /\ Part("cycle", "buy", m)' = Part("cycle", "buy", m)
          /\ \/ /\ Part("cycle", "sell", m) = k /\ Part("cycle", "sell", m)' = 0
                /\ Part("sell", "sell", m)' = Part("sell", "sell", m)
             \/ /\ Part("sell", "sell", m) = k /\ Part("sell", "sell", m)' = 0
                /\ Part("cycle", "sell", m)' = Part("cycle", "sell", m)
      BY <1>5, <1>6, <2>1, <2>4 DEF Thread
    <3> QED
      BY <1>1, <1>3, <2>4, <3>1, DueTypes DEF Due
  <2> QED
    BY <1>3, <2>2, <2>3, <2>4
<1> HIDE DEF x, a0, k
<1>9. \A m \in Market : Due(m) \in Int /\ exposure[m] \in Nat
  BY DueTypes DEF Types, TypeOK
<1>10. \A m \in Market :
         exposure'[m] = IF m # x THEN exposure[m]
                        ELSE IF a0 = "buy" THEN exposure[m] + k
                        ELSE IF exposure[m] > k THEN exposure[m] - k ELSE 0
  <2>1. CASE a0 = "buy"
    BY <1>2, <2>1 DEF AddMarketExposure, Types, TypeOK
  <2>2. CASE a0 # "buy"
    BY <1>2, <2>2 DEF ReduceMarketExposure, Types, TypeOK
  <2> QED
    BY <2>1, <2>2
<1>11. GateKnows'
  <2> SUFFICES ASSUME NEW m \in Market \ unseen PROVE Due(m)' <= exposure'[m]
    BY <1>1 DEF GateKnows
  <2>1. Due(m) <= exposure[m]
    BY DEF Known, GateKnows
  <2> QED
    BY <1>3, <1>8, <1>9, <1>10, <2>1
<1>12. ReadKnows'
  <2> SUFFICES ASSUME NEW u \in Thread, At(u, "refresh")', NEW m \in Market \ stale'[u]
               PROVE  Due(m)' <= snap[u][m]
    BY <1>1 DEF ReadKnows
  <2>1. At(u, "refresh") /\ stale[u] \subseteq stale'[u] /\ (a0 = "buy" => x \in stale'[u])
    BY <1>2, <1>4 DEF At
  <2>2. Due(m) <= snap[u][m] /\ snap[u][m] \in Nat /\ (a0 = "buy" => m # x)
    BY <2>1 DEF Known, ReadKnows, Types, TypeOK
  <2> QED
    BY <1>3, <1>8, <1>9, <2>2
<1> QED
  BY <1>11, <1>12 DEF Known

LEMMA KnownNext == Types /\ Types' /\ Known /\ [Next]_vars => Known'
<1> SUFFICES ASSUME Types, Types', Known, [Next]_vars PROVE Known'
  OBVIOUS
<1> "cycle" \in Thread /\ "sell" \in Thread
  BY DEF Thread
<1>1. ASSUME NEW n \in OrderId, Fill(n) \/ Close(n) PROVE Known'
  BY <1>1, KnownFill, KnownClose
<1>2. ASSUME NEW m \in Market, Redeem(m) PROVE Known'
  BY <1>2, KnownRedeem
<1>3. CASE ReadPositions \/ ReadFails \/ SellPosition
  <2>1. \/ At("cycle", "idle") /\ (Read("cycle") \/ ReadFails)
        \/ At("sell", "idle") /\ Read("sell")
    BY <1>3 DEF ReadPositions, ReadFails, SellPosition
  <2> QED
    BY <2>1, KnownRead
<1>4. CASE Decide \/ ModelFails
  BY <1>4, KnownQuiet
<1>5. ASSUME NEW t \in Thread,
             \/ SetPositions(t) \/ Judge(t) \/ Skip(t) \/ Finish(t)
             \/ PlaceFails(t) \/ PlaceLost(t) \/ Place(t) \/ PlaceSilent(t)
             \/ Poll(t) \/ GiveUp(t) \/ Tell(t)
      PROVE  Known'
  BY <1>5, KnownSetPositions, KnownQuiet, KnownPlace, KnownPlaceSilent, KnownPoll,
     KnownGiveUp, KnownTell
<1>6. CASE UNCHANGED vars
  <2>1. UNCHANGED <<held, orders, exposure, pc, snap, task, cur, told, unseen, stale>>
    BY <1>6 DEF vars, exchange, gate, work, history
  <2>2. \A u \in Thread : \A a, m : Part(u, a, m)' = Part(u, a, m)
    BY <2>1, PartSame
  <2>3. \A m : Due(m)' = Due(m)
    BY <2>1, <2>2, DueSame
  <2> QED
    BY <2>1, <2>3 DEF Known, GateKnows, ReadKnows, At
<1> QED
  BY <1>1, <1>2, <1>3, <1>4, <1>5, <1>6 DEF Next

(* A buy that the checks let through fits, when the gate knows what is     *)
(* held.                                                                   *)
LEMMA AllowedFits ==
  ASSUME Types, Known, At("cycle", "next"), NEW d \in Trade, BuyAllowed(d)
  PROVE  BuyFits(d)
<1>1. d.market \in Market /\ d.usd \in Nat
  BY DEF Trade
<1>2. \A m \in Market \ unseen : held[m] <= exposure[m]
  <2> SUFFICES ASSUME NEW m \in Market \ unseen PROVE held[m] <= exposure[m]
    OBVIOUS
  <2>1. Due(m) <= exposure[m] /\ exposure[m] \in Nat
    BY DEF Known, GateKnows, Types, TypeOK
  <2>2. Part("cycle", "buy", m) = 0
    BY DEF Part, At
  <2> QED
    BY <2>1, <2>2, DueTypes DEF Due
<1>3. d.market \notin unseen => held[d.market] + d.usd <= MaxMarket
  BY <1>1, <1>2, LimitAssumption DEF BuyAllowed, Types, TypeOK
<1>4. ASSUME unseen = {}, held[d.market] = 0,
             Cardinality(OpenMarketSlugs) <= MaxOpenMarkets
      PROVE  Cardinality(HeldMarkets) < MaxOpenMarkets
  <2>1. HeldMarkets \subseteq OpenMarketSlugs /\ d.market \notin HeldMarkets
    BY <1>2, <1>4 DEF HeldMarkets, OpenMarketSlugs, Types, TypeOK
  <2>2. IsFiniteSet(OpenMarketSlugs) /\ Cardinality(OpenMarketSlugs) \in Nat
    BY LimitAssumption, FS_Subset, FS_CardinalityType DEF OpenMarketSlugs
  <2>3. CASE d.market \in OpenMarketSlugs
    <3> DEFINE S == OpenMarketSlugs \ {d.market}
    <3>1. IsFiniteSet(S) /\ Cardinality(S) = Cardinality(OpenMarketSlugs) - 1
      BY <2>2, <2>3, FS_RemoveElement
    <3>2. HeldMarkets \in SUBSET S
      BY <2>1
    <3> HIDE DEF S
    <3>3. Cardinality(HeldMarkets) <= Cardinality(S) /\ Cardinality(HeldMarkets) \in Nat
      BY <3>1, <3>2, FS_Subset, FS_CardinalityType
    <3> QED
      BY <1>4, <2>2, <3>1, <3>3, LimitAssumption
  <2>4. CASE d.market \notin OpenMarketSlugs
    <3>1. Cardinality(OpenMarketSlugs) < MaxOpenMarkets
      BY <2>4 DEF BuyAllowed
    <3>2. /\ Cardinality(HeldMarkets) <= Cardinality(OpenMarketSlugs)
          /\ Cardinality(HeldMarkets) \in Nat
      BY <2>1, <2>2, FS_Subset, FS_CardinalityType
    <3> QED
      BY <2>2, <3>1, <3>2, LimitAssumption
  <2> QED
    BY <2>3, <2>4
<1> QED
  BY <1>3, <1>4 DEF BuyFits

LEMMA BuysFitStep ==
  ASSUME Types, Known, [Next]_vars, At("cycle", "next"), pc'["cycle"] = "place",
         task'["cycle"].action = "buy"
  PROVE  BuyFits(task'["cycle"])
<1>0. "cycle" \in Thread /\ pc["cycle"] = "next"
  BY DEF Thread, At
<1>1. Judge("cycle")
  <2>1. Next
    BY <1>0 DEF vars
  <2>2. ASSUME NEW t \in Thread, NEW s, pc' = [pc EXCEPT ![t] = s]
        PROVE  t = "cycle" /\ s = "place"
    BY <1>0, <2>2 DEF Types, TypeOK
  <2>3. ASSUME NEW t \in Thread, Judge(t) PROVE t = "cycle"
    BY <2>2, <2>3 DEF Judge, Goto
  <2>4. ASSUME \E n \in OrderId : Fill(n) \/ Close(n) PROVE FALSE
    BY <1>0, <2>4 DEF Fill, Close
  <2>5. ASSUME \E m \in Market : Redeem(m) PROVE FALSE
    BY <1>0, <2>5 DEF Redeem
  <2>6. ASSUME ReadPositions \/ ReadFails \/ SellPosition PROVE FALSE
    <3>1. \E t \in Thread : pc' = [pc EXCEPT ![t] = "refresh"]
      BY <2>6 DEF ReadPositions, ReadFails, SellPosition, Read, Goto, Thread
    <3> QED
      BY <2>2, <3>1
  <2>7. ASSUME Decide \/ ModelFails PROVE FALSE
    BY <1>0, <2>7 DEF Decide, ModelFails, At
  <2>8. ASSUME NEW t \in Thread,
               \/ SetPositions(t) \/ Skip(t) \/ Finish(t)
               \/ PlaceFails(t) \/ PlaceLost(t) \/ Place(t) \/ PlaceSilent(t)
               \/ Poll(t) \/ GiveUp(t) \/ Tell(t)
        PROVE  FALSE
    <3>1. CASE Skip(t)
      BY <1>0, <3>1 DEF Skip
    <3>2. CASE ~Skip(t)
      <4>1. \E s \in {"decide", "next", "idle", "poll", "tell"} :
              pc' = [pc EXCEPT ![t] = s]
        BY <2>8, <3>2 DEF SetPositions, Finish, PlaceFails, PlaceLost, Place, PlaceSilent,
           Poll, GiveUp, Tell, Done, Goto
      <4> QED
        BY <2>2, <4>1
    <3> QED
      BY <3>1, <3>2
  <2> QED
    BY <2>1, <2>3, <2>4, <2>5, <2>6, <2>7, <2>8 DEF Next
<1>2. First("cycle") \in Trade
  BY <1>1, TakenTypes, <1>0 DEF Judge
<1>3. task'["cycle"] = First("cycle") /\ BuyAllowed(First("cycle"))
  BY <1>0, <1>1 DEF Judge, Types, TypeOK
<1> QED
  BY <1>2, <1>3, AllowedFits

(* gate.go CheckDecision: a buy the gate lets through fits what the trader *)
(* holds by then, though other fills came and a manual sell refreshed the  *)
(* gate in between, in every market of which the gate has missed nothing.  *)
THEOREM BuysFitAlways == Spec => BuysFit
<1>1. Init => Types /\ Known
  BY TypesInit, KnownInit
<1>2. Types /\ Known /\ [Next]_vars => (Types /\ Known)'
  BY TypesNext, KnownNext
<1>3. Types /\ Known /\ [Next]_vars
        => [(At("cycle", "next") /\ pc'["cycle"] = "place"
               /\ task'["cycle"].action = "buy") => BuyFits(task'["cycle"])]_vars
  BY BuysFitStep
<1> QED
  BY <1>1, <1>2, <1>3, PTL DEF Spec, BuysFit
-----------------------------------------------------------------------------
(* A list of rules and model together names each market once.              *)
Below == OpToRel(<, Nat)

LEMMA BelowIs == \A x, y \in Nat : x < y => <<x, y>> \in Below
  BY DEF Below, OpToRel

(* Of some indices of a list one is the last.                              *)
LEMMA LastIndex ==
  ASSUME NEW n \in Nat, NEW I \in SUBSET (1..n), I # {}
  PROVE  \E i \in I : \A j \in I : j <= i
<1> DEFINE T == {n - i : i \in I}
<1>1. \A i \in I : i \in Nat /\ n - i \in Nat
  OBVIOUS
<1>2. T \subseteq Nat /\ T # {}
  BY <1>1
<1>3. IsWellFoundedOn(Below, Nat)
  BY NatLessThanWellFounded DEF Below
<1>4. PICK t \in T : \A y \in T : ~(<<y, t>> \in Below)
  BY <1>2, <1>3, WFMin
<1>5. PICK i \in I : t = n - i
  BY <1>4
<1>6. ASSUME NEW j \in I PROVE j <= i
  <2>1. n - j \in T
    OBVIOUS
  <2>2. ~(n - j < n - i)
    BY <1>1, <1>4, <1>5, <2>1, BelowIs
  <2> QED
    BY <1>1, <2>2
<1> QED
  BY <1>6

LEMMA BySlugOfMarket ==
  ASSUME NEW f \in RuleAnswers, NEW s \in Lists(Sayable),
         NEW m \in DOMAIN BySlug(f, s)
  PROVE  BySlug(f, s)[m].market = m
<1>1. CASE m \in Named(s)
  <2> DEFINE I == {i \in DOMAIN s : s[i].market = m}
             Latest(i) == /\ s[i].market = m
                          /\ \A j \in DOMAIN s : s[j].market = m => j <= i
  <2>1. PICK n \in Nat : s \in [1..n -> Sayable]
    BY BoundAssumption DEF Lists
  <2>2. I \in SUBSET (1..n) /\ I # {}
    BY <1>1, <2>1 DEF Named
  <2>3. \E i \in I : \A j \in I : j <= i
    BY <2>1, <2>2, LastIndex
  <2>4. \E i \in DOMAIN s : Latest(i)
    BY <2>3
  <2>5. LastOf(m, s) = s[CHOOSE i \in DOMAIN s : Latest(i)]
    BY DEF LastOf
  <2>6. LastOf(m, s).market = m
    BY <2>4, <2>5
  <2>7. BySlug(f, s)[m] = LastOf(m, s)
    BY <1>1 DEF BySlug
  <2> QED
    BY <2>6, <2>7
<1>2. CASE m \notin Named(s)
  <2>1. m \in DOMAIN f /\ BySlug(f, s)[m] = f[m]
    BY <1>2 DEF BySlug
  <2> QED
    BY <2>1 DEF RuleAnswers
<1> QED
  BY <1>1, <1>2

LEMMA PlansNameOnce ==
  ASSUME mode # "ai", NEW s \in Plans, NEW i \in DOMAIN s, NEW j \in DOMAIN s, i # j
  PROVE  s[i].market # s[j].market
<1>1. PICK f \in RuleAnswers, l \in Lists(Sayable) :
        s \in SetToSeqs(Merged(f, l) \intersect Trades)
  BY DEF Plans, HybridPlans
<1> DEFINE S == Merged(f, l) \intersect Trades
           g == BySlug(f, l)
<1>2. /\ s \in [1..Cardinality(S) -> S]
      /\ \A a, b \in 1..Cardinality(S) : a # b => s[a] # s[b]
  BY <1>1 DEF SetToSeqs
<1>3. s[i] \in Merged(f, l) /\ s[j] \in Merged(f, l) /\ s[i] # s[j]
  BY <1>2
<1>4. PICK a \in DOMAIN g, b \in DOMAIN g : s[i] = g[a] /\ s[j] = g[b]
  BY <1>3 DEF Merged
<1>5. g[a].market = a /\ g[b].market = b
  BY BySlugOfMarket
<1> QED
  BY <1>3, <1>4, <1>5
-----------------------------------------------------------------------------
(* A cycle holds a trade only while it sends it.                           *)
HandsFree == pc["cycle"] \notin Sending => task["cycle"] = NoTask
Once == HandsFree /\ OneTradePerMarket

LEMMA OnceInit == Init => Once
  BY DEF Init, Once, HandsFree, OneTradePerMarket, Thread, Sending

LEMMA OnceKept ==
  ASSUME OneTradePerMarket, UNCHANGED mode, todo'["cycle"] = todo["cycle"],
         task'["cycle"] \in {task["cycle"], NoTask}
  PROVE  OneTradePerMarket'
  BY DEF OneTradePerMarket

(* The trade taken up is the first of the list.                            *)
LEMMA OnceTaken ==
  ASSUME Types, OneTradePerMarket, UNCHANGED mode, todo["cycle"] # <<>>,
         Taken("cycle"),
         task'["cycle"] = NoTask \/ task'["cycle"].market = First("cycle").market
  PROVE  OneTradePerMarket'
<1> DEFINE s == todo["cycle"]
<1>1. s \in Seq(Trade) /\ s # <<>> /\ todo'["cycle"] = Tail(s)
  BY DEF Types, TypeOK, Taken, Thread
<1>2. SUFFICES ASSUME mode # "ai", NEW i \in DOMAIN Tail(s)
               PROVE  /\ task'["cycle"] # NoTask =>
                           Tail(s)[i].market # task'["cycle"].market
                      /\ \A j \in DOMAIN Tail(s) \ {i} :
                           Tail(s)[i].market # Tail(s)[j].market
  BY <1>1 DEF OneTradePerMarket
<1>3. \A k \in DOMAIN Tail(s) :
        k \in Nat /\ k + 1 \in DOMAIN s /\ Tail(s)[k] = s[k + 1] /\ k + 1 # 1
  BY <1>1
<1>4. 1 \in DOMAIN s /\ First("cycle") = s[1]
  BY <1>1 DEF First
<1>5. \A a, b \in DOMAIN s : a # b => s[a].market # s[b].market
  BY <1>2 DEF OneTradePerMarket
<1> HIDE DEF s
<1>6. Tail(s)[i].market # First("cycle").market
  BY <1>2, <1>3, <1>4, <1>5
<1>7. \A j \in DOMAIN Tail(s) \ {i} : Tail(s)[i].market # Tail(s)[j].market
  BY <1>2, <1>3, <1>5
<1> QED
  BY <1>6, <1>7

LEMMA OnceNext == Types /\ Once /\ [Next]_vars => Once'
<1> SUFFICES ASSUME Types, Once, [Next]_vars PROVE Once'
  OBVIOUS
<1> USE DEF Once
<1>0. "cycle" \in Thread /\ "sell" \in Thread
  BY DEF Thread
<1>1. ASSUME UNCHANGED <<mode, pc, todo, task>> PROVE Once'
  BY <1>1, OnceKept DEF HandsFree
<1>2. CASE UNCHANGED vars
  BY <1>1, <1>2 DEF vars, work
<1>3. CASE \E n \in OrderId : Fill(n) \/ Close(n)
  BY <1>1, <1>3 DEF Fill, Close, work
<1>4. CASE \E m \in Market : Redeem(m)
  BY <1>1, <1>4 DEF Redeem, work
<1>5. CASE ReadPositions \/ ReadFails
  <2>1. UNCHANGED <<mode, todo, task>> /\ pc["cycle"] = "idle"
    BY <1>5 DEF ReadPositions, ReadFails, Read, At
  <2>2. HandsFree'
    BY <2>1 DEF HandsFree, Sending
  <2> QED
    BY <2>1, <2>2, OnceKept
<1>6. CASE SellPosition
  <2>1. /\ UNCHANGED <<mode, task>> /\ pc'["cycle"] = pc["cycle"]
        /\ todo'["cycle"] = todo["cycle"]
    BY <1>0, <1>6 DEF SellPosition, Read, Goto, Types, TypeOK
  <2>2. HandsFree'
    BY <2>1 DEF HandsFree
  <2> QED
    BY <2>1, <2>2, OnceKept
<1>7. CASE Decide
  <2>1. PICK s \in Plans : todo' = [todo EXCEPT !["cycle"] = s]
    BY <1>7 DEF Decide
  <2>2. UNCHANGED <<mode, task>> /\ pc["cycle"] = "decide"
    BY <1>7 DEF Decide, At
  <2>3. task'["cycle"] = NoTask /\ HandsFree'
    BY <2>2 DEF HandsFree, Sending
  <2>4. todo'["cycle"] = s
    BY <1>0, <2>1 DEF Types, TypeOK
  <2>5. ASSUME mode # "ai", NEW i \in DOMAIN s, NEW j \in DOMAIN s \ {i}
        PROVE  s[i].market # s[j].market
    BY <2>5, PlansNameOnce
  <2>6. OneTradePerMarket'
    BY <2>2, <2>3, <2>4, <2>5 DEF OneTradePerMarket
  <2> QED
    BY <2>3, <2>6
<1>8. CASE ModelFails
  <2>1. UNCHANGED <<mode, todo, task>> /\ pc["cycle"] = "decide"
    BY <1>8 DEF ModelFails, At, work
  <2>2. HandsFree'
    BY <2>1 DEF HandsFree, Sending
  <2> QED
    BY <2>1, <2>2, OnceKept
<1>9. ASSUME NEW t \in Thread,
             \/ SetPositions(t) \/ Judge(t) \/ Skip(t) \/ Finish(t)
             \/ PlaceFails(t) \/ PlaceLost(t) \/ Place(t) \/ PlaceSilent(t)
             \/ Poll(t) \/ GiveUp(t) \/ Tell(t)
      PROVE  Once'
  <2>1. UNCHANGED mode
    BY <1>9 DEF SetPositions, Judge, Skip, Finish, PlaceFails, PlaceLost, Place,
       PlaceSilent, Poll, GiveUp, Tell
  <2>2. CASE t # "cycle"
    <3>1. todo'["cycle"] = todo["cycle"]
      BY <1>0, <1>9, <2>2 DEF Types, TypeOK, SetPositions, Judge, Skip, Finish,
         PlaceFails, PlaceLost, Place, PlaceSilent, Poll, GiveUp, Tell, Taken, work
    <3>2. task'["cycle"] = task["cycle"]
      BY <1>0, <1>9, <2>2 DEF Types, TypeOK, SetPositions, Judge, Skip, Finish,
         PlaceFails, PlaceLost, Place, PlaceSilent, Poll, GiveUp, Tell, Done, work
    <3>3. pc'["cycle"] = pc["cycle"]
      BY <1>0, <1>9, <2>2 DEF Types, TypeOK, SetPositions, Judge, Skip, Finish,
         PlaceFails, PlaceLost, Place, PlaceSilent, Poll, GiveUp, Tell, Done, Goto
    <3>4. HandsFree'
      BY <3>2, <3>3 DEF HandsFree
    <3> QED
      BY <2>1, <3>1, <3>2, <3>4, OnceKept
  <2>3. CASE t = "cycle" /\ Judge(t)
    <3>1. /\ todo["cycle"] # <<>> /\ Taken("cycle") /\ pc'["cycle"] = "place"
      BY <1>0, <2>3 DEF Judge, Goto, Types, TypeOK
    <3>2. task'["cycle"].market = First("cycle").market
      BY <1>0, <2>3 DEF Judge, Types, TypeOK
    <3>3. HandsFree'
      BY <3>1 DEF HandsFree, Sending
    <3> QED
      BY <2>1, <3>1, <3>2, <3>3, OnceTaken
  <2>4. CASE t = "cycle" /\ Skip(t)
    <3>1. /\ todo["cycle"] # <<>> /\ Taken("cycle") /\ UNCHANGED <<pc, task>>
          /\ pc["cycle"] = "next"
      BY <2>4 DEF Skip, At
    <3>2. task["cycle"] = NoTask
      BY <3>1 DEF HandsFree, Sending
    <3>3. HandsFree'
      BY <3>1 DEF HandsFree
    <3> QED
      BY <2>1, <3>1, <3>2, <3>3, OnceTaken
  <2>5. CASE t = "cycle" /\ (SetPositions(t) \/ Finish(t))
    <3>1. /\ UNCHANGED <<todo, task>> /\ pc["cycle"] \in {"refresh", "next"}
      BY <2>5 DEF SetPositions, Finish, At, work
    <3>2. HandsFree'
      BY <3>1 DEF HandsFree, Sending
    <3> QED
      BY <2>1, <3>1, <3>2, OnceKept
  <2>6. CASE t = "cycle" /\ (Place(t) \/ Poll(t))
    <3>1. UNCHANGED <<todo, task>> /\ pc'["cycle"] \in {"poll", "tell"}
      BY <1>0, <2>6 DEF Place, Poll, Goto, Types, TypeOK
    <3>2. HandsFree'
      BY <3>1 DEF HandsFree, Sending
    <3> QED
      BY <2>1, <3>1, <3>2, OnceKept
  <2>7. CASE t = "cycle" /\ (PlaceFails(t) \/ PlaceLost(t) \/ PlaceSilent(t)
                               \/ GiveUp(t) \/ Tell(t))
    <3>1. UNCHANGED todo /\ Done("cycle")
      BY <2>7 DEF PlaceFails, PlaceLost, PlaceSilent, GiveUp, Tell
    <3>2. task'["cycle"] = NoTask
      BY <1>0, <3>1 DEF Done, Types, TypeOK
    <3>3. HandsFree'
      BY <3>2 DEF HandsFree
    <3> QED
      BY <2>1, <3>1, <3>2, <3>3, OnceKept
  <2> QED
    BY <1>9, <2>2, <2>3, <2>4, <2>5, <2>6, <2>7
<1> QED
  BY <1>2, <1>3, <1>4, <1>5, <1>6, <1>7, <1>8, <1>9 DEF Next

(* cycle.go mergeDecisions, rules.go EvaluateRules: unless the model alone *)
(* decides, no market is traded twice in a cycle, however long the model's *)
(* answer is, how often it names a market and what the rules say of it.    *)
THEOREM OneTradePerMarketAlways == Spec => []OneTradePerMarket
<1>1. Init => Types /\ Once
  BY TypesInit, OnceInit
<1>2. Types /\ Once /\ [Next]_vars => (Types /\ Once)'
  BY TypesNext, OnceNext
<1>3. Types /\ Once => OneTradePerMarket
  BY DEF Once
<1> QED
  BY <1>1, <1>2, <1>3, PTL DEF Spec
=============================================================================
