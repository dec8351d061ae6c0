------------------------------ MODULE RiskGate ------------------------------
(***************************************************************************)
(* The decisions of one live prediction trader and the risk gate that      *)
(* judges them: a cycle reads the positions, refreshes the gate, takes the *)
(* decisions of rules, model or both, and sends the trades the gate lets   *)
(* through, telling the gate of each fill it sees. A manual sell does the  *)
(* same for one trade, beside the cycle and without a lock, while the      *)
(* exchange fills the orders on its own schedule.                          *)
(*                                                                         *)
(* A share is worth one unit at its mark and at every limit price, and the *)
(* shares of the two outcomes of a market are added up, as the gate's      *)
(* limits do. Daily volume, order size, price, confidence and edge only    *)
(* ever refuse a trade (OrderVolume has the volume): they refuse by choice *)
(* here. A decision to redeem, which the gate is not told of, is one of    *)
(* the ways a market is emptied at any time; one to hold does nothing.     *)
(***************************************************************************)
EXTENDS Integers, FiniteSets, SequencesExt

CONSTANTS
  Market,           \* market slugs
  Quantity,         \* sizes decisions ask for
  Modes,            \* strategy modes of the trader, see Plans
  MaxMarket,        \* risk.Config.MaxPositionMarketUsd
  MaxOpenMarkets,   \* risk.Config.MaxOpenMarkets
  FirstHeld,        \* bound: shares of a market at the start
  MaxDecisions,     \* bound: decisions of one answer of the model
  MaxOrders,        \* bound: orders of a behaviour
  MaxShares,        \* bound: shares of a market the exchange sells
  Env               \* behaviours of the environment (EnvKind)

EnvKind ==
  {"query_error",   \* GetOutcomePositions may fail
   "poll_error",    \* GetOrderStatus may fail
   "silent_match",  \* an order matched at once is answered without shares
   "lost_reply"}    \* POST /order may fail after the exchange took the order

Thread == {"cycle", "sell"}
OrderId == 1..MaxOrders
NoOrder == 0

ASSUME LimitAssumption ==
  /\ IsFiniteSet(Market)
  /\ Quantity \subseteq Nat \ {0}
  /\ MaxMarket \in Nat \ {0} /\ MaxOpenMarkets \in Nat
ASSUME BoundAssumption ==
  /\ FirstHeld \in Nat /\ MaxDecisions \in Nat /\ MaxOrders \in Nat /\ MaxShares \in Nat
  /\ Modes \subseteq {"ai", "hybrid"} /\ Env \subseteq EnvKind

Trade == [action : {"buy", "sell"}, market : Market, usd : Nat]

VARIABLES
  mode,         \* effectiveMode of the trader
  held,         \* market -> the shares of its outcomes on the exchange
  orders,       \* the orders open on the exchange or being polled
  placed,       \* how many orders there have been
  exposure,     \* gate.marketExposure
  byToken,      \* the markets with a position in gate.positionsByToken
  pc,           \* thread -> its next step
  snap,         \* thread -> the positions it has read and not installed
  todo,         \* thread -> the trades it still has to execute
  task,         \* thread -> the trade it sends or polls
  cur,          \* thread -> the order it polls
  told,         \* thread -> the fill it is about to tell the gate
  \* history, read by properties only
  unseen,       \* markets of which the gate has missed something
  stale         \* thread -> the same for the positions it has read

gate == <<exposure, byToken>>
exchange == <<held, orders, placed>>
work == <<snap, todo, task, cur, told>>
history == <<unseen, stale>>
vars == <<mode, exchange, gate, pc, work, history>>

NoShares == [m \in Market |-> 0]
Order ==
  [side : {"buy", "sell"}, market : Market, left : Nat, matched : Nat]
Unused == [side |-> "none"]
Changed(r, left, matched) ==
  [side |-> r.side, market |-> r.market, left |-> left, matched |-> matched]
NoTask == [action |-> "none"]

Goto(t, s) == pc' = [pc EXCEPT ![t] = s]
At(t, s) == pc[t] = s
Watched(o) == \E t \in Thread : At(t, "poll") /\ cur[t] = o

(* An order that is closed and that nobody polls is of no interest.        *)
Kept(rec, watched) == IF rec.left > 0 \/ watched THEN rec ELSE Unused

(* The gate, and the positions some thread has read, miss a fill of m.     *)
Missed(m) ==
  /\ unseen' = unseen \union {m}
  /\ stale' = [t \in Thread |->
       IF At(t, "refresh") THEN stale[t] \union {m} ELSE stale[t]]

Init ==
  /\ mode \in Modes
  /\ held \in [Market -> 0..FirstHeld] /\ orders = [o \in OrderId |-> Unused] /\ placed = 0
  /\ exposure = NoShares /\ byToken = {}
  /\ pc = [t \in Thread |-> "idle"]
  /\ snap = [t \in Thread |-> NoShares]
  /\ todo = [t \in Thread |-> <<>>]
  /\ task = [t \in Thread |-> NoTask]
  /\ cur = [t \in Thread |-> NoOrder]
  /\ told = [t \in Thread |-> 0]
  /\ unseen = {m \in Market : held[m] > 0} /\ stale = [t \in Thread |-> {}]
-----------------------------------------------------------------------------
(* The exchange on its own.                                                *)

Moved(side, m, k) ==
  [held EXCEPT ![m] = IF side = "buy" THEN @ + k ELSE @ - k]

CanTrade(side, m, k) ==
  IF side = "buy" THEN held[m] + k <= MaxShares ELSE held[m] >= k

(* A fill of an order nobody polls is one the gate is not told of; a sale  *)
(* only leaves it thinking that more is held.                              *)
Fill(n) ==
  /\ orders[n] # Unused
  /\ LET r == orders[n] IN
     \E k \in 1..r.left :
       /\ CanTrade(r.side, r.market, k)
       /\ held' = Moved(r.side, r.market, k)
       /\ LET matched == IF Watched(n) THEN r.matched + k ELSE 0
              after == Changed(r, r.left - k, matched)
          IN orders' = [orders EXCEPT ![n] = Kept(after, Watched(n))]
       /\ IF r.side = "buy" /\ ~Watched(n) THEN Missed(r.market)
          ELSE UNCHANGED history
  /\ UNCHANGED <<mode, placed, gate, pc, work>>

(* Cancelled by a request of the API, or expired.                          *)
Close(n) ==
  /\ orders[n] # Unused /\ orders[n].left > 0
  /\ LET after == Changed(orders[n], 0, orders[n].matched)
     IN orders' = [orders EXCEPT ![n] = Kept(after, Watched(n))]
  /\ UNCHANGED <<mode, held, placed, gate, pc, work, history>>

(* tryAutoRedeem, executeRedeem or a request: the gate is not told.        *)
Redeem(m) ==
  /\ held[m] > 0 /\ held' = [held EXCEPT ![m] = 0]
  /\ UNCHANGED <<mode, orders, placed, gate, pc, work, history>>

-----------------------------------------------------------------------------
(* The positions the gate works with.                                      *)

(* Markets with a sale that is part of the positions read now and will be  *)
(* taken off the gate once more when its thread tells it.                  *)
HalfTold ==
  {task[t].market : t \in {u \in Thread : task[u].action = "sell" /\
     (\/ At(u, "poll") /\ orders[cur[u]].matched > 0
      \/ At(u, "tell"))}}

Read(t) ==
  /\ snap' = [snap EXCEPT ![t] = held]
  /\ stale' = [stale EXCEPT ![t] = HalfTold]
  /\ Goto(t, "refresh")
  /\ UNCHANGED <<mode, exchange, gate, task, cur, told, unseen>>

ReadPositions == At("cycle", "idle") /\ Read("cycle") /\ UNCHANGED todo

(* The cycle ignores the error and goes on with no positions at all.       *)
ReadFails ==
  /\ "query_error" \in Env /\ At("cycle", "idle")
  /\ snap' = [snap EXCEPT !["cycle"] = NoShares]
  /\ stale' = [stale EXCEPT !["cycle"] = Market]
  /\ Goto("cycle", "refresh")
  /\ UNCHANGED <<mode, exchange, gate, todo, task, cur, told, unseen>>

(* SellPosition, which returns when it cannot read.                        *)
SellPosition ==
  /\ At("sell", "idle") /\ Read("sell")
  /\ \E m \in Market, q \in Quantity :
       todo' = [todo EXCEPT !["sell"] =
         <<[action |-> "sell", market |-> m, usd |-> q]>>]

(* Gate.SetPositions; a manual sell ends when its position is not there.   *)
SetPositions(t) ==
  /\ At(t, "refresh")
  /\ exposure' = snap[t]
  /\ byToken' = {m \in Market : snap[t][m] > 0}
  /\ unseen' = stale[t] /\ stale' = [stale EXCEPT ![t] = {}]
  /\ snap' = [snap EXCEPT ![t] = NoShares]
  /\ \/ t = "cycle" /\ Goto(t, "decide") /\ UNCHANGED todo
     \/ /\ t = "sell" /\ snap[t][todo[t][1].market] > 0
        /\ Goto(t, "next") /\ UNCHANGED todo
     \/ /\ t = "sell" /\ snap[t][todo[t][1].market] = 0
        /\ Goto(t, "idle") /\ todo' = [todo EXCEPT ![t] = <<>>]
  /\ UNCHANGED <<mode, exchange, task, cur, told>>

-----------------------------------------------------------------------------
(* The decisions of a cycle.                                               *)

(* sortDecisions: the lists come in any order, so any order with the sells *)
(* first can come out of it.                                               *)
Sorted(s) ==
  \A i, j \in DOMAIN s : s[i].action = "buy" /\ s[j].action = "sell" => j < i

(* What decisions may say; buy_yes and buy_no are alike.                   *)
Trades == [action : {"buy", "sell"}, market : Market, usd : Quantity]
Sayable == Trades \union [action : {"redeem", "hold"}, market : Market]

(* EvaluateRules: slugAction admits one trade of a market.                 *)
RuleAnswers ==
  UNION {{f \in [M -> Trades] :
            \A m \in M : f[m].market = m} : M \in SUBSET Market}

(* The model may name a market again and again.                            *)
Lists(S) == UNION {[1..n -> S] : n \in 0..MaxDecisions}

Named(s) == {s[i].market : i \in DOMAIN s}
LastOf(m, s) ==
  s[CHOOSE i \in DOMAIN s : /\ s[i].market = m
                            /\ \A j \in DOMAIN s : s[j].market = m => j <= i]

(* mergeDecisions: the model, holding too, overrides the rules.            *)
BySlug(rules, ai) ==
  [m \in DOMAIN rules \union Named(ai) |->
     IF m \in Named(ai) THEN LastOf(m, ai) ELSE rules[m]]

(* Mutant: the two answers are executed one after the other.               *)
BothAnswers(rules, ai) ==
  {rules[m] : m \in DOMAIN rules} \union {ai[i] : i \in DOMAIN ai}

Merged(rules, ai) ==
  LET f == BySlug(rules, ai) IN {f[m] : m \in DOMAIN f}

(* The trades of the lists a cycle may get: with the rules in it, an order *)
(* of a map by market. The mode "rules" is "hybrid" with a silent model.   *)
HybridPlans ==
  UNION {SetToSeqs(Merged(f, s) \intersect Trades) :
           f \in RuleAnswers, s \in Lists(Sayable)}
Plans == IF mode = "ai" THEN Lists(Trades) ELSE HybridPlans

Decide ==
  /\ At("cycle", "decide")
  /\ \E s \in Plans : Sorted(s) /\ todo' = [todo EXCEPT !["cycle"] = s]
  /\ Goto("cycle", "next")
  /\ UNCHANGED <<mode, exchange, gate, snap, task, cur, told, history>>

(* The model fails: nothing is executed, of the rules neither.             *)
ModelFails ==
  /\ At("cycle", "decide")
  /\ Goto("cycle", "idle")
  /\ UNCHANGED <<mode, exchange, gate, work, history>>

-----------------------------------------------------------------------------
(* executeDecisionWithOutcome.                                             *)

OpenMarketSlugs == {m \in Market : exposure[m] > 0}
First(t) == todo[t][1]
Taken(t) == todo' = [todo EXCEPT ![t] = Tail(@)]

(* CheckOpenMarketsForBuy and CheckMarketExposure.                         *)
BuyAllowed(d) ==
  /\ d.market \in OpenMarketSlugs \/ Cardinality(OpenMarketSlugs) < MaxOpenMarkets
  /\ exposure[d.market] + d.usd <= MaxMarket

(* normalizeSellDecision asks for a position, and caps the sale at its size. *)
SellAllowed(d) == d.market \in byToken

Judge(t) ==
  /\ At(t, "next") /\ todo[t] # <<>>
  /\ LET d == First(t) IN
     \/ d.action = "buy" /\ BuyAllowed(d) /\ task' = [task EXCEPT ![t] = d]
     \/ /\ d.action = "sell" /\ SellAllowed(d)
        /\ \E q \in 1..d.usd :
             task' = [task EXCEPT ![t] =
               [action |-> "sell", market |-> d.market, usd |-> q]]
  /\ Goto(t, "place") /\ Taken(t)
  /\ UNCHANGED <<mode, exchange, gate, snap, cur, told, history>>

(* A trade refused by these checks or by those left out.                   *)
Skip(t) ==
  /\ At(t, "next") /\ todo[t] # <<>>
  /\ Taken(t)
  /\ UNCHANGED <<mode, exchange, gate, pc, snap, task, cur, told, history>>

Finish(t) ==
  /\ At(t, "next") /\ todo[t] = <<>>
  /\ Goto(t, "idle")
  /\ UNCHANGED <<mode, exchange, gate, work, history>>

-----------------------------------------------------------------------------
(* executeTradeOutcome.                                                    *)

Done(t) == Goto(t, "next") /\ task' = [task EXCEPT ![t] = NoTask]

Posted(t) ==
  /\ placed < MaxOrders /\ placed' = placed + 1
  /\ orders' = [orders EXCEPT ![placed'] =
       [side |-> task[t].action, market |-> task[t].market,
        left |-> task[t].usd, matched |-> 0]]

(* PlaceLimitOrder fails, or the venue rejects the order.                  *)
PlaceFails(t) ==
  /\ At(t, "place") /\ Done(t)
  /\ UNCHANGED <<mode, exchange, gate, snap, todo, cur, told, history>>

(* It fails after the exchange took the order.                             *)
PlaceLost(t) ==
  /\ "lost_reply" \in Env /\ At(t, "place") /\ Done(t) /\ Posted(t)
  /\ UNCHANGED <<mode, held, gate, snap, todo, cur, told, history>>

Place(t) ==
  /\ At(t, "place") /\ Goto(t, "poll") /\ Posted(t)
  /\ cur' = [cur EXCEPT ![t] = placed']
  /\ UNCHANGED <<mode, held, gate, snap, todo, task, told, history>>

(* Matched whole, but the answer has no shares in it: the fill counts zero. *)
PlaceSilent(t) ==
  /\ "silent_match" \in Env /\ At(t, "place") /\ Done(t)
  /\ placed < MaxOrders /\ placed' = placed + 1
  /\ LET d == task[t] IN
     /\ CanTrade(d.action, d.market, d.usd)
     /\ held' = Moved(d.action, d.market, d.usd)
     /\ IF d.action = "buy" THEN Missed(d.market) ELSE UNCHANGED history
  /\ UNCHANGED <<mode, orders, gate, snap, todo, cur, told>>

(* An order matched at once with its shares is one that the first look at  *)
(* it finds filled.                                                        *)
LetGo(t) ==
  /\ LET r == orders[cur[t]]
     IN orders' = [orders EXCEPT ![cur[t]] = Kept(Changed(r, r.left, 0), FALSE)]
  /\ cur' = [cur EXCEPT ![t] = NoOrder]

Poll(t) ==
  /\ At(t, "poll") /\ orders[cur[t]].matched > 0
  /\ told' = [told EXCEPT ![t] = orders[cur[t]].matched]
  /\ Goto(t, "tell") /\ LetGo(t)
  /\ UNCHANGED <<mode, held, placed, gate, snap, todo, task, history>>

GiveUp(t) ==
  /\ At(t, "poll") /\ Done(t) /\ LetGo(t)
  /\ orders[cur[t]].matched > 0 => "poll_error" \in Env
  /\ IF task[t].action = "buy" /\ orders[cur[t]].matched > 0
     THEN Missed(task[t].market) ELSE UNCHANGED history
  /\ UNCHANGED <<mode, held, placed, gate, snap, todo, told>>

(* Mutant: a fill is left to the next refresh.                             *)
LeftToRefresh(m, usd) == UNCHANGED exposure

(* Gate.AddMarketExposure.                                                 *)
AddMarketExposure(m, usd) == exposure' = [exposure EXCEPT ![m] = @ + usd]

(* Gate.ReduceMarketExposure: what reaches zero is forgotten.              *)
ReduceMarketExposure(m, usd) ==
  exposure' = [exposure EXCEPT ![m] = IF @ > usd THEN @ - usd ELSE 0]

(* applyFillExposure. Positions read before a buy and installed after this *)
(* make the gate forget it.                                                *)
Tell(t) ==
  /\ At(t, "tell") /\ Done(t)
  /\ IF task[t].action = "buy"
     THEN /\ AddMarketExposure(task[t].market, told[t])
          /\ stale' = [u \in Thread |-> IF At(u, "refresh")
               THEN stale[u] \union {task[t].market} ELSE stale[u]]
     ELSE /\ ReduceMarketExposure(task[t].market, told[t])
          /\ UNCHANGED stale
  /\ told' = [told EXCEPT ![t] = 0]
  /\ UNCHANGED <<mode, exchange, byToken, snap, todo, cur, unseen>>

-----------------------------------------------------------------------------
Next ==
  \/ \E n \in OrderId : Fill(n) \/ Close(n)
  \/ \E m \in Market : Redeem(m)
  \/ ReadPositions \/ ReadFails
  \/ SellPosition \/ Decide \/ ModelFails
  \/ \E t \in Thread :
       \/ SetPositions(t) \/ Judge(t) \/ Skip(t) \/ Finish(t)
       \/ PlaceFails(t) \/ PlaceLost(t) \/ Place(t) \/ PlaceSilent(t)
       \/ Poll(t) \/ GiveUp(t) \/ Tell(t)

Spec == Init /\ [][Next]_vars

-----------------------------------------------------------------------------
(* Every variable keeps to its type: no sale leaves less than nothing, and *)
(* only trades are executed.                                               *)
TypeOK ==
  /\ mode \in Modes
  /\ held \in [Market -> Nat]
  /\ orders \in [OrderId -> Order \union {Unused}] /\ placed \in 0..MaxOrders
  /\ exposure \in [Market -> Nat] /\ byToken \subseteq Market
  /\ pc \in [Thread -> {"idle", "refresh", "decide", "next",
                        "place", "poll", "tell"}]
  /\ snap \in [Thread -> [Market -> Nat]]
  /\ todo \in [Thread -> Seq(Trade)]
  /\ task \in [Thread -> Trade \union {NoTask}]
  /\ cur \in [Thread -> OrderId \union {NoOrder}]
  /\ told \in [Thread -> Nat]
  /\ unseen \subseteq Market /\ stale \in [Thread -> SUBSET Market]

HeldMarkets == {m \in Market : held[m] > 0}

(* gate.go CheckDecision: a buy the gate lets through fits what the trader *)
(* really holds, whatever the manual sell installed beside the cycle: with *)
(* it the market is within MaxPositionMarketUsd, unless the gate has missed *)
(* something of that market since its last refresh; and a market that is   *)
(* new to the trader is one of at most MaxOpenMarkets, unless the gate has *)
(* missed anything or knows of too many already.                           *)
BuyFits(d) ==
  /\ d.market \notin unseen => held[d.market] + d.usd <= MaxMarket
  /\ (/\ unseen = {} /\ held[d.market] = 0
      /\ Cardinality(OpenMarketSlugs) <= MaxOpenMarkets)
        => Cardinality(HeldMarkets) < MaxOpenMarkets

BuysFit ==
  [][(At("cycle", "next") /\ pc'["cycle"] = "place"
        /\ task'["cycle"].action = "buy") => BuyFits(task'["cycle"])]_vars

(* cycle.go mergeDecisions, rules.go EvaluateRules: unless the model alone *)
(* decides, a cycle trades each market once, so that it never buys both    *)
(* outcomes of a market, or buys what it has just sold.                    *)
OneTradePerMarket ==
  mode # "ai" =>
    LET s == todo["cycle"] IN
    \A i \in DOMAIN s :
      /\ task["cycle"] # NoTask => s[i].market # task["cycle"].market
      /\ \A j \in DOMAIN s \ {i} : s[i].market # s[j].market
=============================================================================
