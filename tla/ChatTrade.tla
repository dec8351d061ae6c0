------------------------------ MODULE ChatTrade ------------------------------
(***************************************************************************)
(* Trades asked for in the chat: the execute_trade tool judges a trade and *)
(* keeps it until the user confirms it; the confirmation takes it out,     *)
(* judges it anew on whichever trader runs then, and sends the order. Each *)
(* request of the chat endpoint is a thread, and confirmations do not take *)
(* the lock that keeps the turns of a user apart. The lock is left out:    *)
(* proposals meet in the map of pending trades only.                       *)
(*                                                                         *)
(* Leverage, the least size and the strategy's own limit can only refuse a *)
(* trade, and a call that fails does the same: a trade may be refused at   *)
(* every judgement. Equity is what GetAccountInfo answers: most adapters   *)
(* keep a balance for 15 seconds, and the answer moves when they ask for   *)
(* it anew.                                                                *)
(***************************************************************************)
EXTENDS Naturals, FiniteSets

CONSTANTS
  Thread,          \* requests of the chat endpoint under way at a time
  Trader,          \* the traders of the manager
  Quantity,        \* quantities asked for
  Price,           \* prices of the symbol
  Equity,          \* what a trader's account may be said to be worth
  LargeNotional,   \* tradeLargeOrderNotionalUSDT
  HardNotional,    \* tradeHardMaxOrderNotionalUSDT
  Life,            \* five minutes, in ticks
  Nobody,          \* no trader
  MaxTrades,       \* bound: trades proposed
  MaxMoves,        \* bound: changes of price, equity or running traders
  LastTime,        \* bound: the last tick
  MaxCrashes       \* bound: restarts of the process

ASSUME ChatAssumption ==
  /\ Nobody \notin Trader /\ IsFiniteSet(Trader)
  /\ Quantity \subseteq Nat \ {0} /\ Price \subseteq Nat \ {0}
  /\ Equity \subseteq Nat /\ Life \in Nat
  /\ LargeNotional \in Nat /\ HardNotional \in Nat
ASSUME ChatBounds ==
  MaxTrades \in Nat /\ MaxMoves \in Nat /\ LastTime \in Nat /\ MaxCrashes \in Nat

(* The tool's ids are times in nanoseconds: no two are the same.           *)
Id == 1..MaxTrades
Kind == {"open", "close"}

VARIABLES
  now, price, equity, running, \* the world: clock, market, what the adapters
              \* answer for the accounts, traders
  made,       \* trades proposed so far
  trade,      \* id -> [kind, qty, at, large], the TradeAction
  pending,    \* ids in pendingTrades
  thread      \* thread -> what the request does, see Job

(* What only the properties and the bounds read.                           *)
VARIABLES
  told,       \* ids the user was asked to confirm
  judgedOn,   \* id -> the trader it was judged on when it was proposed
  still,      \* ids proposed since the world last moved
  orders,     \* id -> orders sent for it
  contested,  \* ids two confirmations held at once
  moves, crashes

world == <<price, equity, running>>
book == <<made, trade, pending>>
notes == <<told, judgedOn, still, orders, contested>>
counts == <<moves, crashes>>
vars == <<now, world, book, thread, notes, counts>>

(* at: the next step; for: what the request is about; on: the trader       *)
(* picked; quote: the price read; loud: it said "confirm large"; calm: the *)
(* world has not moved since it came.                                      *)
Idle == [at |-> "idle", for |-> "propose", id |-> 0, on |-> Nobody, quote |-> 0,
         loud |-> FALSE, calm |-> FALSE]
Job == [at : {"idle", "remove", "resolve", "quote", "judge", "add", "order"},
        for : {"propose", "confirm"}, id : 0..MaxTrades, on : Trader \union {Nobody},
        quote : Nat, loud : BOOLEAN, calm : BOOLEAN]
Blank == [kind |-> "open", qty |-> 0, at |-> 0, large |-> FALSE]

TypeOK ==
  /\ now \in 0..LastTime
  /\ price \in Price /\ equity \in [Trader -> Equity] /\ running \subseteq Trader
  /\ made \in 0..MaxTrades
  /\ trade \in [Id -> [kind : Kind, qty : Nat, at : 0..LastTime, large : BOOLEAN]]
  /\ pending \subseteq told /\ told \subseteq 1..made
  /\ thread \in [Thread -> Job]
  /\ judgedOn \in [Id -> Trader \union {Nobody}] /\ still \subseteq 1..made
  /\ orders \in [Id -> Nat] /\ contested \subseteq told
  /\ moves \in 0..MaxMoves /\ crashes \in 0..MaxCrashes

Init ==
  /\ now = 0
  /\ price \in Price /\ equity \in [Trader -> Equity] /\ running \in SUBSET Trader
  /\ made = 0 /\ trade = [i \in Id |-> Blank] /\ pending = {}
  /\ thread = [r \in Thread |-> Idle]
  /\ told = {} /\ judgedOn = [i \in Id |-> Nobody] /\ still = {}
  /\ orders = [i \in Id |-> 0] /\ contested = {}
  /\ moves = 0 /\ crashes = 0

-----------------------------------------------------------------------------
(* The world.                                                              *)

Tick ==
  /\ now < LastTime /\ now' = now + 1
  /\ UNCHANGED <<world, book, thread, notes, counts>>

Move ==
  /\ moves < MaxMoves /\ moves' = moves + 1
  /\ \/ price' \in Price \ {price} /\ UNCHANGED <<equity, running>>
     \/ \E x \in Trader, e \in Equity :
          equity' = [equity EXCEPT ![x] = e] /\ UNCHANGED <<price, running>>
     \/ running' \in SUBSET Trader /\ UNCHANGED <<price, equity>>
  /\ still' = {}
  /\ thread' = [r \in Thread |-> [thread[r] EXCEPT !.calm = FALSE]]
  /\ UNCHANGED <<now, book, told, judgedOn, orders, contested, crashes>>

-----------------------------------------------------------------------------
(* Judging a trade, when it is proposed and again when it is confirmed.    *)

Doing(r, s) == thread[r].at = s
Trade(r) == trade[thread[r].id]
Go(r, s) == thread' = [thread EXCEPT ![r].at = s]
End(r) == thread' = [thread EXCEPT ![r] = Idle]
Goal(r) == IF thread[r].for = "propose" THEN "add" ELSE "order"

(* resolveTradeExecutionContext takes the first running trader it meets in *)
(* a map, whose order is random. A close is not judged any further.        *)
Resolve(r) ==
  /\ Doing(r, "resolve")
  /\ \/ running = {} /\ End(r) /\ UNCHANGED judgedOn
     \/ \E x \in running :
          /\ thread' = [thread EXCEPT ![r] = [@ EXCEPT !.on = x,
               !.at = IF Trade(r).kind = "open" THEN "quote" ELSE Goal(r)]]
          /\ judgedOn' = IF thread[r].for = "propose"
                         THEN [judgedOn EXCEPT ![thread[r].id] = x] ELSE judgedOn
  /\ UNCHANGED <<now, world, book, told, still, orders, contested, counts>>

Quote(r) ==
  /\ Doing(r, "quote")
  /\ \/ thread' = [thread EXCEPT ![r] = [@ EXCEPT !.at = "judge", !.quote = price]]
     \/ End(r)
  /\ UNCHANGED <<now, world, book, notes, counts>>

(* The hard caps, and a quarter of the equity.                             *)
Fits(value, e) == value <= HardNotional /\ value <= e
IsLarge(value, e) == 4 * value >= e \/ value >= LargeNotional

(* Mutant: only the proposal is judged.                                    *)
JudgeOnce(r) ==
  LET value == Trade(r).qty * thread[r].quote
      e == equity[thread[r].on]
      fits == thread[r].for = "confirm" \/ Fits(value, e)
  IN
  /\ Doing(r, "judge")
  /\ trade' = IF fits /\ IsLarge(value, e)
              THEN [trade EXCEPT ![thread[r].id].large = TRUE] ELSE trade
  /\ IF fits THEN Go(r, Goal(r)) ELSE End(r)
  /\ UNCHANGED <<now, world, made, pending, notes, counts>>

(* The account is read after the price. The flag is set on the trade       *)
(* itself, also when it is about to be executed and nobody asks it again.  *)
Judge(r) ==
  LET value == Trade(r).qty * thread[r].quote
      e == equity[thread[r].on]
      fits == Fits(value, e)
  IN
  /\ Doing(r, "judge")
  /\ \/ /\ trade' = IF fits /\ IsLarge(value, e)
                    THEN [trade EXCEPT ![thread[r].id].large = TRUE] ELSE trade
        /\ IF fits THEN Go(r, Goal(r)) ELSE End(r)
     \/ End(r) /\ UNCHANGED trade
  /\ UNCHANGED <<now, world, made, pending, notes, counts>>

-----------------------------------------------------------------------------
(* The execute_trade tool.                                                 *)

Propose(r) ==
  /\ Doing(r, "idle") /\ made < MaxTrades
  /\ \E kind \in Kind, qty \in Quantity :
       trade' = [trade EXCEPT ![made + 1] =
                   [kind |-> kind, qty |-> qty, at |-> now, large |-> FALSE]]
  /\ made' = made + 1 /\ still' = still \union {made + 1}
  /\ thread' = [thread EXCEPT ![r] =
                  [Idle EXCEPT !.at = "resolve", !.id = made + 1, !.calm = TRUE]]
  /\ UNCHANGED <<now, world, pending, told, judgedOn, orders, contested, counts>>

(* Mutant: the cutoff is compared the other way round.                     *)
SwappedCutoff(i) == now < trade[i].at + Life

Expired(i) == trade[i].at + Life < now

Kept(S) == {i \in S : ~Expired(i)}

(* Add, and CleanExpired right after it; the reply names the trade.        *)
Add(r) ==
  /\ Doing(r, "add")
  /\ pending' = Kept(pending \union {thread[r].id})
  /\ told' = told \union {thread[r].id}
  /\ End(r)
  /\ UNCHANGED <<now, world, made, trade, judgedOn, still, orders, contested, counts>>

(* The scheduler cleans up once an hour, unless that tick was dropped.     *)
HourlyClean ==
  /\ pending' = Kept(pending)
  /\ UNCHANGED <<now, world, made, trade, thread, notes, counts>>

-----------------------------------------------------------------------------
(* handleTradeConfirmation.                                                *)

Held(i) == \E r \in Thread : thread[r].id = i /\ thread[r].at = "remove"

(* Mutant: a plain confirmation will do.                                   *)
AnyWordWillDo(i, loud) == TRUE

Accepted(i, loud) == trade[i].large => loud

(* The trade is looked up, under a read lock; its age is not asked. A      *)
(* confirmation that is not accepted leaves it pending.                    *)
Confirm(r) ==
  /\ Doing(r, "idle")
  /\ \E i \in pending, loud \in BOOLEAN :
       /\ Accepted(i, loud)
       /\ contested' = IF Held(i) THEN contested \union {i} ELSE contested
       /\ thread' = [thread EXCEPT ![r] =
            [Idle EXCEPT !.at = "remove", !.for = "confirm", !.id = i,
                         !.loud = loud, !.calm = TRUE]]
  /\ UNCHANGED <<now, world, book, told, judgedOn, still, orders, counts>>

(* Mutant: the trade is left in the map until it has been executed.        *)
KeepTrade(r) ==
  /\ Doing(r, "remove")
  /\ Go(r, "resolve")
  /\ UNCHANGED <<now, world, book, notes, counts>>

(* It is removed in a critical section of its own.                         *)
Remove(r) ==
  /\ Doing(r, "remove")
  /\ pending' = pending \ {thread[r].id}
  /\ Go(r, "resolve")
  /\ UNCHANGED <<now, world, made, trade, notes, counts>>

(* The order is sent to the trader's exchange, whether the trader still    *)
(* runs or not; whatever comes back, the trade is done with.               *)
Order(r) ==
  /\ Doing(r, "order")
  /\ orders' = [orders EXCEPT ![thread[r].id] = @ + 1]
  /\ End(r)
  /\ UNCHANGED <<now, world, book, told, judgedOn, still, contested, counts>>

(* Pending trades are in memory only.                                      *)
Crash ==
  /\ crashes < MaxCrashes /\ crashes' = crashes + 1
  /\ pending' = {} /\ thread' = [r \in Thread |-> Idle]
  /\ UNCHANGED <<now, world, made, trade, notes, moves>>

-----------------------------------------------------------------------------
Step(r) ==
  \/ Resolve(r) \/ Quote(r) \/ Judge(r) \/ Add(r) \/ Remove(r) \/ Order(r)

Next ==
  \/ Tick \/ Move \/ HourlyClean \/ Crash
  \/ \E r \in Thread : Propose(r) \/ Confirm(r) \/ Step(r)

Spec == Init /\ [][Next]_vars

(* Time passes, the scheduler's ticks come, and the calls a request makes  *)
(* return.                                                                 *)
Fairness ==
  /\ WF_vars(Tick) /\ WF_vars(HourlyClean)
  /\ \A r \in Thread : WF_vars(Step(r))

FairSpec == Spec /\ Fairness

-----------------------------------------------------------------------------
Ordering(r) == thread[r].at = "order" /\ thread'[r].at # "order" /\ orders' # orders
Value(r) == Trade(r).qty * price

(* A confirmed trade is ordered once, however often, from wherever and in  *)
(* whichever words it is confirmed, unless two confirmations looked it up  *)
(* before either removed it (handleTradeConfirmation).                     *)
OrderedOnce == \A i \in Id : orders[i] <= 1 \/ i \in contested

(* A trade is judged on the trader and at the price it will be executed    *)
(* with: if the world has not moved since the confirmation came, an order  *)
(* goes to a trader that runs, is no larger than the equity that trader's  *)
(* adapter answers and keeps to the hard cap, whatever it was judged on    *)
(* when it was proposed.                                                   *)
OrdersFit ==
  [][\A r \in Thread : Ordering(r) /\ thread[r].calm =>
       /\ thread[r].on \in running
       /\ Trade(r).kind = "open" => Fits(Value(r), equity[thread[r].on])]_vars

(* An order sent on a plain confirmation is not a large one, if the world  *)
(* has not moved since it was proposed and the trader is the one it was    *)
(* judged on. (With another trader, price or equity it may be: the flag    *)
(* set at execution is not read.)                                          *)
PlainIsSmall ==
  [][\A r \in Thread :
       /\ Ordering(r) /\ ~thread[r].loud /\ Trade(r).kind = "open"
       /\ thread[r].id \in still /\ thread[r].on = judgedOn[thread[r].id]
       => ~IsLarge(Value(r), equity[thread[r].on])]_vars

(* No trade can be confirmed for ever: one that is neither confirmed nor   *)
(* lost is cleaned away, if the clock gets past its life.                  *)
PendingEnds ==
  \A i \in Id : (i \in pending /\ trade[i].at + Life < LastTime) ~> (i \notin pending)
=============================================================================
