--------------------------- MODULE PositionBooks ---------------------------
(***************************************************************************)
(* The position books of the perpetual traders on one exchange account:    *)
(* the trades the exchange reports are copied by the order-sync goroutines *)
(* into trader_orders and trader_fills, and posted by the PositionBuilder  *)
(* to trader_positions, one database statement at a time and without a     *)
(* transaction. Prices, fees and profit are left out but for the question  *)
(* whether a trade realised any; quantities are whole units of which Grain *)
(* make 0.0001, the precision the store rounds to.                         *)
(***************************************************************************)
EXTENDS Naturals, FiniteSets, Sequences, FiniteSetsExt

CONSTANTS
  Symbol,        \* the symbols traded
  Loop,          \* the goroutines that sync this account
  Mode,          \* kinds of exchange considered, see ModeKind
  Day,           \* the 24 hours a sync without a start looks back
  Limit,         \* the trades one answer of the exchange holds
  Grain,         \* units in the store's precision of 0.0001
  Lot,           \* the quantities a trade may have
  Env,           \* behaviours of the environment, see EnvKind
  MaxTrades,     \* bound: trades of a behaviour
  LastTime,      \* bound: the last second of a behaviour
  MaxCrashes,    \* bound: process crashes of a behaviour
  MaxFailures    \* bound: database statements that fail

ModeKind ==
  {"incremental",  \* Binance: per symbol, from the last stored trade id on
   "window",       \* Hyperliquid: all trades of the last day
   "page"}         \* OKX, Bybit and others: the newest of them

EnvKind ==
  {"even",         \* a close may realise exactly nothing
   "tie",          \* trades may carry the same time
   "query_error"}  \* the exchange may fail to answer for a symbol

Side == {"LONG", "SHORT"}
Place == Symbol \X Side
Id == 1..MaxTrades
Time == 1..LastTime

(* The second that is added to a sync time recovered from the fills.       *)
Buffer == 1

ASSUME BookAssumption ==
  /\ IsFiniteSet(Symbol) /\ Symbol # {} /\ IsFiniteSet(Loop)
  /\ Mode \subseteq ModeKind
  /\ Env \subseteq EnvKind
  /\ Grain \in Nat \ {0}
  /\ Lot \subseteq Nat \ {0}
  /\ Day \in Nat /\ Limit \in Nat \ {0}
ASSUME BookBounds ==
  /\ MaxTrades \in Nat
  /\ LastTime \in Nat \ {0}
  /\ MaxCrashes \in Nat
  /\ MaxFailures \in Nat

(***************************************************************************)
(* State                                                                   *)
(***************************************************************************)
VARIABLES
  mode,       \* the exchange's kind: what SyncOrdersFrom... it has
  history,    \* the trades of the account, in the order of their ids
  account,    \* account[p]: what the exchange holds at place p
  orders,     \* trader_orders: ids of the recorded trades
  fills,      \* trader_fills: ids of the recorded trades
  rows,       \* trader_positions: the rows in the order of their ids
  lastSync,   \* binanceSyncState of this account, 0 when not in memory
  now,        \* the time
  ask,        \* ask[l]: what sync goroutine l asks the exchange for
  loop        \* loop[l]: where sync goroutine l stands

(* What only the properties read.                                          *)
VARIABLES
  posts,      \* posts[i]: position writes made for trade i
  crashes,
  failures    \* database statements that failed

dbVars == <<orders, fills, rows>>
askVars == <<now, ask>>
faultVars == <<crashes, failures>>
vars == <<mode, history, account, dbVars, lastSync, loop, posts, faultVars, askVars>>

(* pc: the statement next executed; todo: the trades of this sync not      *)
(* handled yet; latest: the time of its last trade; failed: whether a      *)
(* symbol's query failed; act: what the builder does to which row; seen:   *)
(* the quantity of that row when it was read last.                         *)
Idle == [pc |-> "idle", todo |-> <<>>, latest |-> 0, failed |-> FALSE,
         act |-> "none", row |-> 0, seen |-> 0]
Pc == {"idle", "ask", "check", "order", "fill", "find", "read", "write"}
Act == {"none", "create", "add", "reduce", "close"}

(* from: the time asked from; ids: the last stored trade of each symbol;   *)
(* left: the symbols still to be asked for; got: the trades answered with; *)
(* failed: whether a symbol's query failed.                                *)
NoAsk == [from |-> 0, ids |-> [s \in Symbol |-> 0], left |-> {}, got |-> {},
          failed |-> FALSE]
AskRecord(ids) ==
  [from : 0..(LastTime + Buffer), ids : [Symbol -> 0..MaxTrades],
   left : SUBSET Symbol, got : SUBSET ids, failed : BOOLEAN]

Kind == {"open", "close"}
TradeRecord == [sym : Symbol, side : Side, kind : Kind, even : BOOLEAN,
                qty : Lot, time : Time]
Row == [sym : Symbol, side : Side, qty : Nat, time : Time,
        status : {"OPEN", "CLOSED"}]

TypeOK ==
  /\ mode \in Mode
  /\ history \in Seq(TradeRecord) /\ Len(history) <= MaxTrades
  /\ account \in [Place -> Nat]
  /\ orders \subseteq DOMAIN history
  /\ fills \subseteq orders
  /\ rows \in Seq(Row)
  /\ lastSync \in 0..LastTime
  /\ loop \in [Loop -> [pc : Pc, todo : Seq(DOMAIN history),
                        latest : 0..LastTime, failed : BOOLEAN,
                        act : Act, row : 0..Len(rows), seen : Nat]]
  /\ posts \in [Id -> Nat]
  /\ crashes \in 0..MaxCrashes
  /\ failures \in 0..MaxFailures
  /\ now \in Time
  /\ ask \in [Loop -> AskRecord(DOMAIN history)]

Init ==
  /\ mode \in Mode
  /\ history = <<>>
  /\ account = [p \in Place |-> 0]
  /\ orders = {} /\ fills = {} /\ rows = <<>>
  /\ lastSync = 0
  /\ loop = [l \in Loop |-> Idle]
  /\ posts = [i \in Id |-> 0]
  /\ crashes = 0 /\ failures = 0
  /\ now = 1 /\ ask = [l \in Loop |-> NoAsk]

(***************************************************************************)
(* The exchange                                                            *)
(***************************************************************************)
LastTraded == IF history = <<>> THEN 0 ELSE history[Len(history)].time

(* A market order of the account trades. A close is never larger than the  *)
(* position, and ids and times grow together.                              *)
Execute(sym, side, kind, even, qty) ==
  /\ Len(history) < MaxTrades
  /\ "tie" \in Env \/ LastTraded < now
  /\ even => kind = "close" /\ "even" \in Env
  /\ kind = "close" => qty <= account[<<sym, side>>]
  /\ history' = Append(history, [sym |-> sym, side |-> side, kind |-> kind,
                                 even |-> even, qty |-> qty, time |-> now])
  /\ account' = [account EXCEPT ![<<sym, side>>] =
                   IF kind = "open" THEN @ + qty ELSE @ - qty]
  /\ UNCHANGED <<mode, dbVars, lastSync, loop, posts, faultVars, askVars>>

Tick ==
  /\ now < LastTime
  /\ now' = now + 1
  /\ UNCHANGED <<mode, history, account, dbVars, lastSync, loop, posts,
                 faultVars, ask>>

(***************************************************************************)
(* Fetching                                                                *)
(***************************************************************************)
(* Mutant: the largest recorded order instead of the largest fill, one off.*)
MaxIdOfOrders(sym) ==
  LET ids == {i \in orders : history[i].sym = sym}
  IN  IF ids = {} THEN 0 ELSE Max(ids) + 1

MaxTradeId(sym) ==
  LET ids == {i \in fills : history[i].sym = sym}
  IN  IF ids = {} THEN 0 ELSE Max(ids)

LastFillTime == Max({history[i].time : i \in fills})

DayAgo == IF now > Day THEN now - Day ELSE 0

(* In memory, else recovered from the fills, else a day ago.               *)
SyncFrom ==
  IF lastSync > 0 THEN lastSync
  ELSE IF fills = {} THEN DayAgo ELSE LastFillTime + Buffer

(* The symbols with fills in the database since from, which are asked for  *)
(* in any case ...                                                         *)
RecentFills(from) == {history[i].sym : i \in {j \in fills : history[j].time >= from}}

(* ... and all that the exchange can tell of: those with income since from *)
(* and those with a position. Any of them may be missing: a trade without  *)
(* commission or profit, an old copy of the positions, a failing call.     *)
Detectable(from) ==
  {history[i].sym : i \in {j \in DOMAIN history : history[j].time >= from}}
  \union {p[1] : p \in {q \in Place : account[q] > 0}}

Traded == {history[i].sym : i \in DOMAIN history}

(* Of some trades those with the smallest ids, as many as an answer holds. *)
FirstPage(ids) == {i \in ids : Cardinality({j \in ids : j < i}) < Limit}

(* The trades of a symbol from the last stored id on, or by time for a     *)
(* symbol without stored fills.                                            *)
Answer(a, sym) ==
  FirstPage({i \in DOMAIN history :
               /\ history[i].sym = sym
               /\ IF a.ids[sym] > 0 THEN i > a.ids[sym]
                  ELSE history[i].time >= a.from})

(* Mutant: the trades are handled as the queries returned them.            *)
Unsorted(ids) ==
  {s \in [1..Cardinality(ids) -> ids] :
     \A a, b \in 1..Cardinality(ids) : a < b => s[a] # s[b]}

(* sort.Slice by time is not stable: trades of one time come in any order. *)
ByTime(ids) ==
  {s \in [1..Cardinality(ids) -> ids] :
     \A a, b \in 1..Cardinality(ids) :
       a < b => s[a] # s[b] /\ history[s[a]].time <= history[s[b]].time}

(* The statement l is about to execute fails.                              *)
Fails ==
  /\ failures < MaxFailures
  /\ failures' = failures + 1

(* Binance: what to ask from is read once, before the first query; a read  *)
(* of the database that fails leaves the default. At least one symbol is   *)
(* asked for, or the sync is over.                                         *)
Begin(l, asked) ==
  /\ mode = "incremental" /\ loop[l].pc = "idle"
  /\ asked # {}
  /\ \E lost \in {"none", "time", "ids", "recent"} :
       LET from == IF lost = "time" THEN DayAgo ELSE SyncFrom
           ids == [s \in Symbol |-> IF lost = "ids" THEN 0 ELSE MaxTradeId(s)]
       IN  /\ IF lost = "none" THEN UNCHANGED failures ELSE Fails
           /\ lost = "time" => lastSync = 0
           /\ lost # "recent" => RecentFills(from) \subseteq asked
           /\ ask' = [ask EXCEPT ![l] =
                [NoAsk EXCEPT !.from = from, !.ids = ids, !.left = asked]]
  /\ loop' = [loop EXCEPT ![l] = [Idle EXCEPT !.pc = "ask"]]
  /\ UNCHANGED <<mode, history, account, dbVars, lastSync, posts, crashes, now>>

(* One symbol's query, while trading goes on. A symbol that is not         *)
(* answered for is left out.                                               *)
AskSymbol(l) ==
  /\ loop[l].pc = "ask"
  /\ \E sym \in ask[l].left :
       \/ ask' = [ask EXCEPT ![l] =
            [ask[l] EXCEPT !.left = ask[l].left \ {sym},
                           !.got = ask[l].got \union Answer(ask[l], sym)]]
       \/ /\ "query_error" \in Env
          /\ ask' = [ask EXCEPT ![l] =
               [ask[l] EXCEPT !.left = ask[l].left \ {sym}, !.failed = TRUE]]
  /\ UNCHANGED <<mode, history, account, dbVars, lastSync, loop, posts,
                 faultVars, now>>

(* The list is sorted and handled from its head on.                        *)
Takes(l, got, failed) ==
  \E todo \in ByTime(got) :
    loop' = [loop EXCEPT ![l] =
      [Idle EXCEPT !.pc = "check", !.todo = todo,
                   !.latest = history[todo[Len(todo)]].time, !.failed = failed]]

(* Without an answer the sync is over, and where it asks from stays.       *)
Arrange(l) ==
  /\ mode = "incremental" /\ loop[l].pc = "ask" /\ ask[l].left = {}
  /\ IF ask[l].got = {} THEN loop' = [loop EXCEPT ![l] = Idle]
     ELSE Takes(l, ask[l].got, ask[l].failed)
  /\ ask' = [ask EXCEPT ![l] = NoAsk]
  /\ UNCHANGED <<mode, history, account, dbVars, lastSync, posts, faultVars,
                 now>>

(* The other exchanges are asked once, for the trades of the last day; an  *)
(* error ends the sync.                                                    *)
OfLastDay ==
  {i \in DOMAIN history : /\ history[i].time >= DayAgo
                          /\ mode = "page" => i + Limit > Len(history)}

FetchDay(l) ==
  /\ mode # "incremental" /\ loop[l].pc = "idle"
  /\ OfLastDay # {}
  /\ Takes(l, OfLastDay, FALSE)
  /\ UNCHANGED <<mode, history, account, dbVars, lastSync, posts, faultVars,
                 askVars>>

(***************************************************************************)
(* One trade, a statement at a time                                        *)
(***************************************************************************)
At(l, pc) == loop[l].pc = pc /\ loop[l].todo # <<>>
Cur(l) == Head(loop[l].todo)
CurTrade(l) == history[Cur(l)]

Goto(l, pc) == loop' = [loop EXCEPT ![l].pc = pc]

(* Mutant: the trade is tried again in the same sync.                      *)
SameTrade(l) ==
  loop' = [loop EXCEPT ![l] = [loop[l] EXCEPT !.pc = "check", !.act = "none",
                                        !.row = 0, !.seen = 0]]

NextTrade(l) ==
  loop' = [loop EXCEPT ![l] =
    [loop[l] EXCEPT !.pc = "check", !.todo = Tail(loop[l].todo),
                    !.act = "none", !.row = 0, !.seen = 0]]

(* Mutant: the row is looked up by a key it was not stored under.          *)
CheckInVain(l) ==
  /\ At(l, "check")
  /\ Goto(l, "order")
  /\ UNCHANGED <<mode, history, account, dbVars, lastSync, posts, faultVars,
                 askVars>>

(* GetOrderByExchangeID: a trade that has an order row is skipped. When    *)
(* the question fails, the answer is taken to be no.                       *)
Check(l) ==
  /\ At(l, "check")
  /\ \/ /\ IF Cur(l) \in orders THEN NextTrade(l) ELSE Goto(l, "order")
        /\ UNCHANGED failures
     \/ Fails /\ Goto(l, "order")
  /\ UNCHANGED <<mode, history, account, dbVars, lastSync, posts, crashes,
                 askVars>>

(* Mutant: the order's error is dropped as the fill's is.                  *)
OrderForgotten(l) ==
  /\ At(l, "order")
  /\ Goto(l, "fill")
  /\ UNCHANGED <<mode, history, account, dbVars, lastSync, posts, faultVars,
                 askVars>>

(* CreateOrder: no error when the row is there already. When it fails the  *)
(* trade is left for a later sync.                                         *)
CreateOrder(l) ==
  /\ At(l, "order")
  /\ \/ /\ orders' = orders \union {Cur(l)}
        /\ Goto(l, "fill")
        /\ UNCHANGED failures
     \/ Fails /\ NextTrade(l) /\ UNCHANGED orders
  /\ UNCHANGED <<mode, history, account, fills, rows, lastSync, posts,
                 crashes, askVars>>

(* CreateFill: an error is logged only.                                    *)
CreateFill(l) ==
  /\ At(l, "fill")
  /\ \/ fills' = fills \union {Cur(l)} /\ UNCHANGED failures
     \/ Fails /\ UNCHANGED fills
  /\ Goto(l, "find")
  /\ UNCHANGED <<mode, history, account, orders, rows, lastSync, posts,
                 crashes, askVars>>

(***************************************************************************)
(* The position builder                                                    *)
(***************************************************************************)
(* Binance tells a close by the profit it realised: a close that realised  *)
(* nothing is posted to its side as an open. Other exchanges say which.    *)
OrderAction(t) ==
  IF mode = "incremental" /\ t.even THEN "open" ELSE t.kind

(* math.Round(q * 10000) / 10000.                                          *)
Rounded(q) == ((2 * q + Grain) \div (2 * Grain)) * Grain

OpenRows(sym, side) ==
  {r \in DOMAIN rows : /\ rows[r].sym = sym /\ rows[r].side = side
                       /\ rows[r].status = "OPEN"}

(* Mutant: the open row is never found, as under another trader's id.      *)
NoOpenRow(sym, side) == 0

(* GetOpenPositionBySymbol: the one opened last, 0 for none.               *)
OpenRow(sym, side) ==
  IF OpenRows(sym, side) = {} THEN 0
  ELSE CHOOSE r \in OpenRows(sym, side) :
         \A q \in OpenRows(sym, side) : rows[q].time <= rows[r].time

(* The rows with the exchange_position_id of a position opened by t.       *)
SamePosition(t) ==
  {r \in DOMAIN rows : /\ rows[r].sym = t.sym /\ rows[r].side = t.side
                       /\ rows[r].time = t.time}

(* Mutant: a close of part of the position closes all of it.               *)
NeverPartial(t, held) == FALSE

IsPartial(t, held) == t.qty + Grain < held

(* handleOpen and handleClose up to their first statement that writes: a   *)
(* close without an open position is skipped.                              *)
Find(l) ==
  LET t == CurTrade(l)
      r == OpenRow(t.sym, t.side)
      held == IF r = 0 THEN 0 ELSE rows[r].qty
      act == IF OrderAction(t) = "open"
             THEN IF r = 0 THEN "create" ELSE "add"
             ELSE IF IsPartial(t, held) THEN "reduce" ELSE "close"
  IN
  /\ At(l, "find")
  /\ \/ /\ IF r = 0 /\ OrderAction(t) = "close" THEN NextTrade(l)
           ELSE loop' = [loop EXCEPT ![l] =
                  [loop[l] EXCEPT !.pc = "read", !.act = act, !.row = r,
                                  !.seen = held]]
        /\ UNCHANGED failures
     \/ Fails /\ NextTrade(l)
  /\ UNCHANGED <<mode, history, account, dbVars, lastSync, posts, crashes,
                 askVars>>

(* The store's own reads before it writes: the row again, or whether there *)
(* is a position of the same id: an open one is averaged, with a closed    *)
(* one the trade is dropped.                                               *)
Read(l) ==
  LET same == SamePosition(CurTrade(l))
      open == {r \in same : rows[r].status = "OPEN"}
      Reread(r, act) == loop' = [loop EXCEPT ![l] =
        [loop[l] EXCEPT !.pc = "write", !.act = act, !.row = r,
                        !.seen = rows[r].qty]]
  IN
  /\ At(l, "read")
  /\ \/ /\ loop[l].act # "create"
        /\ Reread(loop[l].row, loop[l].act)
        /\ UNCHANGED failures
     \/ /\ loop[l].act = "create"
        /\ \/ open # {} /\ \E r \in open : Reread(r, "add")
           \/ open = {} /\ same # {} /\ NextTrade(l)
           \/ same = {} /\ Goto(l, "write")
        /\ UNCHANGED failures
     \/ Fails /\ NextTrade(l)
  /\ UNCHANGED <<mode, history, account, dbVars, lastSync, posts, crashes,
                 askVars>>

NewRow(t) == [sym |-> t.sym, side |-> t.side, qty |-> t.qty, time |-> t.time,
              status |-> "OPEN"]
Closed(row) == [row EXCEPT !.qty = 0, !.status = "CLOSED"]

(* Mutant: the reduced quantity is written as it was read.                 *)
ReducedByNothing(row, seen, qty) == [row EXCEPT !.qty = Rounded(seen)]

(* ReducePositionQuantity: near zero the row is closed. The quantity of a  *)
(* closed row says nothing here of what is held.                           *)
Reduced(row, seen, qty) ==
  LET left == IF qty < seen THEN Rounded(seen - qty) ELSE 0
  IN  IF left <= Grain THEN Closed(row) ELSE [row EXCEPT !.qty = left]

Added(row, seen, qty) == [row EXCEPT !.qty = Rounded(seen + qty)]

(* UpdatePositionQuantityAndPrice, ReducePositionQuantity and              *)
(* ClosePositionFully write what they computed from the row they read.     *)
Written(act, row, seen, qty) ==
  CASE act = "add" -> Added(row, seen, qty)
    [] act = "reduce" -> Reduced(row, seen, qty)
    [] act = "close" -> Closed(row)

(* An insert that meets the unique index of position ids averages the row  *)
(* if it is open and else drops the trade.                                 *)
Inserted(t) ==
  LET open == {r \in SamePosition(t) : rows[r].status = "OPEN"} IN
  IF SamePosition(t) = {} THEN Append(rows, NewRow(t))
  ELSE [r \in DOMAIN rows |-> IF r \in open THEN Added(rows[r], rows[r].qty, t.qty)
                              ELSE rows[r]]

Write(l) ==
  LET t == CurTrade(l)
      after == IF loop[l].act = "create" THEN Inserted(t)
               ELSE [rows EXCEPT ![loop[l].row] =
                       Written(loop[l].act, @, loop[l].seen, t.qty)]
      dropped == loop[l].act = "create" /\ after = rows
  IN
  /\ At(l, "write")
  /\ NextTrade(l)
  /\ \/ /\ rows' = after
        /\ posts' = IF dropped THEN posts
                    ELSE [posts EXCEPT ![Cur(l)] = @ + 1]
        /\ UNCHANGED failures
     \/ Fails /\ UNCHANGED <<rows, posts>>
  /\ UNCHANGED <<mode, history, account, orders, fills, lastSync, crashes,
                 askVars>>

(***************************************************************************)
(* The end of a sync, and of the process                                   *)
(***************************************************************************)
(* The time of the last trade is kept in memory, unless a symbol was not   *)
(* answered for.                                                           *)
Finish(l) ==
  /\ loop[l].pc = "check" /\ loop[l].todo = <<>>
  /\ lastSync' = IF mode = "incremental" /\ ~loop[l].failed
                 THEN loop[l].latest ELSE lastSync
  /\ loop' = [loop EXCEPT ![l] = Idle]
  /\ UNCHANGED <<mode, history, account, dbVars, posts, faultVars,
                 askVars>>

Crash ==
  /\ crashes < MaxCrashes
  /\ crashes' = crashes + 1
  /\ loop' = [l \in Loop |-> Idle]
  /\ ask' = [l \in Loop |-> NoAsk]
  /\ lastSync' = 0
  /\ UNCHANGED <<mode, history, account, dbVars, posts, failures, now>>

Exchange ==
  \E sym \in Symbol, side \in Side, kind \in Kind, even \in BOOLEAN,
     qty \in Lot : Execute(sym, side, kind, even, qty)

Fetch(l) ==
  \/ \E asked \in SUBSET Traded : Begin(l, asked)
  \/ AskSymbol(l) \/ Arrange(l) \/ FetchDay(l)

Sync(l) ==
  \/ Fetch(l) \/ Check(l) \/ CreateOrder(l) \/ CreateFill(l)
  \/ Find(l) \/ Read(l) \/ Write(l) \/ Finish(l)

Next == Exchange \/ Tick \/ (\E l \in Loop : Sync(l)) \/ Crash

Spec == Init /\ [][Next]_vars

(* A sync that asks for every symbol the exchange can tell of.             *)
BeginInFull(l) ==
  \E asked \in SUBSET Traded : Detectable(SyncFrom) \subseteq asked /\ Begin(l, asked)

(* syncloop.Run calls the sync again after every interval, a longer one    *)
(* after errors, and a sync is a sequence of statements that return. What  *)
(* the exchange tells of the symbols is wrong at times, not for ever.      *)
FairSpec ==
  Spec /\ \A l \in Loop : WF_vars(Sync(l)) /\ SF_vars(BeginInFull(l))

(***************************************************************************)
(* Properties                                                              *)
(***************************************************************************)
Booked == [p \in Place |-> IF OpenRow(p[1], p[2]) = 0 THEN 0
                           ELSE rows[OpenRow(p[1], p[2])].qty]

(* One goroutine posts a trade to the positions at most once, over crashes *)
(* too, while no statement fails: the order row is written before the      *)
(* position and is never taken back.                                       *)
OneLoopPostsOnce ==
  Cardinality(Loop) = 1 /\ failures = 0 => \A i \in Id : posts[i] <= 1

(* One goroutine never opens a second row for a symbol and side that has   *)
(* an open one, whatever statement fails and wherever it is cut off.       *)
OneOpenRow ==
  Cardinality(Loop) = 1 =>
    \A p \in Place : Cardinality(OpenRows(p[1], p[2])) <= 1

(* What is asked for by id leaves no hole: with one goroutine and no       *)
(* failing statement, every trade of a symbol between two with stored      *)
(* fills is recorded, whatever symbols are not seen or not answered for,   *)
(* however few trades an answer holds and wherever syncs are cut off;      *)
(* where trades share a time, while none was cut off and between syncs.    *)
NoHole ==
  /\ mode = "incremental" /\ failures = 0 /\ Cardinality(Loop) = 1
  /\ "tie" \in Env => crashes = 0 /\ \A l \in Loop : loop[l].todo = <<>>
  => \A i, k \in fills, j \in DOMAIN history :
       /\ i < j /\ j < k
       /\ history[i].sym = history[j].sym /\ history[j].sym = history[k].sym
       => j \in orders

(* When every trade has been posted, each in its turn, the open rows hold  *)
(* what the exchange holds: averaging, partial closes and the tolerance    *)
(* lose nothing of lots coarser than the tolerance.                        *)
BookFollowsExchange ==
  /\ failures = 0
  /\ \A i \in DOMAIN history : posts[i] = 1 /\ ~history[i].even
  /\ \A i, j \in DOMAIN history : i < j => history[i].time < history[j].time
  /\ Cardinality(Loop) = 1
  => Booked = account

(* Trades of a symbol are posted in the order of their times, over crashes *)
(* and unanswered queries, while no statement fails: a close is never      *)
(* posted before its open.                                                 *)
PostedInOrder ==
  [][failures' = 0 =>
     \A i, j \in DOMAIN history :
         /\ posts'[i] > posts[i] /\ posts[j] > 0
         /\ history[i].sym = history[j].sym
       => history[j].time <= history[i].time]_vars

(* What a sync begun now would be answered with, if it saw all there is.   *)
Queried(i) ==
  IF mode = "incremental"
  THEN LET sym == history[i].sym
           a == [NoAsk EXCEPT !.from = SyncFrom,
                              !.ids = [s \in Symbol |-> MaxTradeId(s)]]
       IN  sym \in Detectable(SyncFrom) /\ i \in Answer(a, sym)
  ELSE i \in OfLastDay

(* Every trade is recorded in the end, whatever fails in between, unless   *)
(* what the sync asks for has moved past it.                               *)
EveryTradeRecorded ==
  \A i \in Id :
    (i \in DOMAIN history) ~> (i \in orders \/ (i \in DOMAIN history /\ ~Queried(i)))

(* The rows are a book in the sense of module Book: each trade is posted   *)
(* at most once and wholly, to its own place.                              *)
B == INSTANCE Book WITH Trade <- Id, Place <- Place, taken <- orders,
       posted <- {i \in Id : posts[i] > 0}, held <- Booked

BookStep ==
  \E i \in DOMAIN history :
    \/ B!Take(i)
    \/ B!Post(i, <<history[i].sym, history[i].side>>,
              OrderAction(history[i]), history[i].qty)

BookImplemented == B!BookInit /\ [][BookStep]_(B!bookVars)
=============================================================================
