# nofx-pm: a TLA+ model of the trading core

This directory holds a verification development for the Go program `nofx-pm`:
TLA+ modules translated from its source, TLC configurations that check them on
small instances, and TLAPS proofs of the results that hold for every size. It
is for a reader who has the repository. Paths are relative to `src/`.

Contents: 1. the system · 2. inventory · 3. modules and how they correspond to
the code · 4. runs · 5. bounds · 6. fairness · 7. proofs · 8. what the
properties excuse · 9. what is not modelled · 10. plan.

## 1. The system

`nofx-pm` is one Go process that lets language models trade. It serves an HTTP
API (`api/`), keeps its state in a SQL database (`store/`) and runs any number
of *traders*, each a goroutine with a ticker. Traders come in two families:

* **Prediction traders** (`prediction/`, `manager/prediction_manager.go`) buy
  and sell outcome shares, on the Polymarket order book (live) or on a simulated
  venue with virtual cash. This is the part the repository is named for and the
  part with the densest protocol between threads, the database and an exchange.
* **Perpetual-futures traders** (`trader/`, `kernel/`, `manager/trader_manager.go`)
  trade through exchange adapters, with an order-sync loop, a position book, a
  drawdown monitor and a grid mode.

A prediction trader works in *cycles* (`prediction/trader/trader.go`,
`runCycle`): restore the day's traded volume, redeem what has resolved, build a
context, ask the engine for decisions, check each against the risk gate, execute
it, save records, sync the orders. Beside the cycle the same trader, its rows
and its account are touched by API requests: start, stop, update, delete, reset,
run once, sell a position, redeem, sync orders, cancel an order. Each request is
a goroutine of its own. `cycleMu` keeps cycles apart; most other shared state
has no lock, or a lock over a single access.

A perpetual trader runs a loop of cycles, a *drawdown monitor* that closes
positions on its own and an *order-sync loop* that copies the exchange's trades
into the database; with a grid strategy its cycle keeps a book of levels and
resting orders instead. Its manager holds a lock while it removes a trader, and
removing waits for the loops. Beside both families an *agent* takes orders in a
chat: a trade is proposed, kept in a map, confirmed and sent through whichever
perpetual trader runs then.

    API requests ──start/stop/update/reset/delete──► PredictionManager (map, mu)
         │                                               │ one instance
         │ sell, once                                    ▼
         └───────────────────────────────────►  PredictionTrader
                                                 loops, cycleMu, dailyVolume
         sync, cancel, redeem                     │            │
         │                                        ▼            ▼
         ├──────────► store rows ◄───────── risk gate      venue: CLOB client
         └──────────► a venue of its own                    or sim.Venue + Ledger

## 2. Inventory

The components, the state each keeps, its operations, what makes it hard, and
what makes it correct. `PROJECT.json` names the files and the hazards line by
line.

| Component | State | Operations | Hard behaviour | Correct when |
|---|---|---|---|---|
| Live order and volume accounting (`prediction/trader/{execute,risk_state,orders_sync,sell}.go`) | `dailyVolume`, `lastReset`, the gate's `dailyVolume`, the `prediction_risk_state` row, the order rows | place, poll, confirm, persist, save record, sync, import, cancel | cycle, manual sell, sync and cancel requests without a common lock; orders that fill after their poll; lost replies; midnight; crashes | each fill is counted once and under its day; the gate decides on the true volume; the cap holds; the store forgets nothing |
| Simulated venue (`prediction/sim/`) | ledger in memory; account, position and fill rows | buy, sell, redeem, save, load, init, reset | `saveLedger` in several steps; two ledgers of one account; a reset beside a running cycle; crashes | the store always holds some state the account was really in; fills explain the account; a reset starts afresh |
| Trader life cycle (`prediction/trader/trader.go`, `manager/prediction_manager.go`, handlers) | the row's `is_running`, the manager's map, `isRunning`, `stopCh`, goroutines, `cycleMu` | run, stop, load, start, stop, update, reset, delete, once | goroutines that start later than their request; a channel replaced under a loop; load races | one loop per trader; stopped is stopped; nothing runs unreachable; no double close; requests end |
| Risk gate (`prediction/risk/gate.go`) | exposure per market, tokens held | `SetPositions`, `CheckDecision`, `AddMarketExposure`, `ReduceMarketExposure` | positions read at one time and installed at another; a manual sell that installs its own in the middle of a cycle; fills nobody tells | a buy let through fits what is really held |
| Decision pipeline (`prediction/engine/`, `prediction/trader/cycle.go`) | the plan of a cycle | rules, model answer, merge, order, execution | rules and model decide on one market; executions fail, rest or answer nothing | a cycle with rules in it trades a market once |
| Polymarket client (`prediction/polymarket/`) | API credentials | place, cancel, status, list, redeem | lost replies, partial answers | environment of the order model |
| Perpetual trader (`trader/auto_trader*.go`) | `isRunning`, `stopMonitorCh`, `monitorWg`, the three loops | run, stop, cycle, drawdown check, clean start and end of the sync loop | fields read and written under different locks or none; `Stop` before `Run` is ready; two `Run`s of an instance | what was stopped is silent; channels are closed once; a stop returns |
| Position books (`store/position_builder.go`, `store/order.go`, `trader/*/order_sync.go`) | order, fill and position rows | fetch trades; order, fill, find, average, partial close, close | symbols the sync does not detect; a trade in several statements; crashes and failures between them; equal times | each trade is posted at most once and in order; the book matches the exchange |
| Order sync loop (`trader/syncloop/`) | wait time | try, back off | a sync cut off halfway | every trade the sync still asks for is recorded in the end |
| Grid (`trader/auto_trader_grid*.go`) | levels, `OrderBook`, pauses | place, cancel, sync, stop loss, skew, box and breakout exits, recovery | orders fill between any two calls; errors are ignored, and the adapters hide some; the sync guesses fills | open orders are tracked; a cancel frees its level; what vanished is noticed |
| Perpetual trader manager (`manager/trader_manager.go`) | map of traders, `mu`, the row's `is_running` | load, auto-start, start, stop, update, delete | `RemoveTrader` holds the lock while it waits for loops | removed traders are silent; requests end; a restart resumes what ran |
| Trades asked for in the chat (`agent/trade.go`, `execute_trade` of `agent/tools.go`) | pending trades | propose, confirm, order, expire | two confirmations at once; price, equity and running traders change between proposal, confirmation and order | a trade is ordered once; what is ordered keeps to the limits; nothing is pending for ever |
| Exchange adapters (`trader/binance/`, `trader/okx/`, …) | copies of balance and positions, 15 seconds old at most | query, place, cancel, close | copies older than a fill; failing cancels answered with success; short lists of orders | not modelled; what they may answer is the environment of the models, see section 9 |
| Decision engine, agent, model clients, market data, telegram, crypto, auth, configuration, web | — | — | I/O, prompts, formats | not modelled, see section 9 |

## 3. Modules

One module per component; MC modules only give constants their values; proofs
live in modules of their own.

| Module | Models | Extends / instantiates |
|---|---|---|
| `OrderVolume` | live order and volume accounting | — |
| `Account` | the abstract specification of a simulation account | — |
| `SimAccount` | the simulated venue and its store | instantiates `Account` three times |
| `TraderLifecycle` | the life cycle of one prediction trader | — |
| `RiskGate` | the decisions of a prediction trader and the gate that judges them | — |
| `Book` | the abstract specification of a book of positions | — |
| `PositionBooks` | the order sync and the position builder | instantiates `Book` |
| `PerpTrader` | the loops of one perpetual trader and its manager | — |
| `GridTrading` | the grid strategy of one trader | — |
| `ChatTrade` | trades proposed and confirmed in the chat | — |
| `MC…` | TLC instances | the module of the name |
| `OrderVolume_proofs`, `TraderLifecycle_proofs`, `RiskGate_proofs`, `PerpTrader_proofs`, `GridTrading_proofs`, `ChatTrade_proofs` | type correctness and every invariant the runs check | the module, TLAPS |
| `SimAccount_proofs` | the same, and that `SimAccount` implements `Account` | the module, TLAPS |
| `PositionBooks_proofs` | the same, and that `PositionBooks` implements `Book` | the module, TLAPS |

### OrderVolume

State: `dailyVolume`, `lastReset` are the trader's fields, `gateVolume` the
gate's `dailyVolume`, `riskRow` the `prediction_risk_state` row with its date,
`rows` the `prediction_order_records` rows in order of creation (an order may
have two: nothing makes its id unique), `venue`/`matched` what the exchange knows
of each order. `pc`, `cur`, `usd`, `list`, `put`, `open`, `loaded` are the local
variables of the four threads: the cycle,
a manual sell, a sync request, a cancel request. `counted` and
`startVolume` are history, read by properties only.

| Actions | Code |
|---|---|
| `BeginCycle`, `SyncDailyVolume`, `SyncDailyVolumeFails` | `syncDailyVolumeFromStore` and its fallback; the read of the row and its use are two steps because another thread persists between them |
| `RefreshGate`, `EngineAnswers`, `CycleFails` | the rest of `runCycle` up to the decisions; it fails before the gate is refreshed (context) or after (engine) |
| `PlaceOrder`, `PlaceMatched`, `PlaceLost` | `executeTradeOutcome` behind `CheckDailyVolume`, by what `POST /order` answers |
| `ConfirmFill`, `PersistVolume`, `GiveUpPolling`, `SaveRecord`, `WriteRecord` | `confirmedFillUsd`, `RecordFill`, `recordFillVolume`, `persistDailyVolume`, `saveOrderRecord`; `SaveOrderRecord` looks a row up and then creates or overwrites one, in two steps |
| `BeginSync`, `SkipRow`, `AskStatus`, `UpdateRow`, `OnFill`, `PersistOnFill`, `ListOpenOrders`, `ImportOrder`, `EndSync` | `SyncOrderRecordsFromCLOB`, by the cycle (with `onFill`) and by the sync endpoint (without): it lists the newest rows, asks for one, and writes what it was answered over whatever the row holds by then |
| `CancelRequested`, `CancelOnVenue`, `CancelFails`, `WriteCancelled` | `handlePredictionCancelOrder`; a call that fails may have cancelled the order all the same |
| `VenueFill`, `VenueExpire`, `Midnight`, `Crash` | the exchange, the clock, the process |

`dailyVolume += usd` is not atomic and is done by two goroutines without a lock:
while the other trading thread is in its own addition (`Raced`) an addition may
be lost. Amounts are whole dollars and every price is one, so that size, shares
and value share a unit; the properties compare sums of fills only.

### Account and SimAccount

`Account` says what a simulation account promises: cash and shares that change
by a whole buy, a whole sell, the redemption of a whole holding, and a reset.
`SimAccount` is the code: a ledger operation is one step (it runs under
`Ledger.mu`), but what follows is not: the fill row is inserted, then
`saveLedger` reads the positions, reads the cash, and writes both in one
transaction (`RecordFill`, `ReadPositions`, `ReadCash`, `SaveLedger`). Three
ledgers may exist: the trader's before and after a reset (`run1`, `run2`) and
the one `handlePredictionRedeem` builds for itself (`api`). `RemoveTrader` moves
the state of the running cycle to the thread `old`, because a removed trader's
cycle goes on. `InitLedger`, `CreateAccount`, `LoadCash` and `LoadPositions` are
`InitLedgerInStore` and `LoadLedgerFromStore`; `BeginReset` … `InstallTrader`
are `handlePredictionSimReset` statement by statement. A redemption looks the
holding up (`RedeemCondition`), then asks what it pays, then takes it
(`RedeemPosition`); a closed market without a resolution pays by its price.
`FillLost` is a fill row whose insert fails, which the code ignores; `LoadFails` and
`ResetFails` are reads and writes of the account that fail. Average cost, prices walked from the book, equity snapshots
and the list of simulated orders are left out.

The refinement maps `cash <- account.cash, shares <- positions`: the *stored*
account implements `Account`. Two more instances map the ledgers in memory.

### TraderLifecycle

State: the row, the manager's `current` instance, per instance `isRunning`, the
number of its current `stopCh`, the set of channels `closed` and the holder of
`cycleMu`; per goroutine where it is in `Run` or `runFastLoop`, its instance and
the channel its select waits on; per request its step and what it has read.
Channels are numbered per instance because `Run` replaces `pt.stopCh` and the
loop evaluates the field anew at each select, which is the whole point.

| Actions | Code |
|---|---|
| `Run`, `RunFails`, `BeginCycle`, `EndCycle`, `EnterSelect`, `Tick`, `Return`, `Finish` | `Run`, `runFastLoop`, `runCycle`, and the goroutine of a start request, which clears the row's mark when `Run` returns |
| `List`, `Build`, `BuildFails`, `Insert`, `AutoStart` | `LoadUserTradersFromStore`, `addTraderFromStore` |
| `GetTrader`, `Compare`, `Repair`, `Mark`, `Go`, `Unmark` | `handleStartPredictionTrader` |
| `Stop`, `RemoveTrader`, `DeleteRow`, `ReadRow`, `SaveRow` | stop, update, delete and reset handlers, `RemoveTrader`, `UpdatePrivateKey` |
| `BeginOnce`, `EndOnce` | `RunOnce` behind its endpoint |
| `Receive`, `Crash` | a request that finds its row; the process |

What a cycle does is left to the other two modules. `shouldAbortExecution` asks
for `loopActive && !isRunning`; `Run` and `Stop` set and clear the two together,
so it is never true and is not modelled: a stopped cycle runs to its end, here
and in `SimAccount`.

### RiskGate

State: `exposure` and `byToken` are the gate's maps, `held` and `orders` what
the exchange knows, `pc`, `snap`, `todo`, `task`, `cur`, `told` the local
variables of the cycle and of a manual sell. `unseen` and `stale` are history:
the markets of which the gate, or the positions a thread has read, missed
something.

| Actions | Code |
|---|---|
| `ReadPositions`, `ReadFails`, `SetPositions` | `runCycle` and `SellPosition`, `gate.SetPositions`: positions are read, then installed; an error of the read is ignored by the cycle, which installs nothing held |
| `Decide`, `ModelFails` | the three modes: rules, model, and `mergeDecisions` of both by market; `sortDecisions` puts sells first |
| `SellPosition` | `handlePredictionSellPosition` and `SellPosition`, on a thread that takes no lock |
| `Judge`, `Skip` | `CheckDecision`, and the checks of one decision that only ever refuse |
| `Place`, `PlaceSilent`, `PlaceLost`, `PlaceFails` | `executeTradeOutcome` by what the exchange answers |
| `Poll`, `GiveUp`, `Tell`, `Finish` | `confirmedFillUsd` and `AddMarketExposure` or `ReduceMarketExposure` |
| `Fill`, `Close`, `Redeem` | the exchange, and every way a market is redeemed, of which the gate is not told |

A share is worth one unit at its mark and at every limit price; both outcomes of
a market are added up, since the gate's limits are by market. Daily volume,
order size, price, confidence, edge and a missing token refuse by choice. A
trader in mode "rules" is one in hybrid mode whose model says nothing, because
candidates are unique by market (`prediction/engine/context.go`).

### Book and PositionBooks

`Book` promises that a trade of the exchange is taken over once and posted at
most once, wholly, to the place it names. `PositionBooks` is the code: the
trades of the exchange account (`history`), the rows `orders`, `fills` and
`rows` of the database, and for each sync goroutine the list it works through
and its place in it. Every database statement is a step of its own, since
nothing of it is a transaction.

| Actions | Code |
|---|---|
| `Begin`, `AskSymbol`, `Arrange` | the head of `SyncOrdersFromBinance`: what to ask from is read once, the symbols are detected, each is asked for in a call of its own while trading goes on, by its last stored id or by time, and the answers are sorted |
| `FetchDay` | the head of the other `SyncOrdersFrom…`: one call for the last day (Hyperliquid), or for the newest page (OKX, Bybit and others) |
| `Check`, `CreateOrder`, `CreateFill` | the loop over trades and `CreateOrder`, `CreateFill` of `store/order.go`, which skip what is stored |
| `Find`, `Read`, `Write` | `ProcessTrade`: `handleOpen` and `handleClose` of `store/position_builder.go` |
| `Finish` | the end of a sync, which moves the time it asks from, past symbols it did not ask for too |
| `Exchange`, `Tick`, `Crash` | trades; time; the process |

A sync of Binance asks at least for the symbols with recent fills in the database;
of the others that have traded any may be missing, since commission, profit and
positions each tell of some only, by calls that may fail, and positions from an
old copy. Quantities are units of which `Grain` make 0.0001, the precision the store
rounds to and the tolerance it compares with. The refinement maps
`taken <- orders`, `posted <-` the trades posted at least once and `held <-`
the quantity of each open row: that a trade is not posted twice is part of it.

### PerpTrader

One trader and its row; instances are numbered as the manager makes them, calls
of `Run` as they begin. Per instance `isRunning`, the number of
`stopMonitorCh` (0 for nil), the channels closed and the count of `monitorWg`;
per `Run` where its loop, its monitor and its sync loop are and which channel
each waits on; per request its step and the instance it got; `mu` is the
manager's lock. `overtook`, `returned`, `overlapped`, `initFailed` are history.

| Actions | Code |
|---|---|
| `SetRunning`, `MakeChannel`, `Launch`, `InitGrid` | the head of `Run`: the flag, the channel, the monitor, the sync loop, the first cycle |
| `EndCycle`, `Tick`, `StopSignal`, `Return`, `ClearMark` | the loop of `Run`, and what the goroutine around it does when it returns |
| `MonitorSelect`, `MonitorTick`, `MonitorStops` | `startDrawdownMonitor` |
| `Begin`, `Get`, `Load`, `GetAgain`, `Mark` | the handlers and `LoadUserTradersFromStore`, which starts what the row says runs |
| `Remove`, `Unset`, `CloseChannel`, `Wait`, `Erase` | `RemoveTrader` under `mu`, and `Stop` in its parts |
| `Crash` | the process; `Init` and a restart auto-start by the row |

An update stands for every request that takes the trader out and loads it anew:
the trader's own, which runs it again, and those of its exchange and its model,
which do not. `gin.Recovery` catches the panic of a channel closed twice; the request ends and
`RemoveTrader`'s deferred unlock gives the lock back. What a cycle does is left
to the other modules.

### GridTrading

State: the levels with the order each has, `book` (`OrderBook`), `paused`; the
exchange's open orders; where the cycle is and which open orders it was told of.
`strayed` is history: open orders the levels lost to something the code cannot
see.

| Actions | Code |
|---|---|
| `Breakout`, `Drawdown`, `EndExit`, `DailyLoss`, `Box`, `BoxCancels`, `Recover` | the checks at the head of `RunGridCycle`; `emergencyExit` cancels first and pauses at its end, a box breakout the other way round |
| `PlaceOrder` | `placeGridLimitOrder`, of an order that passes `checkTotalPositionLimit` |
| `CancelOne`, `CancelDecision`, `Resume`, `Adjust`, `EndDecisions` | the model's other decisions |
| `AskOrders`, `Judge`, `StopLoss`, `CheckSkew`, `AutoAdjust` | `syncGridState` and what follows it |
| `Fill`, `Expire`, `Restart` | the exchange, `InitializeGrid` run again |

What the adapters answer is taken as they give it. `CancelAnswer`: a cancel of
all orders fails or answers well, and either way any of the orders may be open
afterwards, because most adapters log a failing cancel and return nil
(`trader/binance/futures_orders.go:387-414`, `trader/okx/trader_orders.go:567-587`;
Bybit does not look at the code of the answer). A single cancel may be accepted
and keep the order. `AskOrders`: the list may miss orders (Bybit's has only
stop orders, `trader/bybit/trader_orders.go:531-535`; OKX's is empty after an error,
`trader/okx/trader_orders.go:669-678`).

Prices, sides, quantities and the position are left out, because what the code
computes from them decides nothing that could be relied on: positions are a copy
of at most fifteen seconds ago (`trader/binance/futures_positions.go:14-23`), of a
hedged account the code keeps the last side it reads
(`trader/auto_trader_grid_orders.go:28-37`), some adapters give a short without its
sign (`trader/okx/trader_positions.go:71-81`), and pending orders are counted at
their level's price (line 46) while they have one of their own (line 113). So
whether an order passes the limit, and whether one that vanished was filled, is
a choice, and closing a position moves nothing but, on the exchanges where it
also cancels the orders of the symbol, open orders, which `Expire` does as well.
A cycle may have any number of decisions.

### ChatTrade

State: the clock, price, equity and running traders; the trades proposed and
those `pending`; per request its step, the trade, the trader picked and the
price read. The equity is what the
trader's adapter answers, a copy of at most fifteen seconds ago, and moves when
the copy does. `told`, `judgedOn`, `still`, `orders`, `contested` are history.

| Actions | Code |
|---|---|
| `Propose`, `Resolve`, `Quote`, `Judge`, `Add` | `execute_trade`: a running trader by random map order, price, equity and limits, then the pending map |
| `Confirm`, `Remove` | `handleTradeConfirmation`, which looks the trade up and removes it in two steps |
| `Resolve`, `Quote`, `Judge`, `Order` | the execution, judged anew |
| `HourlyClean`, `Tick`, `Move`, `Crash` | the scheduler, time, the world, the process |

### How they meet

`TraderLifecycle` says when a cycle runs and that one instance never runs two at
once, which is what `OrderVolume`, `SimAccount` and `RiskGate` assume in having
one cycle thread. It also has the exceptions: an orphaned instance, or the one a
reset leaves behind, runs beside its successor. `SimAccount` has the latter as
its thread `old`. `RiskGate` and `OrderVolume` share the way of an order from
its check to its fill, seen from the exposure and from the volume; the events
the one reads (no shares in the answer, a poll given up) are steps of both.
`PerpTrader` says which sync loops exist beside each other, `PositionBooks` what
one of them does to the rows; `GridTrading` is the cycle of one `Run`; what its
monitor closes the levels never hear of.

## 4. Runs

| Run | Asks |
|---|---|
| `volume_gate` | cycle and cancel endpoint, over midnight and a crash, with immediate fills, orders that expire, lost replies of orders and cancels, failing polls and a database that fails on the risk-state row: fills confirmed by the cycle keep within the cap (`BudgetHeld`); orders that fill in one piece are counted once (`FillsCountedOnce`) |
| `volume_settle` | cycle beside the sync endpoint, which write over each other's rows, with a list shorter than the rows, over a crash: the stored volume of a day never shrinks (`StoredNeverShrinks`); a matched order with a row ends in settled rows or behind the list (`MatchedOrdersSettle`, liveness) |
| `sim_durable` | cycle with fill rows that are lost and a crash between any two steps: the stored account implements `Account` (`AccountImplemented`); between operations it is the ledger in memory (`StoredIsCurrent`) |
| `sim_all_threads` | cycle, sell, redeem and reset together, with failing loads and saves: no ledger and no stored account owes anything (`TypeOK`); the trader's ledger changes by whole operations (`LedgersTradeOnly`); until a redeem request, a reset or a restart touches the account, its fill rows add up to its cash and, but for a token sold while it was redeemed, to its shares (`FillsExplainLedger`) |
| `life_progress` | two requests in a row, whatever they ask for, and a crash, beside a trader with a fast loop: no channel is closed twice (`NeverClosesTwice`), `isRunning` means a loop that goes on (`RunningIsServed`); under fairness, stopped loops return (`StoppedLoopsEnd`) and running traders have cycles (`RunningTraderCycles`) |
| `gate_cycle` | cycles beside manual sells, with failing queries and polls, lost replies and matches answered without shares: a buy the gate lets through fits what is held (`BuysFit`); a cycle with rules in it trades a market once (`OneTradePerMarket`); no deadlock |
| `books_follow` | one sync goroutine over two symbols and all three kinds of exchange, with symbols not seen, trading between two queries, equal times, queries without an answer, a crash: no trade is skipped between two recorded ones (`NoHole`); the rows implement `Book` (`BookImplemented`); trades are posted once (`OneLoopPostsOnce`) and in order (`PostedInOrder`); a complete book holds what the exchange holds (`BookFollowsExchange`); `TypeOK` |
| `books_faults` | a crash and one failing statement at any place: never a second open row of a symbol and side (`OneOpenRow`); under fairness, every trade the sync still asks for is recorded (`EveryTradeRecorded`) |
| `perp_requests` | two overlapping requests beside up to three `Run`s: what was stopped or removed is silent (`SilentOnceStopped`, `RemovedIsSilent`), channels are closed once (`NeverClosesTwice`), who says it runs is served (`RunningIsServed`), no order-sync loop is left (`SyncLoopsEnd`); `TypeOK`. All unless a stop overtook a `Run` that was starting |
| `perp_progress` | three requests of two threads and a crash: between requests the row says what a restart has to resume (`RowAgrees`); under fairness, loops of a stopped trader end (`StoppedRunsEnd`) and requests end with the lock given back (`RequestsFinish`) |
| `grid_cycle` | a grid whose orders fill between any two steps, with every fault: open orders are tracked but for those lost to a cause the code cannot see (`OpenOrdersTracked`), the book names the level of every pending order (`PendingInBook`); under fairness, what vanished is noticed (`VanishedNoticed`); `TypeOK`; no deadlock |
| `chat_confirm` | a trade confirmed by two requests while the world moves and the process restarts: it is ordered once (`OrderedOnce`), within the limits of the trader that orders it (`OrdersFit`), large only when the user said so (`PlainIsSmall`), and, under fairness, it does not stay pending (`PendingEnds`) |

Every property has a mutant in `PROJECT.json`: a plausible bug in a definition
that models code, under which TLC finds the property violated in the same run.
The mutated forms are the operators whose comment starts with "Mutant:".

The type invariants of `OrderVolume`, `TraderLifecycle`, `ChatTrade` and
`RiskGate`, and `GateAgrees` of `OrderVolume`, are proved and
not run: a proof says more. Requests to a prediction trader that overlap are
covered the same way, by the theorems of `TraderLifecycle_proofs`, whose set of
request threads is any.

Deadlock checking is on in `gate_cycle` and `grid_cycle`, whose cycles go on for
ever, and off elsewhere: those models stop when their bounds are used up, and a program whose
orders are all settled has nothing to do. The liveness properties ask what a
deadlock would break.

## 5. Bounds

* **OrderVolume**: 2 orders of sizes 2 and 3, cap 4: each fits alone and both do
  not, so a check that forgets one of them is seen; every property speaks of one
  order or of a sum. `ListLimit` 1 in place of 100: the second row pushes the
  first off the list, which is where the two differ. One midnight; nothing in the code compares more than
  two dates. One crash; nothing is remembered across two.
* **SimAccount**: one market with two outcomes, fills of one or two shares at one
  or two per share, 2 to 4 ledger operations: enough for two threads each in an
  operation on the same ledger, and in `sim_durable` for a chain of buy, sell,
  redemption with a crash inside. In `sim_all_threads` the constraint
  `FewOperations` keeps what follows a redeem request or a reset to two
  operations and one share; before them a buy of two, a sale of one
  and the redemption of the rest fit, which is where a fill row goes wrong. Outcomes are symmetric; the runs with symmetry
  check no liveness.
* **TraderLifecycle**: two requests one after the other, two goroutine slots, two
  instances, of which the first has a fast loop (a strategy may be edited between
  two of its instances). With all slots taken a start waits in the
  model and would not in Go; the properties speak of loops, not of such a wait.
* **RiskGate**: two markets, a limit of 3 per market met by buys of 2 that fill
  in parts, one open market allowed, two decisions in an answer, and an exchange
  that sells at most two shares of a market: two held and two asked for are past
  the limit, one held and two are at it. Two orders:
  a further decision is still judged, which is where the property is, and
  holdings at the start stand for earlier orders.
* **PositionBooks**: three trades of one lot of 4 units over two symbols: open,
  close and open again, or two of one symbol around a sync that sees only the
  other; an answer holds two trades, so a third waits for the next sync; a day is
  two seconds of three, so that trades fall out of it. One crash, one failing
  statement, three times so that two trades can be equal or ordered. One lot
  keeps closes whole or partial by averaging two opens.
* **PerpTrader**: three `Run`s are those of a start, a load that starts the same
  trader, and a start after a stop; two overlapping requests are what the code
  has to keep apart, and three in `perp_progress` need the crash as well.
* **GridTrading**: two levels and three orders: two displace each other on a
  level, a third is placed after a level was freed or reset, and an index one
  beyond the grid is tried.
* **ChatTrade**: one trade, for trades meet in clean-ups only, which look at one
  at a time; two confirmations of it, two traders that differ in what is running
  and worth, two prices, one move, one restart. `Life` 0 and two ticks: a trade
  expires within the run.

What is left out of a run is left out because the property fails with it:
partial fills and the sync endpoint break `FillsCountedOnce`, a manual sell
breaks what `GateAgrees` and `StoredNeverShrinks` rest on, the redeem endpoint
breaks the agreement of store and fills. Theorems say the same in their
assumptions. Section 8 lists what the code does in those cases.

## 6. Fairness

* `OrderVolume`: tickers fire and goroutines are scheduled, so each step of a
  cycle is weakly fair. `RefreshGate`, `EngineAnswers`, `BeginSync` and
  `AskStatus` of the cycle are strongly fair: the engine, the executions and the exchange may fail any number of times
  but not for ever. Requests that have begun finish (weak fairness). Nothing
  obliges anyone to place an order, to call an endpoint, or the exchange to fill
  an order.
* `TraderLifecycle`: goroutines and handlers are weakly fair; a cycle ends,
  since the calls in it have timeouts. Taking `cycleMu` is strongly fair: Go's
  `sync.Mutex` passes to a waiter that has starved for a millisecond. Taking a
  closed stop channel is strongly fair: `select` chooses at random among ready
  cases, so it does not choose the tick for ever. No fairness on `Receive` and
  `Crash`.
* `PerpTrader`: the same; `StopSignal` and `MonitorStops` are the cases of a
  `select` and strongly fair, the steps of goroutines and of requests that have
  begun weakly.
* `PositionBooks`: the sync loop is weakly fair: it tries again after every
  interval, a longer one after errors, and a statement returns. `BeginInFull`, a
  sync that detects every symbol the exchange can tell of, is strongly fair: its
  answers are wrong at times and not for ever.
* `GridTrading`: the cycle is weakly fair. The end of the decisions is strongly
  fair (a list is finite), and so is the answer of the model and of the query
  for open orders: neither fails for ever.
* `ChatTrade`: time passes, the scheduler cleans up and the calls of a request
  return, all weakly fair. Nobody has to confirm.
* `RiskGate` has no fairness: its properties are about steps and states.

## 7. Proofs

All are checked by TLAPS with the SMT, Zenon and LS4 backends, for any sets of
orders, sizes, tokens, prices, markets, levels, trades, requests and goroutines,
and any bounds, under the named assumptions on constants (`OrderAssumption`,
`BoundAssumption`, `ThreadAssumption`, `SimAssumption`, `LifecycleAssumption`,
`LimitAssumption`, `PerpAssumption`, `GridAssumption`, `ChatAssumption`,
`ChatBounds`, `BookAssumption`, `BookBounds`), which TLC evaluates in the runs.
Every invariant and every action property a run checks has a theorem, and so
have both refinements.

**OrderVolume_proofs.** `TypeCorrect`: `TypeOK` is not inductive, because the
steps that use `cur[t]` need it to be an order; `Types` adds `CurOK`, which says
so for the steps that work on one. `GateAgreesAlways` and `BudgetHeldAlways`
assume `"sell" \notin Threads` and use `Budget == GateAgrees /\ BudgetHeld /\
PolledFits`. `PolledFits` is the missing link: the order being polled still fits
under the cap, because the gate let it through and no other thread moves the
gate. With a manual sell the link breaks, and so does the property.
`StoredVolumeKept` (no sell, no database failure) needs `CoversRow`: the row is
never of a future day, what the cycle loaded is still in the row, and past its
load the trader's volume covers today's row. `FillsCountedOnceAlways` is about
the cycle and the cancel requests, and orders that fill in one piece. Its
invariant `Once` says where a fill can be counted from: the order the cycle has
in hand or in its list has not been counted yet (`InHand`, `InSync`, `InImport`),
no order is in that list twice (`OneRowEach`), and one that has been counted has
rows the next sync skips (`CountedSettled`). A cancel request writes over the
row, but only over one that is there (`InCancel`) and with a final status.

**SimAccount_proofs.** `TypeCorrect` is solvency with every thread present:
`ApplyBuy`, `ApplySell` and `RedeemPosition` check and take under one lock.

`StoreImplementsAccount` and
`StoredIsCurrentAlways` are about the cycle alone with crashes, and with loads and
saves that do not fail; fill rows may be lost. The invariant `IInv`
has three parts beside the types: `CycleAlone` (every other thread is idle),
`AtMostOneAhead` (before a save the ledger is exactly one operation ahead of
the store, otherwise equal), and `ReadIsCurrent` (what the save has read is what the ledger
still holds). A save then is one step of `Account`, a crash none.
`ReadIsCurrent` is what a second trading thread would break: `saveLedger` takes
no lock over its three parts. `LedgersTradeOnlyAlways` holds with every thread; its invariant
`BuildsApart` says that a ledger being built from the store is not the
trader's. `FillsExplainLedgerAlways` has the manual sell beside the cycle and fill rows that are
not lost: at any
moment cash is the initial balance, plus what the fill rows say, plus what the
operations say whose fill row is not yet written (`CashRecorded`), and likewise
shares (`SharesRecorded`), which need that a redemption under way still pays for
what it looked up unless a sale came in between (`misstated`).

**TraderLifecycle_proofs.** `TypeCorrect`; `NeverClosesTwiceAlways` with
`ChannelsApart`: an instance that runs has its current channel open, and all
channels ever closed are numbered at most the current one, so `Run` installs a
channel that is open. `RunningIsServedAlways` adds `StartersAreMain` (a
goroutine about to call `Run` is not a fast loop): when `Run` marks the instance
it becomes its loop, and a loop that is told to return sits on a closed channel
while the running instance's channel is open.

**RiskGate_proofs.** `TypeCorrect` needs `Wiring`: a thread that sends has a
trade, one that polls has an order of that trade which nobody else polls, and
the manual sell only sells. `BuysFitAlways` is about a buy at the moment it is
judged. Call `Due(m)` what is held in `m`, with the sales the gate has not been
told of added back and the cycle's own buys it has not been told of taken off.
The invariant `Known` says that in every market of which the gate missed nothing
(`unseen`) its exposure is at least `Due(m)`, and that the same holds of the
positions a thread has read and not yet installed, in the markets that are not
`stale`. When a buy is judged the cycle polls nothing, so `Due(m)` is at least
what is held. The bound on open markets follows by cardinalities, since a market
held is one the gate knows of. The manual sell is present throughout: what it
installs may be old, and `stale` says exactly when. `OneTradePerMarketAlways`:
the merge keeps the last decision of a market, so the proof needs that a set of
list positions has a largest, which follows from the well-foundedness of the
naturals (no induction over the list); the invariant `Once` adds that a cycle
which sends nothing has no trade in hand, so what it takes up next is counted
with what is left of the plan.

**PerpTrader_proofs.** All seven invariants follow from one, `Order`, kept by
every step (`OrderKept`). Its parts: `Frame`, who is where: the lock belongs to
the request that removes (`Locked`), the wait group counts exactly the loops and
monitors that have not returned (`WgCounts`), channels are numbered upwards
(`Numbered`). `Calm`, about an instance no `Stop` overtook: one `Stop` closes and
waits at a time and nothing starts meanwhile (`OneStop`, `StopIsAlone`); the
channel of now is open until that `Stop` closes it (`ClosesOpen`,
`RunningIsOpen`); and whoever is still counted when the channel is closed or the
mark is off is being waited for (`LateIsAwaited`), so that a `Stop` returns only
to silence. `Removal`: what left the map neither runs nor will. `Sequential`: with
one request after the other, what the request knows of row and instance.
`WgCounts` is why the proof needs finite sets: the counter is the cardinality of
the set of loops and monitors it counts, and every `Add` and `Done` moves both.

**GridTrading_proofs.** `TypeCorrect` has the part that a pending level has an
order that was placed, which the other two need. `OpenOrdersTrackedAlways` and
`PendingInBookAlways` are inductive next to the types: an order stays with its
level, and its level with its entry in the book, until one step takes both or
notes that the order strayed. That they are takes care in the places where one
side goes alone: a new order has a number no entry has; a cancel frees the level
its order's entry names, which may be another's by then; a sync that judges a
vanished order cancelled keeps its entry and frees its level.

**ChatTrade_proofs.** `Types` adds what a request works on (`Jobs`) and that no
two requests propose the same trade. `OrderedOnceAlways` with `Singly`: a trade
that is pending has not been ordered and one request at most is on its way to
order it, unless two confirmations found it. `OrdersFitAlways` with
`KnowWorld`: past each judgement a request whose world has stood still knows the
price, the equity and the trader it judged by. `PlainIsSmallAlways` with
`KnowSizes`, which carries the flag from the proposal to the order.

**PositionBooks_proofs.** `TypeCorrect` adds `RecordedFirst` (past `CreateOrder`
the current trade has an order row) and `RowExists` (a row about to be changed
is there). The rest is about one goroutine. `OneLoopPostsOnceAlways` with
`PostedOnce`: while nothing failed, what is posted has an order row and what is
on its way to be posted has not been; the order row is written first and never
taken back, so a sync begun again skips it. `OneOpenRowAlways` with `Unique`: a
row about to be created has no open one at its place, which one goroutine
established and nobody else changes; failures and crashes are allowed.
`PostedInOrderAlways` needs what the fetch promises: times grow with ids
(`TimesGrow`), what is to be handled is sorted (`TodoSorted`), what is posted has
a fill (`PostedHasFill`), and everything posted is behind everything still to
come: on Binance the ids asked from are beyond every fill (`AskAfter`,
`TodoAfter`), elsewhere the window has it all (`WindowAfter`). `NoHoleAlways` is about syncs that
ask by id, whatever symbols they do not see or are not answered for: what a
symbol was answered with has no hole after the id asked from (`AskClosed`), since
an answer holds the smallest ids and each symbol is asked for once (`AskedOnce`);
so neither has what is filled together with what is still to be handled
(`NoneBetween`), and where times differ a fill is never younger than what is to
come (`FillAfter`), so that a crash leaves none either. With equal times the
unstable sort may handle the later id first, and a crash then leaves a hole: the
property excuses exactly that. `BookFollowsExchangeAlways` keeps a tally of what
the exchange held at a place after each trade (`Tally`) and says that when the
trades posted of a place are those up to some id, its rows hold what the tally
says of that id (`Follows`); `PostedInOrder` makes them so. `BookIsImplemented` maps every step to one of
`Book`: `CreateOrder` takes a trade over, `Write` posts it, all others stutter. It
needs `Planned` (a row about to be changed is open at the trade's place and holds
what was read of it) and `Exact` (rows hold whole units), and assumes that no
statement fails and that the lots are multiples of a unit that is a multiple of
the store's 0.0001 and larger than it: `LotUnit`. Rounding then changes nothing,
and a close within the tolerance is a close of all there is. With finer lots a
close may swallow up to 0.0001 of a position, which the theorem leaves out.

Only model-checked: the liveness properties `MatchedOrdersSettle`,
`StoppedLoopsEnd`, `RunningTraderCycles`, `EveryTradeRecorded`, `StoppedRunsEnd`,
`RequestsFinish`, `VanishedNoticed` and `PendingEnds`, because fairness is stated
with `ENABLED`, which is beyond the prover. Induction is used only where it can
be said in the first order, as a smallest counterexample of a well-founded
relation; no theorem says what a recursive definition computes for every input,
and no module declares a `RECURSIVE` operator.

## 8. What the properties excuse

Each of these is behaviour of the code that a property names as an exception, or
that a run leaves out because the property fails with it. The models have them.

| Where | The code does |
|---|---|
| `OrderVolume` | a partly filled order is recorded filled, imported again as open, and counted whole when the rest fills |
| `OrderVolume` | a manual sell's volume is lost under a cycle that had loaded the row before |
| `OrderVolume` | resting orders reserve no volume; their fills take the day over the cap |
| `OrderVolume` | an order with a hundred younger rows is not listed any more, and if it fills its row stays open for good (`BeyondList`, `store/prediction_page.go:3-11`) |
| `OrderVolume` | two savers that both find no row of an order create two; a status that was asked for earlier is written over a newer one; and when the write of a status fails its error is dropped (`orders_sync.go:36`) and the fill is reported again by the next sync. The last is not a step of the model, the others are |
| `OrderVolume` | a fill after midnight carries yesterday's volume over; an order matched at once without shares in the answer is recorded filled and never counted |
| `SimAccount` | the redeem endpoint's result is overwritten by the running trader; a redeem decision on an open market takes the holding away |
| `SimAccount` | a sale between the copy of the holding (`prediction/sim/venue.go:292`) and the redemption makes the redemption's fill row name more shares than were taken (`misstated`) |
| `SimAccount` | the trader removed after a reset saves its old ledger over the fresh account |
| `TraderLifecycle` | stop and start during a cycle leave two loops for good; a stop before `Run` is lost and the row says stopped; an update with a new key inserts a deleted row again |
| `RiskGate` | the gate never hears of a redemption, of a fill after the last poll, of a match without shares or of an order whose reply is lost, until it is refreshed; an error of the position query empties it; resting orders reserve nothing of the market's limit |
| `PositionBooks` | a trade stored as an order and not yet posted is skipped by the retry, so after a crash or a failure in between it is recorded and never posted; two sync goroutines of one account may both post a trade |
| `PositionBooks` | after a statement that failed, a window sync posts that trade behind later ones, so the book differs from the exchange; with trades of one moment and a crash, or with two goroutines, a trade can be left between two recorded ones |
| `PositionBooks` | Binance moves the time it asks from to that of the last trade it was given (`trader/binance/order_sync.go:279-283`), also when it did not detect some symbol; a first trade of that symbol before that time is never asked for, without any failure. The other exchanges lose what is older than a day or than a page. `EveryTradeRecorded` excuses what is no longer asked for, and `BookFollowsExchange` speaks of complete books |
| `PerpTrader` | a `Stop` that overtakes a `Run` which has set `isRunning` and not yet made its channel may close a channel twice, wait for ever holding the manager's lock, or leave a loop nobody can stop; an update of a running trader starts it twice |
| `GridTrading` | an order placed where a level has one already displaces it; one with a lost reply or beyond the grid is kept nowhere; orders stay open behind levels that were reset, after a cancel that answered well or before levels are made anew; orders missing from the exchange's list are taken for filled or cancelled (all in `strayed`) |
| `GridTrading` | the exposure limit does not bound what is held, and an exit may leave a position or orders, even when every call answers well; no property says otherwise |
| `ChatTrade` | two confirmations that both found a trade before either removed it order it twice; the five minutes of a pending trade are not asked for at confirmation; the flag for a large trade set at execution is not read |

## 9. Not modelled

Within the modelled components: audit and decision records, notifications,
telemetry, equity snapshots; the sizing of a decision (its size is given);
writes of order rows that fail;
failures of the database in the life cycles; two listings of one condition by
the redeem endpoint; the read of `pm.traders` without its lock, which may
end the process. Preview orders touch no volume and are left out. A model answer
that names one token and another market's slug is not considered. Of the
perpetual trader, what a cycle decides, the safe mode and the peak cache of the
drawdown monitor: they are driven by numbers of the exchange and of the model.
Of the grid, prices, quantities and positions. Of the order syncs, three stand for
all: one that asks by id and symbol, one for a window of a day, one for the newest
page.

The exchange adapters are not modelled as a component, and they are not mere
requests and answers. They keep copies of balance and positions for fifteen
seconds (Binance, OKX, Bybit, Bitget, Gate, KuCoin); they answer nil after
cancels that failed; they give positions for one side at a time, on OKX, Bitget,
Aster, Hyperliquid and Lighter without a sign; they list stop orders only, or
nothing after an error; and the order ids some of them return are not the ids
they list (`trader/types/interface.go:155-224`). A model that reads from them takes
any of these answers: `CancelAnswer` and `AskOrders` of `GridTrading`, `Begin` and
`AskSymbol` of `PositionBooks`, the equity of `ChatTrade`. What could only be said
of a true answer is not said.

Other components: the Polymarket client, market data and model clients are
requests and answers; the decision engines are prompts and the parsing of text, and what reaches a trader
is a list of decisions; the rest of the agent (planner, skills, configuration
drafts, memory) is a conversation with a language model, whose tools call stores
and managers, and it is by far the largest part of the source; telegram is a
front end of it; authentication, encryption and configuration are computations
without a protocol; the remaining stores write single rows; the web front end is
a client.

## 10. Plan

Done, in order of the weight of what can go wrong: `OrderVolume`, `SimAccount`
with `Account`, `TraderLifecycle`, `RiskGate` with the decision pipeline,
`PositionBooks` with `Book`, `PerpTrader` with its manager, `GridTrading`,
`ChatTrade`.

The safety properties of all of them are proved. Left:

1. Two sync goroutines of one account, and the composition of `TraderLifecycle`
   with `SimAccount` across a reset.
2. Theorems with a weaker assumption: `BookIsImplemented` for lots finer than the
   tolerance, where a close may swallow the rest of a position, against a `Book`
   that says so; `StoredVolumeKept` with a manual sell, against a weaker promise.
3. The skill sessions of the agent, as far as their steps are a protocol and not
   a prompt.
