---------------------------- MODULE OrderVolume ----------------------------
(***************************************************************************)
(* Accounting of the traded volume of one live prediction trader: what the *)
(* decision cycle, a manual sell, the order-sync endpoint and the cancel   *)
(* endpoint do to the risk gate's daily volume, to the trader's own copy   *)
(* of it, to the persisted prediction_risk_state row and to the            *)
(* prediction_order_records rows, while the exchange fills the orders on   *)
(* its own schedule.                                                       *)
(*                                                                         *)
(* Amounts are whole USD units and every order trades at price one, so an  *)
(* order's SizeUsd, its shares and its matched size share one unit.        *)
(***************************************************************************)
EXTENDS Integers, Sequences

CONSTANTS
  Order,            \* the CLOB orders the trader may place
  Size,             \* Size[o]: the SizeUsd of the decision behind order o
  MaxDailyVolume,   \* risk.Config.MaxDailyVolumeUsd
  ListLimit,        \* rows SyncOrderRecordsFromCLOB lists (100 in the code)
  LastDay,          \* bound: the last UTC day of a behaviour
  MaxCrashes,       \* bound: process crashes in a behaviour
  Threads,          \* goroutines present: "cycle", "sell", "sync", "cancel"
  Env,              \* behaviours of the environment (EnvKind)
  NoOrder

EnvKind ==
  {"partial",       \* the exchange may fill an order in several pieces
   "expire",        \* an open order may expire
   "immediate",     \* POST /order may answer "matched"
   "lost_reply",    \* an order or a cancel may fail after it took effect
   "poll_error",    \* GET /order/{id} may fail
   "store_error"}   \* the database may fail on the risk-state row

ASSUME OrderAssumption ==
  /\ NoOrder \notin Order
  /\ Size \in [Order -> Nat \ {0}]
ASSUME BoundAssumption ==
  /\ MaxDailyVolume \in Nat
  /\ ListLimit \in Nat \ {0}
  /\ LastDay \in Nat
  /\ MaxCrashes \in Nat
ASSUME ThreadAssumption ==
  /\ Threads \subseteq {"cycle", "sell", "sync", "cancel"}
  /\ Env \subseteq EnvKind

Step ==
  {"idle", "load", "context", "engine", "exec", "poll", "persist",
   "save_filled", "save_posted", "write_record", "rows", "refresh", "onfill",
   "onpersist", "import", "write_import", "cancel", "write"}

VARIABLES
  day,           \* the UTC calendar day utcVolumeDay() returns
  dailyVolume,   \* pt.dailyVolume
  lastReset,     \* the day of pt.lastReset
  gateVolume,    \* pt.riskGate.dailyVolume
  riskRow,       \* the trader's prediction_risk_state row
  rows,          \* prediction_order_records, oldest first: [order, status]
  venue,         \* order -> its state on the exchange
  matched,       \* order -> size matched on the exchange
  pc,            \* thread -> the next step of its handler
  cur,           \* thread -> the order it is working on
  usd,           \* thread -> the fill it is about to account for
  list,          \* thread -> listed rows it still has to refresh
  put,           \* thread -> what it is about to write: [status, absent]
  open,          \* thread -> open orders it still has to import
  loaded,        \* what the cycle's LoadRiskState returned
  crashes,
  \* history, read by properties only
  counted,       \* order -> total passed to recordFillVolume for it
  startVolume    \* daily volume when the running cycle refreshed the gate

volumes == <<dailyVolume, lastReset, gateVolume, riskRow>>
exchange == <<venue, matched>>
locals == <<cur, usd, list, put, open, loaded>>
history == <<counted, startVolume>>
vars == <<day, volumes, rows, exchange, pc, locals, crashes, history>>

-----------------------------------------------------------------------------
(* Rows of the store.                                                      *)

VenueState == {"none", "live", "matched", "cancelled", "expired"}
RowStatus == VenueState \union {"posted", "filled"}
Terminal == {"filled", "cancelled"}
Row == [order : Order, status : RowStatus]
NoPut == [status |-> "none", absent |-> FALSE]
NoRiskRow == [day |-> -1, volume |-> 0]   \* LoadRiskState: 0, "" when absent

(* Nothing keeps an order from having two rows; a lookup takes the first.  *)
RowsOf(o) == {i \in DOMAIN rows : rows[i].order = o}
IsFirst(i) == \A j \in RowsOf(rows[i].order) : i <= j

(* UpdateOrderStatus writes over all rows of the order.                    *)
UpdateOrderStatus(o, status) ==
  rows' = [i \in DOMAIN rows |->
            IF i \in RowsOf(o) THEN [rows[i] EXCEPT !.status = status]
            ELSE rows[i]]

(* SaveOrderRecord looks for a row of the order ...                        *)
LookUp(t, o, status) ==
  put' = [put EXCEPT ![t] = [status |-> status, absent |-> RowsOf(o) = {}]]

(* ... and then creates one, or overwrites the status of the first.        *)
Save(t) ==
  rows' = IF put[t].absent
          THEN Append(rows, [order |-> cur[t], status |-> put[t].status])
          ELSE [i \in DOMAIN rows |->
                 IF i \in RowsOf(cur[t]) /\ IsFirst(i)
                 THEN [rows[i] EXCEPT !.status = put[t].status]
                 ELSE rows[i]]

(* ListOrderRecords: the newest ListLimit rows, newest first.              *)
Listed ==
  LET n == IF Len(rows) < ListLimit THEN Len(rows) ELSE ListLimit
  IN [i \in 1..n |-> rows[Len(rows) + 1 - i]]

(* Mutant: the persisted volume is never taken back.                       *)
NoVolumeRestored(r) == 0

(* syncDailyVolumeFromStore: the row's volume, zero when it is of another  *)
(* day.                                                                    *)
SyncedVolume(r) == IF r.day = day THEN r.volume ELSE 0

(* The other trading thread is adding its fill too: no lock covers the     *)
(* volumes, so of two overlapping additions one may be lost.               *)
Raced(t) ==
  \E u \in ({"cycle", "sell"} \intersect Threads) \ {t} :
    pc[u] \in {"persist", "onpersist"}

(* Gate.RecordFill.                                                        *)
RecordFill(t, u) ==
  \/ gateVolume' = gateVolume + u
  \/ Raced(t) /\ UNCHANGED gateVolume

(* recordFillVolume's effect on the trader, with its history.              *)
AddVolume(t, o, u) ==
  /\ \/ dailyVolume' = dailyVolume + u
     \/ Raced(t) /\ UNCHANGED dailyVolume
  /\ counted' = [counted EXCEPT ![o] = @ + u]

(* persistDailyVolume: the trader's volume goes under today's date; a      *)
(* failing write is only logged.                                           *)
PersistDailyVolume ==
  \/ riskRow' = [day |-> day, volume |-> dailyVolume]
  \/ "store_error" \in Env /\ UNCHANGED riskRow

-----------------------------------------------------------------------------
Init ==
  /\ day = 0
  /\ dailyVolume = 0
  /\ lastReset = 0
  /\ gateVolume = 0
  /\ riskRow = NoRiskRow
  /\ rows = <<>>
  /\ venue = [o \in Order |-> "none"]
  /\ matched = [o \in Order |-> 0]
  /\ pc = [t \in Threads |-> "idle"]
  /\ cur = [t \in Threads |-> NoOrder]
  /\ usd = [t \in Threads |-> 0]
  /\ list = [t \in Threads |-> <<>>]
  /\ put = [t \in Threads |-> NoPut]
  /\ open = [t \in Threads |-> {}]
  /\ loaded = NoRiskRow
  /\ crashes = 0
  /\ counted = [o \in Order |-> 0]
  /\ startVolume = 0

Goto(t, s) == pc' = [pc EXCEPT ![t] = s]

-----------------------------------------------------------------------------
(* The cycle up to its decisions.                                          *)

(* syncDailyVolumeFromStore reads the row ...                              *)
BeginCycle ==
  /\ "cycle" \in Threads
  /\ pc["cycle"] = "idle"
  /\ loaded' = riskRow
  /\ Goto("cycle", "load")
  /\ UNCHANGED <<day, volumes, rows, exchange, cur, usd, list, put, open,
                 crashes, history>>

(* ... and installs the volume, or zero when the row is of another day.    *)
SyncDailyVolume ==
  /\ "cycle" \in Threads
  /\ pc["cycle"] = "load"
  /\ dailyVolume' = SyncedVolume(loaded)
  /\ lastReset' = day
  /\ loaded' = NoRiskRow
  /\ Goto("cycle", "context")
  /\ UNCHANGED <<day, gateVolume, riskRow, rows, exchange, cur, usd, list,
                 put, open, crashes, history>>

(* The load failed: maybeResetDailyVolumeLocal clears the local volume only *)
(* when more than 24 hours have passed since the last reset.               *)
SyncDailyVolumeFails ==
  /\ "store_error" \in Env
  /\ "cycle" \in Threads
  /\ pc["cycle"] = "load"
  /\ \/ /\ lastReset + 1 >= day
        /\ UNCHANGED <<dailyVolume, lastReset>>
     \/ /\ lastReset < day
        /\ dailyVolume' = 0
        /\ lastReset' = day
  /\ loaded' = NoRiskRow
  /\ Goto("cycle", "context")
  /\ UNCHANGED <<day, gateVolume, riskRow, rows, exchange, cur, usd, list,
                 put, open, crashes, history>>

(* The context is built and the gate takes the trader's volume.            *)
RefreshGate ==
  /\ "cycle" \in Threads
  /\ pc["cycle"] = "context"
  /\ gateVolume' = dailyVolume
  /\ startVolume' = dailyVolume
  /\ Goto("cycle", "engine")
  /\ UNCHANGED <<day, dailyVolume, lastReset, riskRow, rows, exchange,
                 locals, crashes, counted>>

(* The decisions arrive.                                                   *)
EngineAnswers ==
  /\ "cycle" \in Threads
  /\ pc["cycle"] = "engine"
  /\ Goto("cycle", "exec")
  /\ UNCHANGED <<day, volumes, rows, exchange, locals, crashes, history>>

(* BuildContext or the decision engine returned an error.                  *)
CycleFails ==
  /\ "cycle" \in Threads
  /\ pc["cycle"] \in {"context", "engine"}
  /\ Goto("cycle", "idle")
  /\ UNCHANGED <<day, volumes, rows, exchange, locals, crashes, history>>

-----------------------------------------------------------------------------
(* executeTradeOutcome, run by the cycle and by a manual sell.             *)

(* The threads that trade and that sync; where a trading one stands        *)
(* between two decisions.                                                  *)
Trader(t) == t \in {"cycle", "sell"} \intersect Threads
Syncer(t) == t \in {"cycle", "sync"} \intersect Threads
Ready(t) == IF t = "cycle" THEN "exec" ELSE "idle"

(* Mutant: the order's own size is left out of the check.                  *)
CheckVolumeSoFar(o) == gateVolume <= MaxDailyVolume

(* Gate.CheckDailyVolume: the last check of a trade.                       *)
CheckDailyVolume(o) == gateVolume + Size[o] <= MaxDailyVolume

CanPlace(t, o) ==
  /\ Trader(t)
  /\ pc[t] = Ready(t)
  /\ venue[o] = "none"
  /\ CheckDailyVolume(o)

(* The order rests on the book; the trader polls it.                       *)
PlaceOrder(t, o) ==
  /\ CanPlace(t, o)
  /\ venue' = [venue EXCEPT ![o] = "live"]
  /\ cur' = [cur EXCEPT ![t] = o]
  /\ Goto(t, "poll")
  /\ UNCHANGED <<day, volumes, rows, matched, usd, list, put, open, loaded,
                 crashes, history>>

(* The exchange answers "matched". The client's answer carries no fill     *)
(* amounts, so the fill is worth zero, recordFillVolume returns at once    *)
(* and the record is saved as filled.                                      *)
PlaceMatched(t, o) ==
  /\ "immediate" \in Env
  /\ CanPlace(t, o)
  /\ venue' = [venue EXCEPT ![o] = "matched"]
  /\ matched' = [matched EXCEPT ![o] = Size[o]]
  /\ cur' = [cur EXCEPT ![t] = o]
  /\ Goto(t, "save_filled")
  /\ UNCHANGED <<day, volumes, rows, usd, list, put, open, loaded, crashes,
                 history>>

(* The exchange takes the order and the reply is lost: the outcome is      *)
(* "error" and nothing is recorded.                                        *)
PlaceLost(t, o) ==
  /\ "lost_reply" \in Env
  /\ CanPlace(t, o)
  /\ venue' = [venue EXCEPT ![o] = "live"]
  /\ UNCHANGED <<day, volumes, rows, matched, pc, locals, crashes, history>>

(* confirmedFillUsd sees a positive matched size: the gate and the trader  *)
(* take it into their volumes.                                             *)
ConfirmFill(t) ==
  /\ Trader(t)
  /\ pc[t] = "poll"
  /\ matched[cur[t]] > 0
  /\ RecordFill(t, matched[cur[t]])
  /\ AddVolume(t, cur[t], matched[cur[t]])
  /\ Goto(t, "persist")
  /\ UNCHANGED <<day, lastReset, riskRow, rows, exchange, locals, crashes,
                 startVolume>>

(* persistDailyVolume writes the trader's volume under today's date.       *)
PersistVolume(t) ==
  /\ Trader(t)
  /\ pc[t] = "persist"
  /\ PersistDailyVolume
  /\ Goto(t, "save_filled")
  /\ UNCHANGED <<day, dailyVolume, lastReset, gateVolume, rows, exchange,
                 locals, crashes, history>>

(* The four attempts saw no match, or failed.                              *)
GiveUpPolling(t) ==
  /\ Trader(t)
  /\ pc[t] = "poll"
  /\ matched[cur[t]] = 0 \/ "poll_error" \in Env
  /\ Goto(t, "save_posted")
  /\ UNCHANGED <<day, volumes, rows, exchange, locals, crashes, history>>

(* Mutant: the record is saved with the status of an order still awaiting  *)
(* its fill.                                                               *)
AlwaysPosted(t) == "posted"

(* The outcome's status, as saved in the order's record.                   *)
OutcomeStatus(t) == IF pc[t] = "save_filled" THEN "filled" ELSE "posted"

(* saveOrderRecord looks for a row of the order ...                        *)
SaveRecord(t) ==
  /\ Trader(t)
  /\ pc[t] \in {"save_filled", "save_posted"}
  /\ LookUp(t, cur[t], OutcomeStatus(t))
  /\ Goto(t, "write_record")
  /\ UNCHANGED <<day, volumes, rows, exchange, cur, usd, list, open, loaded,
                 crashes, history>>

(* ... and writes it, which ends the decision; so does the sync with an    *)
(* open order.                                                             *)
WriteRecord(t) ==
  /\ Trader(t) \/ Syncer(t)
  /\ pc[t] \in {"write_record", "write_import"}
  /\ Save(t)
  /\ put' = [put EXCEPT ![t] = NoPut]
  /\ cur' = [cur EXCEPT ![t] = NoOrder]
  /\ Goto(t, IF pc[t] = "write_import" THEN "import" ELSE Ready(t))
  /\ UNCHANGED <<day, volumes, exchange, usd, list, open, loaded, crashes,
                 history>>

-----------------------------------------------------------------------------
(* SyncOrderRecordsFromCLOB, run at the end of a cycle with                *)
(* onFill = recordFillVolume and by the sync endpoint with onFill = nil.   *)

BeginSync(t) ==
  /\ Syncer(t)
  /\ pc[t] = (IF t = "cycle" THEN "exec" ELSE "idle")
  /\ list' = [list EXCEPT ![t] = Listed]
  /\ Goto(t, "rows")
  /\ UNCHANGED <<day, volumes, rows, exchange, cur, usd, put, open, loaded,
                 crashes, history>>

(* Mutant: the exchange's word for the status is taken over as it is.      *)
VenueStatus(o) == venue[o]

(* The status a row takes from what the exchange answers.                  *)
NewStatus(o) == IF matched[o] >= Size[o] THEN "filled" ELSE venue[o]

(* A listed row is left alone: it was terminal when listed, its order did  *)
(* not change, or the exchange could not be asked.                         *)
SkipRow(t) ==
  /\ Syncer(t)
  /\ pc[t] = "rows" /\ list[t] # <<>>
  /\ \/ Head(list[t]).status \in Terminal
     \/ NewStatus(Head(list[t]).order) = Head(list[t]).status
     \/ "poll_error" \in Env
  /\ list' = [list EXCEPT ![t] = Tail(@)]
  /\ UNCHANGED <<day, volumes, rows, exchange, pc, cur, usd, put, open,
                 loaded, crashes, history>>

(* GetOrderStatus answers for a listed row that its order has changed ...  *)
AskStatus(t) ==
  /\ Syncer(t)
  /\ pc[t] = "rows" /\ list[t] # <<>>
  /\ LET r == Head(list[t])
         new == NewStatus(r.order)
     IN /\ r.status \notin Terminal
        /\ new # r.status
        /\ cur' = [cur EXCEPT ![t] = r.order]
        /\ usd' = [usd EXCEPT ![t] = matched[r.order]]
        /\ put' = [put EXCEPT ![t] = [status |-> new, absent |-> FALSE]]
  /\ list' = [list EXCEPT ![t] = Tail(@)]
  /\ Goto(t, "refresh")
  /\ UNCHANGED <<day, volumes, rows, exchange, open, loaded, crashes, history>>

(* ... and the rows of the order take what it answered, whatever they hold *)
(* by now. A row that becomes filled is handed to onFill when there is     *)
(* one.                                                                    *)
UpdateRow(t) ==
  /\ Syncer(t)
  /\ pc[t] = "refresh"
  /\ UpdateOrderStatus(cur[t], put[t].status)
  /\ put' = [put EXCEPT ![t] = NoPut]
  /\ IF put[t].status = "filled" /\ t = "cycle"
     THEN Goto(t, "onfill") /\ UNCHANGED <<cur, usd>>
     ELSE /\ Goto(t, "rows")
          /\ cur' = [cur EXCEPT ![t] = NoOrder]
          /\ usd' = [usd EXCEPT ![t] = 0]
  /\ UNCHANGED <<day, volumes, exchange, list, open, loaded, crashes, history>>

(* onFill = recordFillVolume: the trader's volume takes the fill, the gate *)
(* does not ...                                                            *)
OnFill ==
  /\ "cycle" \in Threads
  /\ pc["cycle"] = "onfill"
  /\ AddVolume("cycle", cur["cycle"], usd["cycle"])
  /\ cur' = [cur EXCEPT !["cycle"] = NoOrder]
  /\ usd' = [usd EXCEPT !["cycle"] = 0]
  /\ Goto("cycle", "onpersist")
  /\ UNCHANGED <<day, lastReset, gateVolume, riskRow, rows, exchange, list,
                 put, open, loaded, crashes, startVolume>>

(* ... and the volume is persisted.                                        *)
PersistOnFill ==
  /\ "cycle" \in Threads
  /\ pc["cycle"] = "onpersist"
  /\ PersistDailyVolume
  /\ Goto("cycle", "rows")
  /\ UNCHANGED <<day, dailyVolume, lastReset, gateVolume, rows, exchange,
                 locals, crashes, history>>

(* ListOpenOrders: the open orders, or nothing when the call fails.        *)
ListOpenOrders(t) ==
  /\ Syncer(t)
  /\ pc[t] = "rows" /\ list[t] = <<>>
  /\ \/ open' = [open EXCEPT ![t] = {o \in Order : venue[o] = "live"}]
     \/ "poll_error" \in Env /\ open' = [open EXCEPT ![t] = {}]
  /\ Goto(t, "import")
  /\ UNCHANGED <<day, volumes, rows, exchange, cur, usd, list, put, loaded,
                 crashes, history>>

(* An open order is to be saved with the exchange's status, over the       *)
(* row's.                                                                  *)
ImportOrder(t, o) ==
  /\ Syncer(t)
  /\ pc[t] = "import" /\ o \in open[t]
  /\ LookUp(t, o, "live")
  /\ cur' = [cur EXCEPT ![t] = o]
  /\ open' = [open EXCEPT ![t] = @ \ {o}]
  /\ Goto(t, "write_import")
  /\ UNCHANGED <<day, volumes, rows, exchange, usd, list, loaded, crashes,
                 history>>

EndSync(t) ==
  /\ Syncer(t)
  /\ pc[t] = "import" /\ open[t] = {}
  /\ Goto(t, "idle")
  /\ UNCHANGED <<day, volumes, rows, exchange, locals, crashes, history>>

-----------------------------------------------------------------------------
(* handlePredictionCancelOrder.                                            *)

(* The handler reads the row and goes on unless it is terminal.            *)
CancelRequested(i) ==
  /\ "cancel" \in Threads
  /\ pc["cancel"] = "idle"
  /\ IsFirst(i) /\ rows[i].status \notin Terminal
  /\ cur' = [cur EXCEPT !["cancel"] = rows[i].order]
  /\ Goto("cancel", "cancel")
  /\ UNCHANGED <<day, volumes, rows, exchange, usd, list, put, open, loaded,
                 crashes, history>>

(* The exchange cancels what is left of the order; an order it no longer   *)
(* has open stays as it is and the call still succeeds.                    *)
CancelOrder ==
  venue' = IF venue[cur["cancel"]] = "live"
           THEN [venue EXCEPT ![cur["cancel"]] = "cancelled"]
           ELSE venue

CancelOnVenue ==
  /\ "cancel" \in Threads
  /\ pc["cancel"] = "cancel"
  /\ CancelOrder
  /\ Goto("cancel", "write")
  /\ UNCHANGED <<day, volumes, rows, matched, locals, crashes, history>>

(* The call fails, whether or not the order was cancelled; the row stays.  *)
CancelFails ==
  /\ "lost_reply" \in Env
  /\ "cancel" \in Threads
  /\ pc["cancel"] = "cancel"
  /\ CancelOrder \/ UNCHANGED venue
  /\ cur' = [cur EXCEPT !["cancel"] = NoOrder]
  /\ Goto("cancel", "idle")
  /\ UNCHANGED <<day, volumes, rows, matched, usd, list, put, open, loaded,
                 crashes, history>>

(* UpdateOrderStatus(..., "cancelled").                                    *)
WriteCancelled ==
  /\ "cancel" \in Threads
  /\ pc["cancel"] = "write"
  /\ UpdateOrderStatus(cur["cancel"], "cancelled")
  /\ cur' = [cur EXCEPT !["cancel"] = NoOrder]
  /\ Goto("cancel", "idle")
  /\ UNCHANGED <<day, volumes, exchange, usd, list, put, open, loaded,
                 crashes, history>>

-----------------------------------------------------------------------------
(* The environment.                                                        *)

(* The exchange fills part or all of what is left of an open order.        *)
VenueFill(o) ==
  /\ venue[o] = "live"
  /\ \E m \in (matched[o] + 1)..Size[o] :
       /\ m = Size[o] \/ "partial" \in Env
       /\ matched' = [matched EXCEPT ![o] = m]
       /\ venue' = IF m = Size[o] THEN [venue EXCEPT ![o] = "matched"]
                   ELSE venue
  /\ UNCHANGED <<day, volumes, rows, pc, locals, crashes, history>>

VenueExpire(o) ==
  /\ "expire" \in Env
  /\ venue[o] = "live"
  /\ venue' = [venue EXCEPT ![o] = "expired"]
  /\ UNCHANGED <<day, volumes, rows, matched, pc, locals, crashes, history>>

(* Midnight UTC.                                                           *)
Midnight ==
  /\ day < LastDay
  /\ day' = day + 1
  /\ UNCHANGED <<volumes, rows, exchange, pc, locals, crashes, counted,
                 startVolume>>

(* The process dies and is started again: only the database survives.      *)
Crash ==
  /\ crashes < MaxCrashes
  /\ crashes' = crashes + 1
  /\ dailyVolume' = 0
  /\ gateVolume' = 0
  /\ lastReset' = day
  /\ pc' = [t \in Threads |-> "idle"]
  /\ cur' = [t \in Threads |-> NoOrder]
  /\ usd' = [t \in Threads |-> 0]
  /\ list' = [t \in Threads |-> <<>>]
  /\ put' = [t \in Threads |-> NoPut]
  /\ open' = [t \in Threads |-> {}]
  /\ loaded' = NoRiskRow
  /\ UNCHANGED <<day, riskRow, rows, exchange, history>>

-----------------------------------------------------------------------------
CycleStep ==
  \/ BeginCycle \/ SyncDailyVolume \/ SyncDailyVolumeFails
  \/ RefreshGate \/ EngineAnswers \/ CycleFails \/ OnFill \/ PersistOnFill

TradeStep(t) ==
  \/ \E o \in Order : PlaceOrder(t, o) \/ PlaceMatched(t, o) \/ PlaceLost(t, o)
  \/ ConfirmFill(t) \/ PersistVolume(t) \/ GiveUpPolling(t) \/ SaveRecord(t)

SyncStep(t) ==
  \/ BeginSync(t) \/ SkipRow(t) \/ AskStatus(t) \/ UpdateRow(t)
  \/ ListOpenOrders(t) \/ EndSync(t)
  \/ \E o \in Order : ImportOrder(t, o)

CancelStep ==
  \/ \E i \in DOMAIN rows : CancelRequested(i)
  \/ CancelOnVenue \/ CancelFails \/ WriteCancelled

VenueStep == \E o \in Order : VenueFill(o) \/ VenueExpire(o)

Next ==
  \/ CycleStep
  \/ \E t \in Threads : TradeStep(t) \/ SyncStep(t) \/ WriteRecord(t)
  \/ CancelStep
  \/ VenueStep
  \/ Midnight
  \/ Crash

Spec == Init /\ [][Next]_vars

(***************************************************************************)
(* Fairness. The tickers fire and the goroutines run, so an enabled step   *)
(* of the cycle is taken in the end. The decision engine and the exchange  *)
(* may fail any number of times but not for ever (strong fairness), and a  *)
(* sync request or a cancel request that has begun ends. Nobody has to     *)
(* place an order, call an endpoint, or fill an order.                     *)
(***************************************************************************)
CycleRuns ==
  \/ BeginCycle \/ SyncDailyVolume
  \/ ConfirmFill("cycle") \/ GiveUpPolling("cycle") \/ PersistVolume("cycle")
  \/ SaveRecord("cycle") \/ WriteRecord("cycle")
  \/ SkipRow("cycle") \/ UpdateRow("cycle") \/ OnFill \/ PersistOnFill
  \/ ListOpenOrders("cycle") \/ EndSync("cycle")
  \/ \E o \in Order : ImportOrder("cycle", o)

CycleFairness ==
  /\ WF_vars(CycleRuns)
  /\ SF_vars(RefreshGate) /\ SF_vars(EngineAnswers)
  /\ SF_vars(BeginSync("cycle")) /\ SF_vars(AskStatus("cycle"))

SyncRuns ==
  \/ SkipRow("sync") \/ AskStatus("sync") \/ UpdateRow("sync")
  \/ WriteRecord("sync") \/ ListOpenOrders("sync") \/ EndSync("sync")
  \/ \E o \in Order : ImportOrder("sync", o)

RequestFairness ==
  WF_vars(SyncRuns) /\ WF_vars(CancelOnVenue \/ WriteCancelled)

FairSpec == Spec /\ CycleFairness /\ RequestFairness

-----------------------------------------------------------------------------
(* Properties.                                                             *)

(* Types of the variables, by group; no order is matched beyond its size.  *)
VolumeTypes ==
  /\ dailyVolume \in Nat /\ gateVolume \in Nat /\ lastReset \in Nat
  /\ riskRow \in [day : Int, volume : Nat]
RecordTypes ==
  /\ rows \in Seq(Row)
  /\ put \in [Threads -> [status : RowStatus, absent : BOOLEAN]]
ExchangeTypes ==
  /\ venue \in [Order -> VenueState]
  /\ matched \in [Order -> Nat]
  /\ \A o \in Order : matched[o] <= Size[o]
ControlTypes ==
  /\ pc \in [Threads -> Step]
  /\ cur \in [Threads -> Order \union {NoOrder}]
ListTypes ==
  /\ list \in [Threads -> Seq(Row)]
  /\ open \in [Threads -> SUBSET Order]
ValueTypes ==
  /\ usd \in [Threads -> Nat]
  /\ loaded \in [day : Int, volume : Nat]
HistoryTypes ==
  /\ counted \in [Order -> Nat]
  /\ startVolume \in Nat
TypeOK ==
  /\ day \in Nat /\ crashes \in Nat
  /\ VolumeTypes /\ RecordTypes /\ ExchangeTypes /\ ControlTypes
  /\ ListTypes /\ ValueTypes /\ HistoryTypes

(* The cycle is between taking its decisions and syncing its orders.       *)
Executing ==
  /\ "cycle" \in Threads
  /\ pc["cycle"] \in {"engine", "exec", "poll", "persist", "save_filled",
                      "save_posted", "write_record"}

(* While decisions execute, the gate decides on exactly the volume the     *)
(* trader holds: the two copies updated by RecordFill and recordFillVolume *)
(* never drift apart within a cycle.                                       *)
GateAgrees == Executing => gateVolume = dailyVolume

(* The fills confirmed while decisions execute never take the daily volume *)
(* over its cap, unless it was over it when the cycle began.               *)
BudgetHeld ==
  Executing => \/ dailyVolume <= MaxDailyVolume
               \/ dailyVolume <= startVolume

(* The volume the store answers for today.                                 *)
StoredToday == IF riskRow.day = day THEN riskRow.volume ELSE 0

(* Within a day the persisted volume never shrinks: no write of any thread *)
(* or of any later process undoes an earlier one.                          *)
StoredNeverShrinks ==
  [][day' = day => StoredToday' >= StoredToday]_<<riskRow, day>>

(* No part of a fill enters the daily volume twice, whoever sees it first: *)
(* the poll that follows the order, or a later sync.                       *)
FillsCountedOnce == \A o \in Order : counted[o] <= matched[o]

(* All rows of an order are final.                                         *)
Settled(o) == \A i \in RowsOf(o) : rows[i].status \in Terminal

(* A row of the order is no longer among those a sync lists.               *)
BeyondList(o) == \E i \in RowsOf(o) : i + ListLimit <= Len(rows)

(* An order with a record that the exchange has filled is in the end       *)
(* recorded as settled, for good, whoever writes over its rows, unless so  *)
(* many rows are younger that the sync no longer asks for it.              *)
MatchedOrdersSettle ==
  \A o \in Order :
    (venue[o] = "matched" /\ RowsOf(o) # {}) ~> ([]Settled(o) \/ BeyondList(o))
=============================================================================
