---------------------------- MODULE GridTrading ----------------------------
(***************************************************************************)
(* The grid strategy of one trader: its levels and the limit orders placed *)
(* for them, the cycle with its emergency checks, the model's decisions,   *)
(* and the sync with the exchange that ends it, while the exchange fills   *)
(* and cancels orders between any two steps.                               *)
(*                                                                         *)
(* Prices, sides and quantities are left out, and with them what is held:  *)
(* the adapters answer for the position from a cache of fifteen seconds,   *)
(* for one of the two sides of a hedged account, some of them without its  *)
(* sign, so a choice stands for what the code concludes from the answer    *)
(* (is the limit kept, was a vanished order filled). Closing a position    *)
(* also cancels the orders of its symbol, as the exchange may at any time. *)
(***************************************************************************)
EXTENDS Integers, FiniteSets

CONSTANTS
  GridCount,     \* levels of the grid
  Env,           \* which of EnvFault happen
  MaxOrders      \* bound: orders placed

(* A query or a cancel that answers an error; a cancel that answers well   *)
(* and leaves orders open, as most adapters do; a list of open orders with *)
(* some missing; an order placed whose answer is lost; a level index       *)
(* beyond the grid; an order that the exchange cancels.                    *)
EnvFault == {"query_error", "cancel_error", "silent_cancel", "short_list",
             "lost_reply", "bad_index", "expire"}

ASSUME GridAssumption ==
  GridCount \in Nat \ {0} /\ Env \subseteq EnvFault /\ MaxOrders \in Nat

Level == 0..(GridCount - 1)
OrderId == 1..MaxOrders
NoOrder == 0
NoLevel == -1

VARIABLES
  level,       \* Levels: [state, order]
  book,        \* OrderBook: order -> level index, NoLevel when not in it
  paused,      \* IsPaused
  open,        \* the orders open at the exchange
  placed,      \* orders placed so far
  pc,          \* where the cycle is
  active,      \* activeOrderIDs of the sync under way
  strayed      \* for the properties: the open orders the levels may not know

grid == <<level, book, paused>>
vars == <<grid, open, placed, pc, active, strayed>>

EmptyLevel == [state |-> "empty", order |-> NoOrder]
NoLevels == [i \in Level |-> EmptyLevel]
NoBook == [o \in OrderId |-> NoLevel]

InState(s) == {i \in Level : level[i].state = s}

Init ==
  /\ level = NoLevels /\ book = NoBook /\ paused = FALSE
  /\ open = {} /\ placed = 0
  /\ pc = "idle" /\ active = {} /\ strayed = {}

Answers(fault) == IF fault \in Env THEN BOOLEAN ELSE {TRUE}

-----------------------------------------------------------------------------
(* The exchange on its own: an order fills, or is cancelled there.         *)
Fill(o) ==
  /\ o \in open
  /\ open' = open \ {o}
  /\ UNCHANGED <<grid, placed, pc, active, strayed>>

Expire(o) ==
  /\ "expire" \in Env /\ o \in open
  /\ open' = open \ {o}
  /\ UNCHANGED <<grid, placed, pc, active, strayed>>

(* What CancelAllOrders answers, and what it leaves open.                  *)
CancelAnswer ==
  {a \in [ok : BOOLEAN, left : SUBSET open] :
     /\ ~a.ok => "cancel_error" \in Env
     /\ a.ok /\ a.left # {} => "silent_cancel" \in Env}

-----------------------------------------------------------------------------
(* cancelAllGridOrders, of which most callers ignore the error.            *)

(* Mutant: the book is emptied whatever the exchange answers.              *)
CancelAllForgets(a) ==
  /\ open' = a.left
  /\ book' = NoBook
  /\ IF a.ok
     THEN /\ level' = [i \in Level |->
               IF level[i].state = "pending" THEN EmptyLevel ELSE level[i]]
          /\ strayed' = strayed \union a.left
     ELSE UNCHANGED <<level, strayed>>

CancelAll(a) ==
  /\ open' = a.left
  /\ IF a.ok
     THEN /\ level' = [i \in Level |->
               IF level[i].state = "pending" THEN EmptyLevel ELSE level[i]]
          /\ book' = NoBook
          /\ strayed' = strayed \union a.left
     ELSE UNCHANGED <<level, book, strayed>>

(* As before a reset of all levels, which loses what stays open.           *)
CancelThenReset(a, levels) ==
  /\ open' = a.left
  /\ level' = levels
  /\ book' = IF a.ok THEN NoBook ELSE book
  /\ strayed' = strayed \union a.left

-----------------------------------------------------------------------------
(* The checks of a cycle, in their order.                                  *)

(* Run again, InitializeGrid makes new levels; orders of before stay open. *)
Restart ==
  /\ pc = "idle"
  /\ level' = NoLevels /\ book' = NoBook /\ paused' = FALSE
  /\ strayed' = strayed \union open
  /\ UNCHANGED <<open, placed, pc, active>>

(* A breakout of two per cent or more pauses the grid and ends the cycle.  *)
Breakout ==
  /\ pc = "idle"
  /\ \E a \in CancelAnswer : CancelAll(a)
  /\ paused' = TRUE
  /\ UNCHANGED <<placed, pc, active>>

(* The drawdown limit: emergencyExit cancels, closes what is held and      *)
(* pauses.                                                                 *)
Drawdown ==
  /\ pc = "idle"
  /\ \E a \in CancelAnswer : CancelAll(a)
  /\ pc' = "exit"
  /\ UNCHANGED <<paused, placed, active>>

EndExit ==
  /\ pc = "exit"
  /\ paused' = TRUE /\ pc' = "idle"
  /\ UNCHANGED <<level, book, open, placed, active, strayed>>

(* The daily loss limit pauses the grid and leaves its orders.             *)
DailyLoss ==
  /\ pc = "idle"
  /\ paused' = TRUE
  /\ UNCHANGED <<level, book, open, placed, pc, active, strayed>>

(* checkBoxBreakout, in a cycle that passes those three. No confirmed      *)
(* breakout, or one of the short box, changes nothing here; one of the mid *)
(* and of the long box pauses the grid, then cancels; with directions it   *)
(* turns the sides.                                                        *)
Box ==
  /\ pc = "idle"
  /\ \E cancels \in BOOLEAN, turns \in BOOLEAN :
       /\ paused' = (paused \/ (cancels /\ ~turns))
       /\ pc' = (IF cancels THEN "box" ELSE "recover")
  /\ UNCHANGED <<level, book, open, placed, active, strayed>>

BoxCancels ==
  /\ pc = "box"
  /\ \E a \in CancelAnswer : CancelAll(a)
  /\ pc' = "recover"
  /\ UNCHANGED <<paused, placed, active>>

(* checkFalseBreakoutRecovery resumes a grid, whoever paused it, when the  *)
(* price is within the long box; a grid still paused skips the rest, and   *)
(* without the model's decisions the cycle ends.                           *)
Recover ==
  /\ pc = "recover"
  /\ \E inBox \in BOOLEAN : paused' = (paused /\ ~inBox)
  /\ \E answered \in BOOLEAN :
       pc' = (IF paused' \/ ~answered THEN "idle" ELSE "decide")
  /\ UNCHANGED <<level, book, open, placed, active, strayed>>

-----------------------------------------------------------------------------
(* The decisions. hold, close_long and close_short change nothing here.    *)

(* Mutant: a cycle ends with its decisions.                                *)
NoSync == "idle"

(* After the decisions, or when the trader was stopped between two of      *)
(* them, the grid is synced.                                               *)
AfterDecisions == "sync"

EndDecisions ==
  /\ pc = "decide"
  /\ pc' = AfterDecisions
  /\ UNCHANGED <<grid, open, placed, active, strayed>>

(* An open order the levels lose when i is given to another, or when there *)
(* is no level i for the new one.                                          *)
Displaced(i) ==
  IF i \in Level THEN {level[i].order} \intersect open ELSE {placed + 1}

(* Mutant: an index one beyond the last is let through.                    *)
UpToCount(i) == i <= GridCount

KnownIndex(i) == i \in Level

(* placeGridLimitOrder, of an order checkTotalPositionLimit lets pass and  *)
(* the exchange accepts. What the level held before is replaced.           *)
PlaceOrder ==
  /\ pc = "decide"
  /\ placed < MaxOrders
  /\ placed' = placed + 1
  /\ open' = open \union {placed + 1}
  /\ \E i \in Level \union (IF "bad_index" \in Env THEN {GridCount} ELSE {}),
        answered \in Answers("lost_reply") :
       /\ strayed' = strayed \union
            (IF answered THEN Displaced(i) ELSE {placed + 1})
       /\ IF answered /\ KnownIndex(i)
          THEN /\ level' = [level EXCEPT ![i] =
                    [state |-> "pending", order |-> placed + 1]]
               /\ book' = [book EXCEPT ![placed + 1] = i]
          ELSE UNCHANGED <<level, book>>
  /\ UNCHANGED <<paused, pc, active>>

(* cancelGridOrder resets the level the book names for the order, also     *)
(* when that level has another order by now; the exchange may accept the   *)
(* cancel and keep the order.                                              *)
CancelOne ==
  /\ pc = "decide"
  /\ \E o \in open, cancelled \in Answers("silent_cancel") :
       /\ open' = IF cancelled THEN open \ {o} ELSE open
       /\ IF book[o] = NoLevel THEN UNCHANGED <<level, book, strayed>>
          ELSE /\ level' = [level EXCEPT ![book[o]] = EmptyLevel]
               /\ book' = [book EXCEPT ![o] = NoLevel]
               /\ strayed' = strayed \union
                    (({o} \union {level[book[o]].order}) \intersect open')
  /\ UNCHANGED <<paused, placed, pc, active>>

(* cancel_all_orders, and pause_grid, which ignores its error.             *)
CancelDecision ==
  /\ pc = "decide"
  /\ \E a \in CancelAnswer : CancelAll(a)
  /\ \E pauses \in BOOLEAN : paused' = (paused \/ pauses)
  /\ UNCHANGED <<placed, pc, active>>

Resume ==
  /\ pc = "decide"
  /\ paused' = FALSE
  /\ UNCHANGED <<level, book, open, placed, pc, active, strayed>>

(* adjust_grid makes all levels anew, the filled ones too, whether or not  *)
(* the orders could be cancelled.                                          *)
Adjust ==
  /\ pc = "decide"
  /\ \E a \in CancelAnswer : CancelThenReset(a, NoLevels)
  /\ UNCHANGED <<paused, placed, pc, active>>

-----------------------------------------------------------------------------
(* syncGridState.                                                          *)

(* GetOpenOrders; when it fails the cycle ends, without a stop loss.       *)
AskOrders ==
  /\ pc = "sync"
  /\ \/ /\ \E list \in SUBSET open :
             /\ list # open => "short_list" \in Env
             /\ active' = list
        /\ pc' = "judge"
     \/ "query_error" \in Env /\ pc' = "idle" /\ UNCHANGED active
  /\ UNCHANGED <<grid, open, placed, strayed>>

(* Mutant: a pending order counts as gone before the exchange is asked.    *)
AllVanished(i) == level[i].state = "pending"

Vanished(i) == level[i].state = "pending" /\ level[i].order \notin active

(* A pending order that is gone was filled if more is held, as far as      *)
(* GetPositions says, than the filled levels explain, else cancelled; all  *)
(* that vanished are judged alike. Of a cancelled one the book keeps its   *)
(* entry.                                                                  *)
Judge ==
  /\ pc = "judge"
  /\ \E filled \in BOOLEAN :
       /\ level' = [i \in Level |->
            IF ~Vanished(i) THEN level[i]
            ELSE IF filled THEN [level[i] EXCEPT !.state = "filled"]
            ELSE EmptyLevel]
       /\ book' = [o \in OrderId |->
            IF filled /\ \E i \in Level : Vanished(i) /\ level[i].order = o
            THEN NoLevel ELSE book[o]]
  /\ strayed' = strayed \union (open \ active)
  /\ active' = {} /\ pc' = "stoploss"
  /\ UNCHANGED <<paused, open, placed>>

(* checkAndExecuteStopLoss closes filled levels whose loss is too large,   *)
(* one by one; a closing that fails leaves its level as it is.             *)
StopLoss ==
  /\ pc = "stoploss"
  /\ \E i \in InState("filled") : level' = [level EXCEPT ![i].state = "stopped"]
  /\ UNCHANGED <<book, paused, open, placed, pc, active, strayed>>

(* checkGridSkew ends the cycle, or finds the filled levels on one side.   *)
CheckSkew ==
  /\ pc = "stoploss"
  /\ pc' \in {"idle"} \union (IF InState("filled") = {} THEN {} ELSE {"skew"})
  /\ UNCHANGED <<grid, open, placed, active, strayed>>

(* autoAdjustGrid gives a skewed grid new levels around the price; each    *)
(* filled one moves to the level nearest to its entry, and of two that     *)
(* meet one is left.                                                       *)
Moved(last) ==
  [j \in Level |-> IF j \in DOMAIN last THEN level[last[j]] ELSE EmptyLevel]

AutoAdjust ==
  /\ pc = "skew"
  /\ \E target \in [InState("filled") -> Level], a \in CancelAnswer :
       \E last \in [{target[i] : i \in InState("filled")} -> InState("filled")] :
         /\ \A j \in DOMAIN last : target[last[j]] = j
         /\ CancelThenReset(a, Moved(last))
  /\ pc' = "idle"
  /\ UNCHANGED <<paused, placed, active>>

-----------------------------------------------------------------------------
Check == Breakout \/ Drawdown \/ EndExit \/ DailyLoss \/ Box \/ BoxCancels
Decision == EndDecisions \/ PlaceOrder \/ CancelOne
              \/ CancelDecision \/ Resume \/ Adjust
Sync == AskOrders \/ Judge \/ StopLoss \/ CheckSkew \/ AutoAdjust

Cycle == Check \/ Recover \/ Decision \/ Sync

Next ==
  \/ \E o \in OrderId : Fill(o) \/ Expire(o)
  \/ Restart \/ Cycle

Spec == Init /\ [][Next]_vars

(* The ticker brings cycle after cycle, every call and every list of       *)
(* decisions ends, and the model and the exchange do not fail for ever.    *)
Fairness ==
  /\ WF_vars(Cycle)
  /\ SF_vars(EndDecisions)
  /\ SF_vars(Recover /\ pc' = "decide")
  /\ SF_vars(AskOrders /\ pc' = "judge")

FairSpec == Spec /\ Fairness

-----------------------------------------------------------------------------
(* The values every variable keeps to; a pending level has an order that   *)
(* was placed.                                                             *)
TypeOK ==
  /\ level \in [Level -> [state : {"empty", "pending", "filled", "stopped"},
                          order : 0..placed]]
  /\ book \in [OrderId -> Level \union {NoLevel}]
  /\ \A i \in Level : level[i].state = "pending" => level[i].order \in OrderId
  /\ paused \in BOOLEAN
  /\ placed \in 0..MaxOrders /\ open \subseteq 1..placed
  /\ pc \in {"idle", "exit", "box", "recover", "decide",
             "sync", "judge", "stoploss", "skew"}
  /\ active \subseteq OrderId /\ strayed \subseteq OrderId

(* Every open order is the order of a pending level, so that sync, limit   *)
(* and the model know of it, but for those lost to something nobody saw:   *)
(* replaced on their level, placed beyond the grid or without an answer,   *)
(* open after a cancel that answered well or before new levels, missing    *)
(* from the exchange's list.                                               *)
OpenOrdersTracked ==
  \A o \in open \ strayed :
    \E i \in Level : level[i].state = "pending" /\ level[i].order = o

(* The order of a pending level is in the book under that level, so that a *)
(* cancel of the order frees the level, whatever entries of earlier orders *)
(* the book has kept and whichever calls failed before.                    *)
PendingInBook ==
  \A i \in Level : level[i].state = "pending" => book[level[i].order] = i

(* An order the levels track and that is gone at the exchange is noticed,  *)
(* so that its level is free or filled, unless the grid is paused first.   *)
VanishedNoticed ==
  \A i \in Level, o \in OrderId :
    (level[i].state = "pending" /\ level[i].order = o /\ o \notin open)
      ~> (level[i].state # "pending" \/ level[i].order # o \/ paused)
=============================================================================
