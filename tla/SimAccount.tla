----------------------------- MODULE SimAccount -----------------------------
(***************************************************************************)
(* The simulation account of one prediction trader: the ledgers in memory, *)
(* the account and position rows and the fill rows in the store, and the   *)
(* threads that change them: the trader's cycle, a manual sell, the redeem *)
(* endpoint, which works on a ledger of its own, and the reset endpoint.   *)
(*                                                                         *)
(* A ledger operation is one step (Ledger.mu). Saving a ledger is not: its *)
(* positions are read, then its cash, then both are written.               *)
(***************************************************************************)
EXTENDS Integers, FiniteSets

CONSTANTS
  Token,            \* outcome tokens
  Condition,        \* Condition[x]: the condition x is an outcome of
  Price, Lot, Unit, InitialBalance,   \* as in Account
  Threads,          \* threads present (ThreadKind)
  Failures,         \* database calls that may fail (FailureKind)
  MaxFills,         \* bound: trades and redemptions in a behaviour
  MaxCrashes,       \* bound: process crashes in a behaviour
  NoToken

ThreadKind == {"cycle", "sell", "redeem", "reset"}
FailureKind == {"load", "save", "fill"}

ASSUME SimAssumption ==
  /\ NoToken \notin Token
  /\ Threads \subseteq ThreadKind
  /\ Failures \subseteq FailureKind
  /\ Price \subseteq Nat \ {0}
  /\ Lot \subseteq Nat \ {0}
  /\ Unit \in Nat \ {0}
  /\ InitialBalance \in Nat
  /\ MaxFills \in Nat /\ MaxCrashes \in Nat

(* "old" is the cycle that was running when a reset removed its trader.    *)
Thread == ThreadKind \union {"old"}

(* Ledgers: of the trader before and after a reset, and of the redeem      *)
(* endpoint's request.                                                     *)
Slot == {"run1", "run2", "api"}

Conditions == {Condition[x] : x \in Token}

VARIABLES
  ledger,        \* slot -> [cash, shares]
  runtime,       \* the slot of the manager's trader, "none" when removed
  account,       \* the account row: [exists, cash]
  positions,     \* token -> shares of its position row, 0 when absent
  fillCash,      \* what the fill rows paid in, less what they paid out
  fillShares,    \* token -> shares the fill rows brought in
  winner,        \* condition -> its winning token, NoToken while open
  pc,            \* thread -> the next step
  hold,          \* thread -> the slot it works on
  todo,          \* thread -> conditions listed for redemption
  found,         \* thread -> the holding it is to redeem: [token, shares, pay]
  fill,          \* thread -> the fill to record: [token, shares, cash]
  seenShares,    \* thread -> positions it has read to save
  seenCash,      \* thread -> cash it has read to save
  fills,         \* ledger operations so far
  crashes,
  resets,
  misstated      \* tokens redeemed when a sale had come in between

store == <<account, positions, fillCash, fillShares>>
memo == <<found, fill, seenShares, seenCash>>
locals == <<hold, todo, memo>>
history == <<fills, crashes, resets, misstated>>
vars == <<ledger, runtime, store, winner, pc, locals, history>>

NoShares == [x \in Token |-> 0]
Fresh == [cash |-> InitialBalance, shares |-> NoShares]   \* NewLedger
NotFound == [token |-> NoToken, shares |-> 0, pay |-> 0]
NoFill == [token |-> NoToken, shares |-> 0, cash |-> 0]

Goto(t, s) == pc' = [pc EXCEPT ![t] = s]

Init ==
  /\ ledger = [s \in Slot |-> Fresh]
  /\ runtime = "run1"
  /\ account = [exists |-> TRUE, cash |-> InitialBalance]
  /\ positions = NoShares
  /\ fillCash = 0
  /\ fillShares = NoShares
  /\ winner = [c \in Conditions |-> NoToken]
  /\ pc = [t \in Thread |-> "idle"]
  /\ hold = [t \in Thread |-> "run1"]
  /\ todo = [t \in Thread |-> {}]
  /\ found = [t \in Thread |-> NotFound]
  /\ fill = [t \in Thread |-> NoFill]
  /\ seenShares = [t \in Thread |-> NoShares]
  /\ seenCash = [t \in Thread |-> 0]
  /\ fills = 0 /\ crashes = 0 /\ resets = 0 /\ misstated = {}

-----------------------------------------------------------------------------
(* Ledger operations.                                                      *)

Bought(l, x, n, p) ==
  [cash |-> l.cash - n * p, shares |-> [l.shares EXCEPT ![x] = @ + n]]
Sold(l, x, n, p) ==
  [cash |-> l.cash + n * p, shares |-> [l.shares EXCEPT ![x] = @ - n]]

(* Mutant: a redeemed holding stays.                                       *)
PaidAndKept(l, x, pay) == [l EXCEPT !.cash = @ + l.shares[x] * pay]

(* RedeemPosition.                                                         *)
Redeemed(l, x, pay) ==
  [cash |-> l.cash + l.shares[x] * pay, shares |-> [l.shares EXCEPT ![x] = 0]]

(* Mutant: the cost is not checked against the cash.                       *)
AlwaysAfford(l, n, p) == TRUE

(* ApplyBuy's check.                                                       *)
CanAfford(l, n, p) == n * p <= l.cash

(* ApplySell's check.                                                      *)
Holds(l, x, n) == n <= l.shares[x]

Held(l) == {x \in Token : l.shares[x] > 0}

(* The conditions of the holdings that won, or whose winner is unknown.    *)
Redeemable(l) ==
  {Condition[x] : x \in {y \in Held(l) : winner[Condition[y]] \in {y, NoToken}}}

(* FindRedeemablePositions lists those that won, and of the others those   *)
(* of closed markets with a price close to one; it leaves out the markets  *)
(* it cannot ask about.                                                    *)
FindRedeemable(t, l) ==
  \E cs \in SUBSET Redeemable(l) : todo' = [todo EXCEPT ![t] = cs]

(* simPayoutForPosition: by the resolution; before it, by whether the      *)
(* token's price is close to one.                                          *)
Payouts(x) ==
  IF winner[Condition[x]] = NoToken THEN {0, Unit}
  ELSE {IF winner[Condition[x]] = x THEN Unit ELSE 0}

(* A thread changes the ledger it holds and has a fill row to insert.      *)
Apply(t, l, x, n, usd) ==
  /\ fills < MaxFills
  /\ fills' = fills + 1
  /\ ledger' = [ledger EXCEPT ![hold[t]] = l]
  /\ fill' = [fill EXCEPT ![t] = [token |-> x, shares |-> n, cash |-> usd]]
  /\ Goto(t, "fill")
  /\ UNCHANGED <<runtime, store, winner, hold, seenShares, seenCash, crashes,
                 resets>>

-----------------------------------------------------------------------------
(* The cycle and the manual sell.                                          *)

Cycle == {"cycle", "old"}

(* runCycle starts: tryAutoRedeem lists what it can redeem.                *)
BeginCycle ==
  /\ "cycle" \in Threads
  /\ pc["cycle"] = "idle" /\ runtime # "none"
  /\ hold' = [hold EXCEPT !["cycle"] = runtime]
  /\ FindRedeemable("cycle", ledger[runtime])
  /\ Goto("cycle", "redeem")
  /\ UNCHANGED <<ledger, runtime, store, winner, memo,
                 history>>

(* PlaceLimitOrder BUY: the quote fills and ApplyBuy takes it.             *)
Buy(t, x, n, p) ==
  /\ t \in Cycle
  /\ pc[t] = "exec"
  /\ CanAfford(ledger[hold[t]], n, p)
  /\ Apply(t, Bought(ledger[hold[t]], x, n, p), x, n, -(n * p))
  /\ UNCHANGED <<todo, found, misstated>>

(* PlaceLimitOrder SELL: ApplySell takes it.                               *)
Sell(t, x, n, p) ==
  /\ t \in Cycle \union {"sell"}
  /\ pc[t] = "exec"
  /\ Holds(ledger[hold[t]], x, n)
  /\ Apply(t, Sold(ledger[hold[t]], x, n, p), x, -n, n * p)
  /\ UNCHANGED <<todo, found, misstated>>

(* A redeem decision names a market, resolved or not, or none: then it     *)
(* covers what is redeemable.                                              *)
DecideRedeem(t) ==
  /\ t \in Cycle
  /\ pc[t] = "exec"
  /\ \/ \E c \in Conditions : todo' = [todo EXCEPT ![t] = {c}]
     \/ FindRedeemable(t, ledger[hold[t]])
  /\ Goto(t, "redeem")
  /\ UNCHANGED <<ledger, runtime, store, winner, hold, memo, history>>

(* The cycle's decisions are done, and its snapshot is taken.              *)
EndCycle(t) ==
  /\ t \in Cycle
  /\ pc[t] = "exec"
  /\ Goto(t, "idle")
  /\ UNCHANGED <<ledger, runtime, store, winner, locals, history>>

(* handlePredictionSell takes the manager's trader.                        *)
BeginSell ==
  /\ "sell" \in Threads
  /\ pc["sell"] = "idle" /\ runtime # "none"
  /\ hold' = [hold EXCEPT !["sell"] = runtime]
  /\ Goto("sell", "exec")
  /\ UNCHANGED <<ledger, runtime, store, winner, todo, memo, history>>

(* The sell was rejected.                                                  *)
EndSell ==
  /\ pc["sell"] = "exec"
  /\ Goto("sell", "idle")
  /\ UNCHANGED <<ledger, runtime, store, winner, locals, history>>

-----------------------------------------------------------------------------
(* Redemption, by a cycle or by the redeem endpoint.                       *)

(* RedeemCondition finds some holding of the condition and asks what it    *)
(* pays; it fails when there is none, or neither the market nor the price  *)
(* can be had.                                                             *)
RedeemCondition(t, c) ==
  /\ pc[t] = "redeem" /\ c \in todo[t]
  /\ todo' = [todo EXCEPT ![t] = @ \ {c}]
  /\ LET l == ledger[hold[t]]
         own == {x \in Held(l) : Condition[x] = c}
     IN \/ /\ \E x \in own : \E pay \in Payouts(x) :
               found' = [found EXCEPT ![t] = [token |-> x, shares |-> l.shares[x],
                                              pay |-> pay]]
           /\ Goto(t, "payout")
        \/ UNCHANGED <<found, pc>>
  /\ UNCHANGED <<ledger, runtime, store, winner, hold, fill, seenShares,
                 seenCash, history>>

(* RedeemPosition takes what the ledger holds by now; the fill row gets    *)
(* the shares that were found.                                             *)
RedeemPosition(t, x) ==
  /\ pc[t] = "payout" /\ x = found[t].token
  /\ LET l == ledger[hold[t]]
     IN /\ x \in Held(l)
        /\ Apply(t, Redeemed(l, x, found[t].pay), x, -found[t].shares,
                 l.shares[x] * found[t].pay)
        /\ misstated' = (IF l.shares[x] = found[t].shares THEN misstated
                         ELSE misstated \union {x})
  /\ found' = [found EXCEPT ![t] = NotFound]
  /\ UNCHANGED todo

(* The holding is gone.                                                    *)
RedeemFails(t) ==
  /\ pc[t] = "payout"
  /\ found[t].token \notin Held(ledger[hold[t]])
  /\ found' = [found EXCEPT ![t] = NotFound]
  /\ Goto(t, "redeem")
  /\ UNCHANGED <<ledger, runtime, store, winner, hold, todo, fill, seenShares,
                 seenCash, history>>

EndRedeem(t) ==
  /\ pc[t] = "redeem" /\ todo[t] = {}
  /\ Goto(t, IF t \in Cycle THEN "exec" ELSE "idle")
  /\ UNCHANGED <<ledger, runtime, store, winner, locals, history>>

-----------------------------------------------------------------------------
(* After a ledger operation: the fill row, then saveLedger.                *)

(* Mutant: the fill row is not inserted.                                   *)
RecordNothing(t) ==
  /\ pc[t] = "fill"
  /\ fill' = [fill EXCEPT ![t] = NoFill]
  /\ Goto(t, "positions")
  /\ UNCHANGED <<ledger, runtime, store, winner, hold, todo, found, seenShares,
                 seenCash, history>>

(* SaveSimFill inserts the row.                                            *)
RecordFill(t) ==
  /\ pc[t] = "fill"
  /\ fillCash' = fillCash + fill[t].cash
  /\ fillShares' = [fillShares EXCEPT ![fill[t].token] = @ + fill[t].shares]
  /\ fill' = [fill EXCEPT ![t] = NoFill]
  /\ Goto(t, "positions")
  /\ UNCHANGED <<ledger, runtime, account, positions, winner, hold, todo,
                 found, seenShares, seenCash, history>>

(* The insert fails; its error is dropped.                                 *)
FillLost(t) ==
  /\ "fill" \in Failures
  /\ pc[t] = "fill"
  /\ fill' = [fill EXCEPT ![t] = NoFill]
  /\ Goto(t, "positions")
  /\ UNCHANGED <<ledger, runtime, store, winner, hold, todo, found, seenShares,
                 seenCash, history>>

ReadPositions(t) ==
  /\ pc[t] = "positions"
  /\ seenShares' = [seenShares EXCEPT ![t] = ledger[hold[t]].shares]
  /\ Goto(t, "cash")
  /\ UNCHANGED <<ledger, runtime, store, winner, hold, todo, fill, found, seenCash,
                 history>>

ReadCash(t) ==
  /\ pc[t] = "cash"
  /\ seenCash' = [seenCash EXCEPT ![t] = ledger[hold[t]].cash]
  /\ Goto(t, "save")
  /\ UNCHANGED <<ledger, runtime, store, winner, hold, todo, fill, found, seenShares,
                 history>>

(* Mutant: the positions are not written with the cash.                    *)
SaveCashOnly(c, s) ==
  /\ account' = [exists |-> TRUE, cash |-> c]
  /\ UNCHANGED positions

(* Mutant: the transaction is rolled back.                                 *)
SaveNothing(c, s) == UNCHANGED <<account, positions>>

(* SaveSimState writes both rows in one transaction.                       *)
SaveSimState(c, s) ==
  /\ account' = [exists |-> TRUE, cash |-> c]
  /\ positions' = s

(* saveLedger drops the error of a transaction that failed.                *)
SaveLedger(t) ==
  /\ pc[t] = "save"
  /\ \/ SaveSimState(seenCash[t], seenShares[t])
     \/ "save" \in Failures /\ UNCHANGED <<account, positions>>
  /\ seenShares' = [seenShares EXCEPT ![t] = NoShares]
  /\ seenCash' = [seenCash EXCEPT ![t] = 0]
  /\ Goto(t, IF t = "sell" THEN "idle"
             ELSE IF t \in Cycle /\ todo[t] = {} THEN "exec" ELSE "redeem")
  /\ UNCHANGED <<ledger, runtime, fillCash, fillShares, winner, hold, todo,
                 found, fill, history>>

-----------------------------------------------------------------------------
(* Building a venue: InitLedgerInStore, then LoadLedgerFromStore, for the  *)
(* redeem endpoint's request and for the trader loaded after a reset. The  *)
(* errors of both are dropped.                                             *)

Building(t) == t \in {"redeem", "reset"}

(* handlePredictionRedeem builds a venue of its own.                       *)
BeginApiRedeem ==
  /\ "redeem" \in Threads
  /\ pc["redeem"] = "idle"
  /\ hold' = [hold EXCEPT !["redeem"] = "api"]
  /\ ledger' = [ledger EXCEPT !["api"] = Fresh]
  /\ Goto("redeem", "init")
  /\ UNCHANGED <<runtime, store, winner, todo, memo,
                 history>>

InitLedger(t) ==
  /\ Building(t)
  /\ pc[t] = "init"
  /\ Goto(t, IF account.exists THEN "loadcash" ELSE "create")
  /\ UNCHANGED <<ledger, runtime, store, winner, locals, history>>

CreateAccount(t) ==
  /\ Building(t)
  /\ pc[t] = "create"
  /\ \/ SaveSimState(InitialBalance, NoShares)
     \/ "save" \in Failures /\ UNCHANGED <<account, positions>>
  /\ Goto(t, "loadcash")
  /\ UNCHANGED <<ledger, runtime, fillCash, fillShares, winner, locals, history>>

(* LoadSimAccount: without a row the ledger stays as it is.                *)
LoadCash(t) ==
  /\ Building(t)
  /\ pc[t] = "loadcash"
  /\ IF account.exists
     THEN /\ ledger' = [ledger EXCEPT ![hold[t]].cash = account.cash]
          /\ Goto(t, "loadpositions")
     ELSE /\ UNCHANGED ledger
          /\ Goto(t, "built")
  /\ UNCHANGED <<runtime, store, winner, locals, history>>

(* ListSimPositions, a second query.                                       *)
LoadPositions(t) ==
  /\ Building(t)
  /\ pc[t] = "loadpositions"
  /\ ledger' = [ledger EXCEPT ![hold[t]].shares = positions]
  /\ Goto(t, "built")
  /\ UNCHANGED <<runtime, store, winner, locals, history>>

(* A query fails: the account is not created, or the ledger keeps the      *)
(* positions, or all, of a new one.                                        *)
LoadFails(t) ==
  /\ "load" \in Failures
  /\ Building(t)
  /\ pc[t] \in {"init", "loadcash", "loadpositions"}
  /\ Goto(t, IF pc[t] = "init" THEN "loadcash" ELSE "built")
  /\ UNCHANGED <<ledger, runtime, store, winner, locals, history>>

(* The endpoint lists what it redeems.                                     *)
ApiFindRedeemable ==
  /\ pc["redeem"] = "built"
  /\ FindRedeemable("redeem", ledger["api"])
  /\ Goto("redeem", "redeem")
  /\ UNCHANGED <<ledger, runtime, store, winner, hold, memo, history>>

-----------------------------------------------------------------------------
(* handlePredictionSimReset.                                               *)

(* DeleteSimData deletes the fills ...                                     *)
BeginReset ==
  /\ "reset" \in Threads
  /\ pc["reset"] = "idle" /\ resets = 0
  /\ resets' = 1
  /\ fillCash' = 0
  /\ fillShares' = NoShares
  /\ Goto("reset", "wipepositions")
  /\ UNCHANGED <<ledger, runtime, account, positions, winner, locals, fills,
                 crashes, misstated>>

(* ... then the positions ...                                              *)
WipePositions ==
  /\ pc["reset"] = "wipepositions"
  /\ positions' = NoShares
  /\ Goto("reset", "wipeaccount")
  /\ UNCHANGED <<ledger, runtime, account, fillCash, fillShares, winner,
                 locals, history>>

(* ... then the account.                                                   *)
WipeAccount ==
  /\ pc["reset"] = "wipeaccount"
  /\ account' = [exists |-> FALSE, cash |-> 0]
  /\ Goto("reset", "fresh")
  /\ UNCHANGED <<ledger, runtime, positions, fillCash, fillShares, winner,
                 locals, history>>

(* The fresh account is saved.                                             *)
SaveFresh ==
  /\ pc["reset"] = "fresh"
  /\ SaveSimState(InitialBalance, NoShares)
  /\ Goto("reset", "remove")
  /\ UNCHANGED <<ledger, runtime, fillCash, fillShares, winner, locals, history>>

(* A statement fails, and the request ends where it is.                    *)
ResetFails ==
  /\ "save" \in Failures
  /\ pc["reset"] \in {"wipepositions", "wipeaccount", "fresh"}
  /\ Goto("reset", "idle")
  /\ UNCHANGED <<ledger, runtime, store, winner, locals, history>>

(* Only now RemoveTrader stops the trader. Its running cycle goes on:      *)
(* shouldAbortExecution is never true after Stop.                          *)
RemoveTrader ==
  /\ pc["reset"] = "remove"
  /\ runtime' = "none"
  /\ hold' = [hold EXCEPT !["old"] = hold["cycle"], !["reset"] = "run2"]
  /\ todo' = [todo EXCEPT !["old"] = todo["cycle"], !["cycle"] = {}]
  /\ found' = [found EXCEPT !["old"] = found["cycle"], !["cycle"] = NotFound]
  /\ fill' = [fill EXCEPT !["old"] = fill["cycle"], !["cycle"] = NoFill]
  /\ seenShares' = [seenShares EXCEPT !["old"] = seenShares["cycle"],
                                      !["cycle"] = NoShares]
  /\ seenCash' = [seenCash EXCEPT !["old"] = seenCash["cycle"], !["cycle"] = 0]
  /\ pc' = [pc EXCEPT !["old"] = pc["cycle"], !["cycle"] = "idle",
                      !["reset"] = "init"]
  /\ UNCHANGED <<ledger, store, winner, history>>

(* The trader is loaded again, with the ledger built for it.               *)
InstallTrader ==
  /\ pc["reset"] = "built"
  /\ runtime' = "run2"
  /\ Goto("reset", "idle")
  /\ UNCHANGED <<ledger, store, winner, locals, history>>

-----------------------------------------------------------------------------
(* The environment.                                                        *)

(* A market closes with a winning outcome.                                 *)
Resolve(x) ==
  /\ winner[Condition[x]] = NoToken
  /\ winner' = [winner EXCEPT ![Condition[x]] = x]
  /\ UNCHANGED <<ledger, runtime, store, pc, locals, history>>

(* What a new process may load of an account: all of it, or, when a query  *)
(* fails, its cash or nothing.                                             *)
Loadable(a, s) ==
  LET whole == [cash |-> a.cash, shares |-> s]
  IN IF ~a.exists THEN {Fresh}
     ELSE IF "load" \in Failures
          THEN {whole, [whole EXCEPT !.shares = NoShares], Fresh}
          ELSE {whole}

(* The process dies; the next one loads its trader from the store before   *)
(* it serves requests.                                                     *)
Crash ==
  /\ crashes < MaxCrashes
  /\ crashes' = crashes + 1
  /\ \/ ~account.exists /\ SaveSimState(InitialBalance, NoShares)
     \/ /\ account.exists \/ {"load", "save"} \intersect Failures # {}
        /\ UNCHANGED <<account, positions>>
  /\ \E l \in Loadable(account', positions') :
       ledger' = [s \in Slot |-> IF s = "run1" THEN l ELSE Fresh]
  /\ runtime' = "run1"
  /\ pc' = [t \in Thread |-> "idle"]
  /\ hold' = [t \in Thread |-> "run1"]
  /\ todo' = [t \in Thread |-> {}]
  /\ found' = [t \in Thread |-> NotFound]
  /\ fill' = [t \in Thread |-> NoFill]
  /\ seenShares' = [t \in Thread |-> NoShares]
  /\ seenCash' = [t \in Thread |-> 0]
  /\ UNCHANGED <<fillCash, fillShares, winner, fills, resets, misstated>>

-----------------------------------------------------------------------------
TraderStep(t) ==
  \/ \E x \in Token, n \in Lot, p \in Price : Buy(t, x, n, p) \/ Sell(t, x, n, p)
  \/ DecideRedeem(t) \/ EndCycle(t) \/ EndRedeem(t)
  \/ \E c \in Conditions : RedeemCondition(t, c)
  \/ (\E x \in Token : RedeemPosition(t, x)) \/ RedeemFails(t)
  \/ RecordFill(t) \/ FillLost(t) \/ ReadPositions(t) \/ ReadCash(t) \/ SaveLedger(t)
  \/ InitLedger(t) \/ CreateAccount(t) \/ LoadCash(t) \/ LoadPositions(t)
  \/ LoadFails(t)

ResetStep ==
  \/ BeginReset \/ WipePositions \/ WipeAccount \/ SaveFresh \/ ResetFails
  \/ RemoveTrader \/ InstallTrader

Next ==
  \/ BeginCycle \/ BeginSell \/ EndSell
  \/ BeginApiRedeem \/ ApiFindRedeemable
  \/ \E t \in Thread : TraderStep(t)
  \/ ResetStep
  \/ \E x \in Token : Resolve(x)
  \/ Crash

Spec == Init /\ [][Next]_vars

-----------------------------------------------------------------------------
(* Properties.                                                             *)

Step ==
  {"idle", "redeem", "payout", "exec", "fill", "positions", "cash", "save", "init",
   "create", "loadcash", "loadpositions", "built", "wipepositions",
   "wipeaccount", "fresh", "remove"}

(* Types, by group; no ledger and no stored account owes cash or shares,   *)
(* whatever runs beside what.                                              *)
LedgerTypes == ledger \in [Slot -> [cash : Nat, shares : [Token -> Nat]]]
StoreTypes ==
  /\ account \in [exists : BOOLEAN, cash : Nat]
  /\ positions \in [Token -> Nat]
  /\ fillCash \in Int /\ fillShares \in [Token -> Int]
ControlTypes ==
  /\ runtime \in Slot \union {"none"}
  /\ pc \in [Thread -> Step]
  /\ hold \in [Thread -> Slot]
  /\ todo \in [Thread -> SUBSET Conditions]
FoundTypes ==
  found \in [Thread -> [token : Token \union {NoToken}, shares : Nat, pay : {0, Unit}]]
ValueTypes ==
  /\ fill \in [Thread -> [token : Token \union {NoToken}, shares : Int, cash : Int]]
  /\ seenShares \in [Thread -> [Token -> Nat]]
  /\ seenCash \in [Thread -> Nat]
HistoryTypes ==
  fills \in Nat /\ crashes \in Nat /\ resets \in 0..1 /\ misstated \subseteq Token
MarketTypes ==
  winner \in [Conditions -> Token \union {NoToken}]
TypeOK ==
  /\ LedgerTypes /\ StoreTypes /\ ControlTypes
  /\ FoundTypes /\ ValueTypes /\ HistoryTypes /\ MarketTypes

Idle == \A t \in Thread : pc[t] = "idle"

(* What the store holds changes like one account: with the cycle alone,    *)
(* every saved state follows from the one before by one whole trade or     *)
(* redemption, also over a crash.                                          *)
Durable == INSTANCE Account WITH cash <- account.cash, shares <- positions
AccountImplemented == Durable!Spec

(* What the trader holds in memory changes like one account too, with a    *)
(* manual sell beside the cycle, a redeem request and a reset.             *)
InRun1 == INSTANCE Account
  WITH cash <- ledger["run1"].cash, shares <- ledger["run1"].shares
InRun2 == INSTANCE Account
  WITH cash <- ledger["run2"].cash, shares <- ledger["run2"].shares
LedgersTradeOnly ==
  [][crashes' = crashes /\ runtime' = runtime =>
       /\ runtime = "run1" => InRun1!Next \/ UNCHANGED ledger["run1"]
       /\ runtime = "run2" => InRun2!Next \/ UNCHANGED ledger["run2"]]_vars

(* Between operations the store holds what the trader holds.               *)
StoredIsCurrent ==
  Idle => /\ account.cash = ledger[runtime].cash
          /\ positions = ledger[runtime].shares

(* Nothing but the trader itself has touched the account: not the redeem   *)
(* endpoint, not a reset, not a crash.                                     *)
OwnAccount == hold["redeem"] # "api" /\ resets = 0 /\ crashes = 0

(* Between operations the fill rows pay in and out what the trader's cash  *)
(* shows and bring in the shares it holds, with a manual sell beside the   *)
(* cycle: no trade is missing from them and none is in them twice          *)
(* (SaveSimFill, saveLedger). Only the shares of a token redeemed while it *)
(* was being sold are misstated.                                           *)
FillsExplainLedger ==
  Idle /\ OwnAccount =>
    /\ ledger[runtime].cash = InitialBalance + fillCash
    /\ \A x \in Token \ misstated : ledger[runtime].shares[x] = fillShares[x]
=============================================================================
