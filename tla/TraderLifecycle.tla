--------------------------- MODULE TraderLifecycle ---------------------------
(***************************************************************************)
(* Starting and stopping one prediction trader: its row, the instances the *)
(* manager makes of it, the goroutines that run its loops, and the         *)
(* requests that start, stop, update, reset, delete, load and run it once. *)
(*                                                                         *)
(* What a cycle does is not modelled here, only that it holds cycleMu and  *)
(* takes its time. It always runs to its end: Run and Stop set loopActive  *)
(* and isRunning together, so shouldAbortExecution is false in every state *)
(* and neither it nor loopActive is modelled. Run and the loops read       *)
(* pt.stopCh without a lock: they are given the value of that moment. The  *)
(* database answers.                                                       *)
(***************************************************************************)
EXTENDS Integers, FiniteSets

CONSTANTS
  Request,        \* request threads of the API server
  Goroutine,      \* slots for the goroutines of the loops
  Ops,            \* operations requests ask for
  FastLoop,       \* instances whose strategy has FastLoopSec
  MaxInstances,   \* bound: instances made by one process
  MaxRequests,    \* bound: requests in a behaviour
  MaxCrashes      \* bound: process crashes in a behaviour

(* "update" leaves the private key alone, "rekey" is an update with a new  *)
(* one. "load" stands for every other request that loads the traders.      *)
Op == {"start", "stop", "update", "rekey", "reset", "delete", "once", "load"}

Instance == 1..MaxInstances

ASSUME LifecycleAssumption ==
  /\ Ops \subseteq Op
  /\ FastLoop \subseteq Instance
  /\ MaxInstances \in Nat \ {0}
  /\ MaxRequests \in Nat /\ MaxCrashes \in Nat

None == 0

VARIABLES
  row,         \* the trader's row: [exists, running]
  current,     \* the manager's instance, None when there is none
  made,        \* instances made
  isRunning,   \* instance -> isRunning
  stopCh,      \* instance -> its stop channel, counted from 0
  closed,      \* instance -> channels closed
  panicked,    \* a closed channel was closed again
  holder,      \* instance -> who holds cycleMu
  at,          \* goroutine -> where it is
  of,          \* goroutine -> its instance
  on,          \* goroutine -> the channel its select waits on
  kind,        \* goroutine -> "start", "auto" or "fast"
  pc,          \* request -> its next step
  op,          \* request -> what it does
  got,         \* request -> the instance it got from the manager
  seen,        \* request -> the is_running it read
  copy,        \* request -> the is_running of the row it will write back
  requests,    \* requests so far
  crashes

runtime == <<isRunning, stopCh, closed, panicked>>
loops == <<at, of, on, kind>>
handler == <<pc, op, got, seen, copy>>
bounds == <<requests, crashes>>
vars == <<row, current, made, runtime, holder, loops, handler, bounds>>

Nobody == "nobody"
Main == {"start", "auto"}      \* kinds of goroutine that called Run
Free == {g \in Goroutine : at[g] = "free"}

Goto(r, s) == pc' = [pc EXCEPT ![r] = s]
Move(g, s) == at' = [at EXCEPT ![g] = s]

(* LoadTradersFromStore makes an instance of a row, and a goroutine that   *)
(* runs it if the row says so.                                             *)
AutoStarted(auto) ==
  {a \in [Goroutine -> {"free", "run"}] :
     Cardinality({g \in Goroutine : a[g] = "run"}) = IF auto THEN 1 ELSE 0}

Init ==
  /\ row \in [exists : {TRUE}, running : BOOLEAN]
  /\ current = 1 /\ made = 1
  /\ isRunning = [i \in Instance |-> FALSE]
  /\ stopCh = [i \in Instance |-> 0]
  /\ closed = [i \in Instance |-> {}]
  /\ panicked = FALSE
  /\ holder = [i \in Instance |-> Nobody]
  /\ at \in AutoStarted(row.running)
  /\ of = [g \in Goroutine |-> 1]
  /\ on = [g \in Goroutine |-> 0]
  /\ kind = [g \in Goroutine |-> "auto"]
  /\ pc = [r \in Request |-> "idle"]
  /\ op = [r \in Request |-> "load"]
  /\ got = [r \in Request |-> None]
  /\ seen = [r \in Request |-> FALSE]
  /\ copy = [r \in Request |-> FALSE]
  /\ requests = 0 /\ crashes = 0

(* The process dies and starts again from the row.                         *)
Crash ==
  /\ crashes < MaxCrashes
  /\ crashes' = crashes + 1
  /\ current' = IF row.exists THEN 1 ELSE None
  /\ made' = IF row.exists THEN 1 ELSE 0
  /\ isRunning' = [i \in Instance |-> FALSE]
  /\ stopCh' = [i \in Instance |-> 0]
  /\ closed' = [i \in Instance |-> {}]
  /\ panicked' = FALSE
  /\ holder' = [i \in Instance |-> Nobody]
  /\ at' \in AutoStarted(row.exists /\ row.running)
  /\ of' = [g \in Goroutine |-> 1]
  /\ on' = [g \in Goroutine |-> 0]
  /\ kind' = [g \in Goroutine |-> "auto"]
  /\ pc' = [r \in Request |-> "idle"]
  /\ op' = [r \in Request |-> "load"]
  /\ got' = [r \in Request |-> None]
  /\ seen' = [r \in Request |-> FALSE]
  /\ copy' = [r \in Request |-> FALSE]
  /\ UNCHANGED <<row, requests>>

-----------------------------------------------------------------------------
(* Run and Stop.                                                           *)

(* UpdateStatus updates the row, if it is still there.                     *)
UpdateStatus(running) == row' = [row EXCEPT !.running = row.exists /\ running]

(* Mutant: Stop closes its channel whenever it is called.                  *)
CloseAlways(i) ==
  /\ isRunning' = [isRunning EXCEPT ![i] = FALSE]
  /\ closed' = [closed EXCEPT ![i] = @ \union {stopCh[i]}]
  /\ panicked' = (panicked \/ stopCh[i] \in closed[i])
  /\ UNCHANGED stopCh

(* Mutant: Stop forgets to close the channel.                              *)
NeverClose(i) ==
  /\ isRunning' = [isRunning EXCEPT ![i] = FALSE]
  /\ UNCHANGED <<stopCh, closed, panicked>>

(* Stop, under isRunningMutex.                                             *)
StopTrader(i) ==
  IF isRunning[i]
  THEN /\ isRunning' = [isRunning EXCEPT ![i] = FALSE]
       /\ closed' = [closed EXCEPT ![i] = @ \union {stopCh[i]}]
       /\ panicked' = (panicked \/ stopCh[i] \in closed[i])
       /\ UNCHANGED stopCh
  ELSE UNCHANGED runtime

(* Run marks the instance as running, with a stop channel of its own.      *)
MarkRunning(i) ==
  /\ isRunning' = [isRunning EXCEPT ![i] = TRUE]
  /\ stopCh' = [stopCh EXCEPT ![i] = @ + 1]
  /\ UNCHANGED <<closed, panicked>>

(* Run starts: its first cycle comes at once.                              *)
Run(g) ==
  /\ at[g] = "run" /\ ~isRunning[of[g]]
  /\ MarkRunning(of[g])
  /\ IF of[g] \in FastLoop
     THEN \E h \in Free :
            /\ at' = [at EXCEPT ![g] = "lock", ![h] = "select"]
            /\ of' = [of EXCEPT ![h] = of[g]]
            /\ kind' = [kind EXCEPT ![h] = "fast"]
     ELSE Move(g, "lock") /\ UNCHANGED <<of, kind>>
  /\ UNCHANGED <<row, current, made, holder, on, handler, bounds>>

(* Run returns an error; the goroutine then clears the mark of the row.    *)
RunFails(g) ==
  /\ at[g] = "run" /\ isRunning[of[g]]
  /\ Move(g, "finish")
  /\ UNCHANGED <<row, current, made, runtime, holder, of, on, kind, handler,
                 bounds>>

(* runCycle waits for cycleMu.                                             *)
BeginCycle(g) ==
  /\ at[g] = "lock" /\ holder[of[g]] = Nobody
  /\ holder' = [holder EXCEPT ![of[g]] = g]
  /\ Move(g, "cycle")
  /\ UNCHANGED <<row, current, made, runtime, of, on, kind, handler, bounds>>

(* Mutant: runCycle returns with cycleMu held.                             *)
KeepLock(g) ==
  /\ at[g] = "cycle"
  /\ Move(g, "select")
  /\ UNCHANGED <<row, current, made, runtime, holder, of, on, kind, handler,
                 bounds>>

(* Mutant: a cycle that fails ends Run.                                    *)
CycleEndsRun(g) ==
  /\ at[g] = "cycle"
  /\ holder' = [holder EXCEPT ![of[g]] = Nobody]
  /\ Move(g, "finish")
  /\ UNCHANGED <<row, current, made, runtime, of, on, kind, handler, bounds>>

EndCycle(g) ==
  /\ at[g] = "cycle"
  /\ holder' = [holder EXCEPT ![of[g]] = Nobody]
  /\ Move(g, "select")
  /\ UNCHANGED <<row, current, made, runtime, of, on, kind, handler, bounds>>

(* The loop enters its select and evaluates pt.stopCh, which may be the    *)
(* channel of a later Run.                                                 *)
EnterSelect(g) ==
  /\ at[g] = "select"
  /\ on' = [on EXCEPT ![g] = stopCh[of[g]]]
  /\ Move(g, "wait")
  /\ UNCHANGED <<row, current, made, runtime, holder, of, kind, handler,
                 bounds>>

(* The ticker fires, and select takes it, perhaps with the channel closed. *)
Tick(g) ==
  /\ at[g] = "wait"
  /\ Move(g, "lock")
  /\ UNCHANGED <<row, current, made, runtime, holder, of, on, kind, handler,
                 bounds>>

(* Select takes the closed channel: the loop returns. Behind a start       *)
(* request the goroutine then clears the mark of the row.                  *)
Return(g) ==
  /\ at[g] = "wait" /\ on[g] \in closed[of[g]]
  /\ Move(g, IF kind[g] = "start" THEN "finish" ELSE "free")
  /\ UNCHANGED <<row, current, made, runtime, holder, of, on, kind, handler,
                 bounds>>

Finish(g) ==
  /\ at[g] = "finish"
  /\ UpdateStatus(FALSE)
  /\ Move(g, "free")
  /\ UNCHANGED <<current, made, runtime, holder, of, on, kind, handler,
                 bounds>>

Spawn(g, i, k) ==
  /\ at' = [at EXCEPT ![g] = "run"]
  /\ of' = [of EXCEPT ![g] = i]
  /\ kind' = [kind EXCEPT ![g] = k]

-----------------------------------------------------------------------------
(* Requests.                                                               *)

FirstStep(o) ==
  IF o \in {"start", "once", "load"} THEN "list"
  ELSE IF o \in {"stop", "delete"} THEN "get"
  ELSE IF o = "rekey" THEN "readrow" ELSE "remove"

(* A request finds its row. An update writes none of the row modelled here.*)
Receive(r, o) ==
  /\ pc[r] = "idle" /\ requests < MaxRequests /\ row.exists
  /\ requests' = requests + 1
  /\ op' = [op EXCEPT ![r] = o]
  /\ seen' = [seen EXCEPT ![r] = row.running]
  /\ Goto(r, FirstStep(o))
  /\ UNCHANGED <<row, current, made, runtime, holder, loops, got, copy,
                 crashes>>

(* UpdatePrivateKey reads the row and saves all of it again, which inserts *)
(* it if it has gone.                                                      *)
ReadRow(r) ==
  /\ pc[r] = "readrow"
  /\ copy' = [copy EXCEPT ![r] = row.running]
  /\ Goto(r, IF row.exists THEN "saverow" ELSE "remove")
  /\ UNCHANGED <<row, current, made, runtime, holder, loops, op, got, seen,
                 bounds>>

SaveRow(r) ==
  /\ pc[r] = "saverow"
  /\ row' = [exists |-> TRUE, running |-> copy[r]]
  /\ Goto(r, "remove")
  /\ UNCHANGED <<current, made, runtime, holder, loops, op, got, seen, copy,
                 bounds>>

(* What follows LoadUserTradersFromStore.                                  *)
AfterLoad(r) == IF op[r] \in {"start", "once"} THEN "get" ELSE "idle"

(* ListTraders reads the row.                                              *)
List(r) ==
  /\ pc[r] = "list"
  /\ copy' = [copy EXCEPT ![r] = row.running]
  /\ Goto(r, IF row.exists THEN "build" ELSE AfterLoad(r))
  /\ UNCHANGED <<row, current, made, runtime, holder, loops, op, got, seen,
                 bounds>>

(* addTraderFromStore looks for an instance under the lock, builds one     *)
(* without it, and puts it in the map, whatever is there by then.          *)
Build(r) ==
  /\ pc[r] = "build"
  /\ Goto(r, IF current = None THEN "insert" ELSE AfterLoad(r))
  /\ UNCHANGED <<row, current, made, runtime, holder, loops, op, got, seen,
                 copy, bounds>>

(* The AI model is disabled, or the row does not validate.                 *)
BuildFails(r) ==
  /\ pc[r] = "insert"
  /\ Goto(r, AfterLoad(r))
  /\ UNCHANGED <<row, current, made, runtime, holder, loops, op, got, seen,
                 copy, bounds>>

Insert(r) ==
  /\ pc[r] = "insert" /\ made < MaxInstances
  /\ made' = made + 1
  /\ current' = made + 1
  /\ got' = [got EXCEPT ![r] = made + 1]
  /\ Goto(r, IF copy[r] THEN "autostart" ELSE AfterLoad(r))
  /\ UNCHANGED <<row, runtime, holder, loops, op, seen, copy, bounds>>

AutoStart(r) ==
  /\ pc[r] = "autostart"
  /\ \E g \in Free : Spawn(g, got[r], "auto")
  /\ Goto(r, AfterLoad(r))
  /\ UNCHANGED <<row, current, made, runtime, holder, on, op, got, seen, copy,
                 bounds>>

(* Where a request goes with the instance it got, or with none.            *)
AfterGet(r) ==
  IF op[r] = "start" THEN "compare"
  ELSE IF op[r] = "once" THEN IF current = None THEN "idle" ELSE "lock"
  ELSE IF current # None THEN "stop"
  ELSE IF op[r] = "stop" THEN "unmark" ELSE "remove"

GetTrader(r) ==
  /\ pc[r] = "get"
  /\ got' = [got EXCEPT ![r] = current]
  /\ Goto(r, AfterGet(r))
  /\ UNCHANGED <<row, current, made, runtime, holder, loops, op, seen, copy,
                 bounds>>

(* handleStart compares the mark it read with the instance it got.         *)
Compare(r) ==
  /\ pc[r] = "compare"
  /\ LET running == got[r] # None /\ isRunning[got[r]]
     IN Goto(r, IF running THEN IF seen[r] THEN "idle" ELSE "repair"
                ELSE IF seen[r] THEN "unmark"
                ELSE IF got[r] = None THEN "idle" ELSE "mark")
  /\ UNCHANGED <<row, current, made, runtime, holder, loops, op, got, seen,
                 copy, bounds>>

(* The instance runs and the row does not say so.                          *)
Repair(r) ==
  /\ pc[r] = "repair"
  /\ UpdateStatus(TRUE)
  /\ Goto(r, "idle")
  /\ UNCHANGED <<current, made, runtime, holder, loops, op, got, seen, copy,
                 bounds>>

Mark(r) ==
  /\ pc[r] = "mark"
  /\ UpdateStatus(TRUE)
  /\ Goto(r, "go")
  /\ UNCHANGED <<current, made, runtime, holder, loops, op, got, seen, copy,
                 bounds>>

(* The handler answers; the goroutine calls Run whenever it is scheduled.  *)
Go(r) ==
  /\ pc[r] = "go"
  /\ \E g \in Free : Spawn(g, got[r], "start")
  /\ Goto(r, "idle")
  /\ UNCHANGED <<row, current, made, runtime, holder, on, op, got, seen, copy,
                 bounds>>

Stop(r) ==
  /\ pc[r] = "stop"
  /\ StopTrader(got[r])
  /\ Goto(r, IF op[r] = "stop" THEN "unmark" ELSE "remove")
  /\ UNCHANGED <<row, current, made, holder, loops, op, got, seen, copy,
                 bounds>>

(* The mark is cleared: by a stop, by an update that read it, and by a     *)
(* start that read it and found no loop.                                   *)
Unmark(r) ==
  /\ pc[r] = "unmark"
  /\ UpdateStatus(FALSE)
  /\ seen' = [seen EXCEPT ![r] = FALSE]
  /\ Goto(r, IF op[r] \in {"update", "rekey"} THEN "list"
             ELSE IF op[r] = "start" /\ got[r] # None THEN "mark" ELSE "idle")
  /\ UNCHANGED <<current, made, runtime, holder, loops, op, got, copy, bounds>>

(* RemoveTrader stops the instance and takes it out of the map, under the  *)
(* manager's lock.                                                         *)
RemoveTrader(r) ==
  /\ pc[r] = "remove"
  /\ IF current # None THEN StopTrader(current) ELSE UNCHANGED runtime
  /\ current' = None
  /\ Goto(r, IF op[r] = "delete" THEN "deleterow"
             ELSE IF seen[r] /\ op[r] # "reset" THEN "unmark" ELSE "list")
  /\ UNCHANGED <<row, made, holder, loops, op, got, seen, copy,
                 bounds>>

DeleteRow(r) ==
  /\ pc[r] = "deleterow"
  /\ row' = [exists |-> FALSE, running |-> FALSE]
  /\ Goto(r, "idle")
  /\ UNCHANGED <<current, made, runtime, holder, loops, op, got, seen, copy,
                 bounds>>

(* RunOnce waits for cycleMu, and returns with its cycle.                  *)
BeginOnce(r) ==
  /\ pc[r] = "lock" /\ holder[got[r]] = Nobody
  /\ holder' = [holder EXCEPT ![got[r]] = r]
  /\ Goto(r, "cycle")
  /\ UNCHANGED <<row, current, made, runtime, loops, op, got, seen, copy,
                 bounds>>

EndOnce(r) ==
  /\ pc[r] = "cycle"
  /\ holder' = [holder EXCEPT ![got[r]] = Nobody]
  /\ Goto(r, "idle")
  /\ UNCHANGED <<row, current, made, runtime, loops, op, got, seen, copy,
                 bounds>>

-----------------------------------------------------------------------------
LoopStep(g) ==
  \/ Run(g) \/ RunFails(g) \/ BeginCycle(g) \/ EndCycle(g) \/ EnterSelect(g)
  \/ Tick(g) \/ Return(g) \/ Finish(g)

LoadStep(r) ==
  \/ ReadRow(r) \/ SaveRow(r)
  \/ List(r) \/ Build(r) \/ BuildFails(r) \/ Insert(r) \/ AutoStart(r)

HandlerStep(r) ==
  \/ GetTrader(r) \/ Compare(r) \/ Repair(r) \/ Mark(r) \/ Go(r)
  \/ Stop(r) \/ Unmark(r) \/ RemoveTrader(r) \/ DeleteRow(r)
  \/ BeginOnce(r) \/ EndOnce(r)

Next ==
  \/ \E g \in Goroutine : LoopStep(g)
  \/ \E r \in Request : LoadStep(r) \/ HandlerStep(r)
  \/ \E r \in Request, o \in Ops : Receive(r, o)
  \/ Crash

Spec == Init /\ [][Next]_vars

(* Goroutines are scheduled, tickers fire, cycles end (their calls have    *)
(* timeouts), a mutex passes to every waiter, and a select does not ignore *)
(* a closed channel for ever.                                              *)
FairSpec ==
  /\ Spec
  /\ \A g \in Goroutine :
       /\ WF_vars(LoopStep(g))
       /\ SF_vars(BeginCycle(g))
       /\ SF_vars(Return(g))
  /\ \A r \in Request :
       /\ WF_vars(LoadStep(r) \/ HandlerStep(r))
       /\ SF_vars(BeginOnce(r))

-----------------------------------------------------------------------------
(* Properties.                                                             *)

Places == {"free", "run", "lock", "cycle", "select", "wait", "finish"}
Steps ==
  {"idle", "readrow", "saverow", "list", "build", "insert", "autostart", "get",
   "compare", "repair", "mark", "go", "stop", "unmark", "remove", "deleterow",
   "lock", "cycle"}

(* The steps that call a method of the instance in hand.                   *)
Calls == {"autostart", "mark", "go", "stop", "lock", "cycle"}

ManagerTypes == made \in 0..MaxInstances /\ current \in 0..made
BoundTypes == requests \in 0..MaxRequests /\ crashes \in 0..MaxCrashes

RuntimeTypes ==
  /\ isRunning \in [Instance -> BOOLEAN]
  /\ stopCh \in [Instance -> Nat]
  /\ closed \in [Instance -> SUBSET Nat]
  /\ panicked \in BOOLEAN

HolderTypes == holder \in [Instance -> Goroutine \union Request \union {Nobody}]

LoopTypes ==
  /\ at \in [Goroutine -> Places]
  /\ of \in [Goroutine -> Instance]
  /\ on \in [Goroutine -> Nat]
  /\ kind \in [Goroutine -> {"start", "auto", "fast"}]

HandlerTypes ==
  /\ pc \in [Request -> Steps]
  /\ op \in [Request -> Op]
  /\ got \in [Request -> Instance \union {None}]
  /\ seen \in [Request -> BOOLEAN]
  /\ copy \in [Request -> BOOLEAN]
  /\ \A r \in Request : pc[r] \in Calls => got[r] # None

(* Every variable has its type, and no request calls a method of an        *)
(* instance it does not have (a nil *PredictionTrader).                    *)
TypeOK ==
  /\ row \in [exists : BOOLEAN, running : BOOLEAN]
  /\ ManagerTypes
  /\ RuntimeTypes
  /\ HolderTypes
  /\ LoopTypes
  /\ HandlerTypes
  /\ BoundTypes

(* Stop never closes a channel it has closed before, which would panic: a  *)
(* delete stops the instance twice, beside other stops and new runs.       *)
NeverClosesTwice == ~panicked

Serves(g, i) ==
  /\ kind[g] \in Main /\ of[g] = i
  /\ \/ at[g] \in {"lock", "cycle", "select"}
     \/ at[g] = "wait" /\ on[g] \notin closed[i]

(* An instance that says it is running has a loop that goes on: IsRunning  *)
(* is never true of a trader whose last loop has returned or was told to.  *)
RunningIsServed ==
  \A i \in Instance : isRunning[i] => \E g \in Goroutine : Serves(g, i)

Looping(i) ==
  \E g \in Goroutine :
    of[g] = i /\ at[g] \in {"lock", "cycle", "select", "wait"}

(* After Stop every loop of the instance returns, the fast loop and loops  *)
(* left from earlier runs with it, unless it is run again first.           *)
StoppedLoopsEnd ==
  \A i \in Instance : ~isRunning[i] ~> (isRunning[i] \/ ~Looping(i))

(* A running trader goes on having cycles, whatever runs once beside it.   *)
RunningTraderCycles ==
  \A i \in Instance :
    isRunning[i] ~> (~isRunning[i] \/ \E g \in Goroutine :
                                        of[g] = i /\ at[g] = "cycle")
=============================================================================
