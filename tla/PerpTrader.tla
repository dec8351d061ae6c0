----------------------------- MODULE PerpTrader -----------------------------
(***************************************************************************)
(* Running and stopping one perpetual trader: its row, the instances the   *)
(* manager makes of it, and for every call of Run the goroutine of its     *)
(* loop, the drawdown monitor and the order-sync loop it starts. Requests  *)
(* start, stop, update, delete and load the trader; Stop waits for the     *)
(* loops, and RemoveTrader holds the manager's lock meanwhile.             *)
(*                                                                         *)
(* A cycle is a time in which the trader trades. A step that reads a field *)
(* and acts on nothing else is taken with the step it follows.             *)
(* isRunningMutex is held for single assignments only; stopMonitorCh is    *)
(* read and written without it.                                            *)
(***************************************************************************)
EXTENDS Integers, FiniteSets

CONSTANTS
  Request,        \* request threads of the API server
  Ops,            \* operations requests ask for
  Grid,           \* whether the strategy is a grid, which may not initialise
  MaxRequests,    \* bound: requests
  MaxRuns,        \* bound: calls of Run
  MaxCrashes      \* bound: process crashes

(* "load" stands for every request that only loads the user's traders,     *)
(* "update" for every one that removes the trader to load it anew: of      *)
(* these handleUpdateTrader runs it again, those that change its exchange  *)
(* or its model do not.                                                    *)
Op == {"start", "stop", "update", "delete", "load"}

Free == "free"

ASSUME PerpAssumption ==
  /\ IsFiniteSet(Request) /\ Free \notin Request
  /\ Ops \subseteq Op
  /\ Grid \in BOOLEAN
  /\ MaxRequests \in Nat /\ MaxRuns \in Nat \ {0} /\ MaxCrashes \in Nat

(* A request makes one instance at most.                                   *)
Instance == 1..(1 + MaxRequests)
RunId == 1..MaxRuns
None == 0

VARIABLES
  row,         \* the trader's row: [exists, running]
  current,     \* tm.traders: the instance, None when there is none
  made,        \* instances made
  mu           \* who holds tm.mu for writing, Free when nobody does

(* The fields of the instances.                                            *)
VARIABLES
  isRunning,   \* instance -> isRunning
  ch,          \* instance -> stopMonitorCh: the channels of an instance
               \* are numbered as they are made, the constructor's is 0
  closed,      \* instance -> channels closed
  wg           \* instance -> monitorWg's counter

VARIABLES
  runs,        \* calls of Run so far
  run,         \* call g: [of, at, on, mon, monOn, syncOn, by], the instance,
               \* where the loop, the monitor and the sync loop are and on
               \* which channels they wait, and who called it
  req          \* request -> [at, op, got, was]: its next step, what it does,
               \* the instance it works on, wasRunning

(* What only the properties and the bounds read.                           *)
VARIABLES
  returned,    \* instance -> a Stop has returned, and no Run called since
  overtook,    \* instance -> stopped or removed while a Run of it started
  panicked,    \* a closed channel was closed again
  initFailed,  \* a grid did not initialise
  overlapped,  \* a request came while another was handled
  requests, crashes

manager == <<row, current, made, mu>>
fields == <<isRunning, ch, closed, wg>>
history == <<returned, overtook, panicked, initFailed, overlapped>>
counts == <<requests, crashes>>
vars == <<manager, fields, runs, run, req, history, counts>>

Unused == [of |-> 0, at |-> "unused", on |-> 0, mon |-> "off", monOn |-> 0,
           syncOn |-> 0, by |-> "auto"]
Idle == [at |-> "idle", op |-> "load", got |-> None, was |-> FALSE]

(* Where a Run that has been called stands before its first cycle.         *)
StartUp == {"called", "make", "launch", "init"}
Loop == {"trade", "check", "wait"}
Live == StartUp \union Loop
Starting(i) == \E g \in RunId : run[g].of = i /\ run[g].at \in StartUp
Called(i, by) == [Unused EXCEPT !.of = i, !.at = "called", !.by = by]

(* A trader loaded from a row that says so is run at once.                 *)
Resumed(r) ==
  [g \in RunId |-> IF g = 1 /\ r.exists /\ r.running THEN Called(1, "auto")
                   ELSE Unused]

Init ==
  /\ row \in [exists : {TRUE}, running : BOOLEAN]
  /\ current = 1 /\ made = 1 /\ mu = Free
  /\ isRunning = [i \in Instance |-> FALSE] /\ ch = [i \in Instance |-> 0]
  /\ closed = [i \in Instance |-> {}] /\ wg = [i \in Instance |-> 0]
  /\ runs = (IF row.running THEN 1 ELSE 0) /\ run = Resumed(row)
  /\ req = [r \in Request |-> Idle]
  /\ returned = [i \in Instance |-> FALSE]
  /\ overtook = [i \in Instance |-> FALSE]
  /\ panicked = FALSE /\ initFailed = FALSE /\ overlapped = FALSE
  /\ requests = 0 /\ crashes = 0

(* The process dies, and LoadTradersFromStore loads the row at its start.  *)
Crash ==
  /\ crashes < MaxCrashes
  /\ crashes' = crashes + 1
  /\ current' = (IF row.exists THEN 1 ELSE None)
  /\ made' = 1 /\ mu' = Free
  /\ isRunning' = [i \in Instance |-> FALSE] /\ ch' = [i \in Instance |-> 0]
  /\ closed' = [i \in Instance |-> {}] /\ wg' = [i \in Instance |-> 0]
  /\ runs' = (IF row.running THEN 1 ELSE 0) /\ run' = Resumed(row)
  /\ req' = [r \in Request |-> Idle]
  /\ returned' = [i \in Instance |-> FALSE]
  /\ overtook' = [i \in Instance |-> FALSE]
  /\ panicked' = FALSE /\ initFailed' = FALSE /\ overlapped' = FALSE
  /\ UNCHANGED <<row, requests>>

-----------------------------------------------------------------------------
(* Run.                                                                    *)

Of(g) == run[g].of
Move(g, s) == run' = [run EXCEPT ![g].at = s]

SetRunning(g) ==
  /\ run[g].at = "called"
  /\ isRunning' = [isRunning EXCEPT ![Of(g)] = TRUE]
  /\ Move(g, "make")
  /\ UNCHANGED <<manager, ch, closed, wg, runs, req, history, counts>>

(* The field is replaced after the mutex has been given back.              *)
MakeChannel(g) ==
  /\ run[g].at = "make"
  /\ ch' = [ch EXCEPT ![Of(g)] = @ + 1]
  /\ Move(g, "launch")
  /\ UNCHANGED <<manager, isRunning, closed, wg, runs, req, history, counts>>

(* A cycle asks first whether the trader runs.                             *)
CycleOf(g) == IF isRunning[Of(g)] THEN "trade" ELSE "check"

(* Mutant: the loop is not counted.                                        *)
CountMonitorOnly == 1

(* What Run and startDrawdownMonitor add to the group.                     *)
Counted == 2

(* Mutant: the order-sync loop keeps the constructor's channel.            *)
FirstChannel(g) == 0

(* The order-sync loop is given the channel of now.                        *)
ChannelOfSync(g) == ch[Of(g)]

(* After the pre-launch checks the loop and its monitor are counted.       *)
Launch(g) ==
  /\ run[g].at = "launch"
  /\ wg' = [wg EXCEPT ![Of(g)] = @ + Counted]
  /\ run' = [run EXCEPT ![g] =
       [run[g] EXCEPT !.at = IF Grid THEN "init" ELSE CycleOf(g),
                      !.mon = "select", !.syncOn = ChannelOfSync(g)]]
  /\ UNCHANGED <<manager, isRunning, ch, closed, runs, req, history, counts>>

(* Mutant: the loop is not counted off.                                    *)
NotCountedOff(g, s) ==
  /\ run' = [run EXCEPT ![g] = [run[g] EXCEPT !.at = s, !.on = 0]]
  /\ UNCHANGED wg

(* Run returns, and its deferred Done counts it off.                       *)
Return(g, s) ==
  /\ run' = [run EXCEPT ![g] = [run[g] EXCEPT !.at = s, !.on = 0]]
  /\ wg' = [wg EXCEPT ![Of(g)] = @ - 1]

(* InitializeGrid may fail: Run returns with isRunning still set and the   *)
(* monitor running.                                                        *)
InitGrid(g) ==
  /\ run[g].at = "init"
  /\ \/ Move(g, CycleOf(g)) /\ UNCHANGED <<wg, initFailed>>
     \/ /\ Return(g, IF run[g].by = "auto" THEN "clear" ELSE "ended")
        /\ initFailed' = TRUE
  /\ UNCHANGED <<manager, isRunning, ch, closed, runs, req, returned, overtook,
                 panicked, overlapped, counts>>

(* The goroutine of the manager's own start takes the mark off the row of  *)
(* a Run that failed; those of the handlers only log it.                   *)
ClearMark(g) ==
  /\ run[g].at = "clear"
  /\ row' = [row EXCEPT !.running = FALSE]
  /\ Move(g, "ended")
  /\ UNCHANGED <<current, made, mu, fields, runs, req, history, counts>>

(* Mutant: the loop relies on its channel alone.                           *)
SelectOnly(g) ==
  /\ run[g].at \in {"trade", "check"}
  /\ run' = [run EXCEPT ![g] = [run[g] EXCEPT !.at = "wait", !.on = ch[Of(g)]]]
  /\ UNCHANGED <<manager, fields, runs, req, history, counts>>

(* The cycle ends; the loop asks again, and selects on the channel of now. *)
EndCycle(g) ==
  /\ run[g].at \in {"trade", "check"}
  /\ IF isRunning[Of(g)]
     THEN run' = [run EXCEPT ![g] = [run[g] EXCEPT !.at = "wait", !.on = ch[Of(g)]]]
          /\ UNCHANGED wg
     ELSE Return(g, "ended")
  /\ UNCHANGED <<manager, isRunning, ch, closed, runs, req, history, counts>>

(* The ticker's cycle; the first one follows the start at once.            *)
Tick(g) ==
  /\ run[g].at = "wait"
  /\ run' = [run EXCEPT ![g] = [run[g] EXCEPT !.at = CycleOf(g), !.on = 0]]
  /\ UNCHANGED <<manager, fields, runs, req, history, counts>>

StopSignal(g) ==
  /\ run[g].at = "wait" /\ run[g].on \in closed[Of(g)]
  /\ Return(g, "ended")
  /\ UNCHANGED <<manager, isRunning, ch, closed, runs, req, history, counts>>

-----------------------------------------------------------------------------
(* The drawdown monitor. The order-sync loop needs no steps of its own: it *)
(* runs until the channel it was given is closed.                          *)

MonitorSelect(g) ==
  /\ run[g].mon = "select"
  /\ run' = [run EXCEPT ![g] = [run[g] EXCEPT !.mon = "wait", !.monOn = ch[Of(g)]]]
  /\ UNCHANGED <<manager, fields, runs, req, history, counts>>

(* checkPositionDrawdown may close positions; it does not ask whether the  *)
(* trader runs.                                                            *)
MonitorTick(g) ==
  /\ run[g].mon = "wait"
  /\ run' = [run EXCEPT ![g] = [run[g] EXCEPT !.mon = "select", !.monOn = 0]]
  /\ UNCHANGED <<manager, fields, runs, req, history, counts>>

MonitorStops(g) ==
  /\ run[g].mon = "wait" /\ run[g].monOn \in closed[Of(g)]
  /\ run' = [run EXCEPT ![g] = [run[g] EXCEPT !.mon = "off", !.monOn = 0]]
  /\ wg' = [wg EXCEPT ![Of(g)] = @ - 1]
  /\ UNCHANGED <<manager, isRunning, ch, closed, runs, req, history, counts>>

-----------------------------------------------------------------------------
(* The requests. GetTrader and GetStatus are read together; GetTrader, and *)
(* whatever takes the manager's lock, waits for a RemoveTrader.            *)

(* A request that has ended keeps nothing, and after a load it asks for    *)
(* the trader anew.                                                        *)
Kept(q) == IF q.at = "idle" THEN Idle
           ELSE IF q.at = "load" THEN [q EXCEPT !.got = None] ELSE q
Go(r, s) == req' = [req EXCEPT ![r] = Kept([req[r] EXCEPT !.at = s])]
GoWith(r, s, i) == 
  req' = [req EXCEPT ![r] = Kept([req[r] EXCEPT !.at = s, !.got = i])]

Stopping(i) == \E r \in Request : req[r].got = i /\ req[r].at \in {"close", "wait"}

(* The calls of Run the requests under way may lead to: one when they load *)
(* the trader, one by the handler itself.                                  *)
MayCall(o) == IF o \in {"start", "update"} THEN {"auto", "handler"}
              ELSE IF o = "load" THEN {"auto"} ELSE {}
Owed ==
  {c \in Request \X {"auto", "handler"} :
     req[c[1]].at # "idle" /\ c[2] \in MayCall(req[c[1]].op)}

Begin(r) ==
  /\ req[r].at = "idle" /\ requests < MaxRequests
  /\ \E o \in Ops :
       /\ o \in {"start", "stop", "update"} => row.exists
       /\ runs + Cardinality(Owed \union ({r} \X MayCall(o))) <= MaxRuns
       /\ req' = [req EXCEPT ![r] =
                   [Idle EXCEPT !.at = IF o = "load" THEN "load" ELSE "get",
                                !.op = o]]
       /\ row' = IF o = "delete" THEN [exists |-> FALSE, running |-> FALSE]
                 ELSE row
  /\ requests' = requests + 1
  /\ overlapped' = (overlapped \/ \E q \in Request : req[q].at # "idle")
  /\ UNCHANGED <<current, made, mu, fields, runs, run, returned, overtook,
                 panicked, initFailed, crashes>>

Running(i) == i # None /\ isRunning[i]

AfterGet(o, i) ==
  CASE o = "start"  -> IF i = None THEN "load"
                       ELSE IF Running(i) THEN "idle" ELSE "remove"
    [] o = "stop"   -> IF Running(i) THEN "unset" ELSE "idle"
    [] o = "delete" -> IF Running(i) THEN "unset" ELSE "remove"
    [] OTHER        -> "remove"

Get(r) ==
  /\ req[r].at = "get" /\ mu = Free
  /\ LET o == req[r].op IN
     \E was \in BOOLEAN :
       /\ was => o = "update" /\ Running(current)
       /\ req' = [req EXCEPT ![r] = Kept(
            [req[r] EXCEPT !.at = AfterGet(o, current), !.got = current,
                           !.was = was])]
  /\ UNCHANGED <<manager, fields, runs, run, history, counts>>

AfterRemove(r) == IF req[r].op = "delete" THEN "idle" ELSE "load"
AfterStop(r) == IF mu = r THEN "erase"
                ELSE IF req[r].op = "stop" THEN "unmark" ELSE "remove"

OvertookIf(i, b) == [overtook EXCEPT ![i] = @ \/ b]

(* RemoveTrader holds the lock until it returns: for a trader that does    *)
(* not run that is at once.                                                *)
Remove(r) ==
  /\ req[r].at = "remove" /\ mu = Free
  /\ IF Running(current)
     THEN mu' = r /\ GoWith(r, "unset", current) /\ UNCHANGED <<current, overtook>>
     ELSE /\ overtook' = IF current = None THEN overtook
                         ELSE OvertookIf(current, Starting(current))
          /\ current' = None
          /\ Go(r, AfterRemove(r)) /\ UNCHANGED mu
  /\ UNCHANGED <<row, made, fields, runs, run, returned, panicked, initFailed,
                 overlapped, counts>>

Erase(r) ==
  /\ req[r].at = "erase"
  /\ current' = None /\ mu' = Free
  /\ overtook' = OvertookIf(req[r].got, Starting(req[r].got))
  /\ Go(r, AfterRemove(r))
  /\ UNCHANGED <<row, made, fields, runs, run, returned, panicked, initFailed,
                 overlapped, counts>>

(* Mutant: Stop does not ask whether the trader runs.                      *)
StopsAlways(i) == TRUE

StopsIf(i) == isRunning[i]

(* Mutant: Stop leaves the mark to the loop.                               *)
MarkLeft(i) == UNCHANGED isRunning

Marked(i) == isRunning' = [isRunning EXCEPT ![i] = FALSE]

(* Stop, in the three steps other goroutines can come between.             *)
Unset(r) ==
  /\ req[r].at = "unset"
  /\ LET i == req[r].got IN
       /\ Marked(i)
       /\ overtook' = OvertookIf(i, StopsIf(i) /\ Starting(i))
       /\ Go(r, IF StopsIf(i) THEN "close" ELSE AfterStop(r))
  /\ UNCHANGED <<manager, ch, closed, wg, runs, run, returned, panicked,
                 initFailed, overlapped, counts>>

(* Closing a closed channel panics: gin recovers the handler, RemoveTrader *)
(* gives its lock back, and the rest of the request is not done.           *)
CloseChannel(r) ==
  /\ req[r].at = "close"
  /\ LET i == req[r].got
         again == ch[i] \in closed[i]
     IN /\ closed' = [closed EXCEPT ![i] = @ \union {ch[i]}]
        /\ panicked' = (panicked \/ again)
        /\ mu' = (IF again /\ mu = r THEN Free ELSE mu)
        /\ Go(r, IF again THEN "idle" ELSE "wait")
  /\ UNCHANGED <<row, current, made, isRunning, ch, wg, runs, run, returned,
                 overtook, initFailed, overlapped, counts>>

(* Mutant: Stop does not wait.                                             *)
WaitForNothing(r) ==
  /\ req[r].at = "wait"
  /\ returned' = [returned EXCEPT ![req[r].got] = TRUE]
  /\ Go(r, AfterStop(r))
  /\ UNCHANGED <<manager, fields, runs, run, overtook, panicked, initFailed,
                 overlapped, counts>>

Wait(r) ==
  /\ req[r].at = "wait" /\ wg[req[r].got] = 0
  /\ returned' = [returned EXCEPT ![req[r].got] = TRUE]
  /\ Go(r, AfterStop(r))
  /\ UNCHANGED <<manager, fields, runs, run, overtook, panicked, initFailed,
                 overlapped, counts>>

(* A goroutine calls Run on i.                                             *)
Call(i, by) ==
  /\ runs' = runs + 1
  /\ run' = [run EXCEPT ![runs + 1] = Called(i, by)]
  /\ overtook' = OvertookIf(i, Stopping(i))
  /\ returned' = [returned EXCEPT ![i] = FALSE]

(* LoadUserTradersFromStore makes an instance of a row that has none, when *)
(* model, exchange and strategy allow it, and runs it if the row says so.  *)
Load(r) ==
  /\ req[r].at = "load" /\ mu = Free
  /\ \E buildable \in BOOLEAN :
       IF row.exists /\ current = None /\ buildable
       THEN /\ made' = made + 1 /\ current' = made + 1
            /\ IF row.running THEN Call(made + 1, "auto")
               ELSE UNCHANGED <<runs, run, overtook, returned>>
       ELSE UNCHANGED <<made, current, runs, run, overtook, returned>>
  /\ Go(r, IF req[r].op = "start" \/ req[r].was THEN "again" ELSE "idle")
  /\ UNCHANGED <<row, mu, fields, panicked, initFailed, overlapped, counts>>

(* The handlers get the trader again and call its Run in a goroutine.      *)
GetAgain(r) ==
  /\ req[r].at = "again" /\ mu = Free
  /\ IF current # None
     THEN Call(current, "handler")
          /\ Go(r, IF req[r].op = "start" THEN "mark" ELSE "idle")
     ELSE Go(r, "idle") /\ UNCHANGED <<runs, run, overtook, returned>>
  /\ UNCHANGED <<manager, fields, panicked, initFailed, overlapped, counts>>

(* Mutant: the row is left as it was.                                      *)
MarkNothing(r) ==
  /\ req[r].at \in {"mark", "unmark"}
  /\ Go(r, "idle")
  /\ UNCHANGED <<manager, fields, runs, run, history, counts>>

(* UpdateStatus, of a row that may be gone.                                *)
Mark(r) ==
  /\ req[r].at \in {"mark", "unmark"}
  /\ row' = [row EXCEPT !.running = row.exists /\ req[r].at = "mark"]
  /\ Go(r, "idle")
  /\ UNCHANGED <<current, made, mu, fields, runs, run, history, counts>>

-----------------------------------------------------------------------------
RunStep(g) ==
  \/ SetRunning(g) \/ MakeChannel(g) \/ Launch(g) \/ InitGrid(g) \/ ClearMark(g)
  \/ EndCycle(g) \/ Tick(g) \/ StopSignal(g)

MonitorStep(g) == MonitorSelect(g) \/ MonitorTick(g) \/ MonitorStops(g)

RequestStep(r) ==
  \/ Get(r) \/ Remove(r) \/ Erase(r) \/ Unset(r) \/ CloseChannel(r) \/ Wait(r)
  \/ Load(r) \/ GetAgain(r) \/ Mark(r)

Next ==
  \/ \E g \in RunId : RunStep(g) \/ MonitorStep(g)
  \/ \E r \in Request : Begin(r) \/ RequestStep(r)
  \/ Crash

Spec == Init /\ [][Next]_vars

(* Goroutines are scheduled, cycles, checks and locks end, tickers tick;   *)
(* and of a select whose cases are both ready again and again, Go takes    *)
(* each in the end.                                                        *)
Fairness ==
  /\ \A g \in RunId :
       /\ WF_vars(RunStep(g)) /\ WF_vars(MonitorStep(g))
       /\ SF_vars(StopSignal(g)) /\ SF_vars(MonitorStops(g))
  /\ \A r \in Request : WF_vars(RequestStep(r))

FairSpec == Spec /\ Fairness

-----------------------------------------------------------------------------
(* The values every variable keeps to; the wait group's counter never goes *)
(* below zero, where Done would panic.                                     *)
TypeOK ==
  /\ row \in [exists : BOOLEAN, running : BOOLEAN]
  /\ made \in 0..(1 + MaxRequests) /\ current \in 0..made
  /\ mu \in Request \union {Free}
  /\ isRunning \in [Instance -> BOOLEAN]
  /\ ch \in [Instance -> Nat] /\ closed \in [Instance -> SUBSET Nat]
  /\ wg \in [Instance -> Nat]
  /\ runs \in 0..MaxRuns
  /\ run \in [RunId ->
       [of : 0..(1 + MaxRequests), at : Live \union {"unused", "clear", "ended"},
        on : Nat, mon : {"off", "select", "wait"}, monOn : Nat, syncOn : Nat,
        by : {"auto", "handler"}]]
  /\ req \in [Request ->
       [at : {"idle", "get", "remove", "unset", "close", "wait", "erase", "load",
              "again", "mark", "unmark"},
        op : Op, got : 0..(1 + MaxRequests), was : BOOLEAN]]
  /\ returned \in [Instance -> BOOLEAN] /\ overtook \in [Instance -> BOOLEAN]
  /\ panicked \in BOOLEAN /\ initFailed \in BOOLEAN /\ overlapped \in BOOLEAN
  /\ requests \in Nat /\ crashes \in Nat

LiveRun(g) == run[g].at \in Live

(* Once a Stop has returned, neither a cycle nor a drawdown check of the   *)
(* trader is under way or will come, unless the Stop overtook a Run that   *)
(* was still starting: Stop waits for the goroutines to finish.            *)
SilentOnceStopped ==
  \A g \in RunId :
    LET i == run[g].of IN
      i # None /\ returned[i] /\ ~overtook[i] => ~LiveRun(g) /\ run[g].mon = "off"

(* An instance that left the map, and that nobody is just stopping, has    *)
(* nothing running: nobody could stop it any more. Removals that overtook  *)
(* a starting Run aside.                                                   *)
RemovedIsSilent ==
  \A g \in RunId :
    LET i == run[g].of IN
      i \in Instance \ {current} /\ ~overtook[i] /\ ~Stopping(i) =>
        ~LiveRun(g) /\ run[g].mon = "off"

(* No Stop closes a channel a second time, which panics, unless some Stop  *)
(* overtook a Run that was still starting.                                 *)
NeverClosesTwice == panicked => \E i \in Instance : overtook[i]

(* A trader that says it runs has a Run that is on its way, so start does  *)
(* not turn away a trader that stands still, unless a grid failed to       *)
(* initialise or a Stop overtook a Run.                                    *)
RunningIsServed ==
  \A i \in Instance : isRunning[i] /\ ~overtook[i] /\ ~initFailed =>
    \E g \in RunId : run[g].of = i /\ LiveRun(g)

(* With requests one after the other, a row says its trader runs just when *)
(* it does or is about to: a restart resumes what was running. Overtaken   *)
(* Runs and failed grids aside.                                            *)
RowAgrees ==
  current # None /\ ~overlapped /\ ~initFailed
  /\ (\A r \in Request : req[r].at = "idle") /\ (\A i \in Instance : ~overtook[i])
    => row.running = (isRunning[current] \/ Starting(current))

(* The order-sync loop of a stopped trader has been told: the channel it   *)
(* was given is closed, unless another Run on the instance replaced it.    *)
SyncLoopsEnd ==
  \A g \in RunId :
    LET i == run[g].of IN
      run[g].at = "ended" /\ returned[i] /\ ~overtook[i] /\ ch[i] = 1
        => run[g].syncOn \in closed[i]

(* The loops of a trader that is not running end, whichever channel they   *)
(* wait on.                                                                *)
StoppedRunsEnd ==
  \A g \in RunId, i \in Instance :
    (run[g].of = i /\ run[g].at \in Loop /\ ~isRunning[i])
      ~> (run[g].of # i \/ run[g].at \notin Loop \/ isRunning[i])

(* Every request ends, with the manager's lock given back, unless a Stop   *)
(* overtook a starting Run and waits for a monitor nobody tells.           *)
RequestsFinish ==
  \A r \in Request :
    (req[r].at # "idle") ~> (req[r].at = "idle" \/ \E i \in Instance : overtook[i])
=============================================================================
