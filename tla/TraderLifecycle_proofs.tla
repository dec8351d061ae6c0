------------------------ MODULE TraderLifecycle_proofs ------------------------
(***************************************************************************)
(* Proofs about TraderLifecycle, for every set of requests, goroutines and *)
(* operations, every number of instances, requests and crashes.            *)
(***************************************************************************)
EXTENDS TraderLifecycle, TLAPS

RowType == [exists : BOOLEAN, running : BOOLEAN]
Unclaimed == Instance \union {None}

LEMMA InstanceTypes == /\ 1 \in Instance
                       /\ Instance \subseteq Nat
                       /\ None \notin Instance
BY LifecycleAssumption DEF Instance, None

LEMMA UpdateStatusType ==
  ASSUME TypeOK, NEW b \in BOOLEAN, UpdateStatus(b)
  PROVE  row' \in RowType
BY DEF TypeOK, UpdateStatus, RowType

LEMMA StopTraderType ==
  ASSUME TypeOK, NEW i \in Instance, StopTrader(i)
  PROVE  RuntimeTypes'
<1>1. CASE isRunning[i]
  <2>1. [closed EXCEPT ![i] = @ \union {stopCh[i]}] \in [Instance -> SUBSET Nat]
    BY DEF TypeOK, RuntimeTypes
  <2> QED
    BY <1>1, <2>1 DEF TypeOK, RuntimeTypes, StopTrader
<1>2. CASE ~isRunning[i]
  BY <1>2 DEF TypeOK, RuntimeTypes, StopTrader, runtime
<1> QED
  BY <1>1, <1>2

LEMMA MarkRunningType ==
  ASSUME TypeOK, NEW i \in Instance, MarkRunning(i)
  PROVE  RuntimeTypes'
BY DEF TypeOK, RuntimeTypes, MarkRunning

(* A request goes on to a step, with the instance it has or a new one.     *)
LEMMA HandlerType ==
  ASSUME TypeOK, NEW r \in Request, NEW s \in Steps, Goto(r, s),
         NEW i \in Unclaimed, got' = [got EXCEPT ![r] = i],
         s \in Calls => i # None,
         op' \in [Request -> Op], seen' \in [Request -> BOOLEAN],
         copy' \in [Request -> BOOLEAN]
  PROVE  HandlerTypes'
BY DEF TypeOK, HandlerTypes, Goto, Unclaimed

LEMMA SameHandler ==
  ASSUME TypeOK, NEW r \in Request
  PROVE  /\ got[r] \in Unclaimed
         /\ got = [got EXCEPT ![r] = got[r]]
         /\ op \in [Request -> Op] /\ seen \in [Request -> BOOLEAN]
         /\ copy \in [Request -> BOOLEAN]
         /\ op[r] \in Op /\ seen[r] \in BOOLEAN /\ copy[r] \in BOOLEAN
         /\ pc[r] \in Calls => got[r] \in Instance
BY DEF TypeOK, HandlerTypes, Unclaimed

LEMMA MoveType ==
  ASSUME TypeOK, NEW g, NEW s \in Places, Move(g, s),
         UNCHANGED <<of, on, kind>>
  PROVE  LoopTypes'
BY DEF TypeOK, LoopTypes, Move

LEMMA SpawnType ==
  ASSUME TypeOK, NEW g \in Goroutine, NEW i \in Instance, NEW k \in Main,
         Spawn(g, i, k), UNCHANGED on
  PROVE  LoopTypes'
<1>1. "run" \in Places /\ k \in {"start", "auto", "fast"}
  BY DEF Places, Main
<1> QED
  BY <1>1 DEF TypeOK, LoopTypes, Spawn

(* A group of variables that a step leaves alone keeps its type.           *)
LEMMA Frame ==
  ASSUME TypeOK
  PROVE  /\ UNCHANGED row => row' \in RowType
         /\ UNCHANGED <<current, made>> => ManagerTypes'
         /\ UNCHANGED runtime => RuntimeTypes'
         /\ UNCHANGED holder => HolderTypes'
         /\ UNCHANGED loops => LoopTypes'
         /\ UNCHANGED handler => HandlerTypes'
         /\ UNCHANGED bounds => BoundTypes'
<1> USE DEF TypeOK
<1>1. UNCHANGED row => row' \in RowType
  BY DEF RowType
<1>2. UNCHANGED <<current, made>> => ManagerTypes'
  BY DEF ManagerTypes
<1>3. UNCHANGED runtime => RuntimeTypes'
  BY DEF RuntimeTypes, runtime
<1>4. UNCHANGED holder => HolderTypes'
  BY DEF HolderTypes
<1>5. UNCHANGED loops => LoopTypes'
  BY DEF LoopTypes, loops
<1>6. UNCHANGED handler => HandlerTypes'
  BY DEF HandlerTypes, handler
<1>7. UNCHANGED bounds => BoundTypes'
  BY DEF BoundTypes, bounds
<1> QED
  BY <1>1, <1>2, <1>3, <1>4, <1>5, <1>6, <1>7

LEMMA InitType == Init => TypeOK
<1> SUFFICES ASSUME Init PROVE TypeOK
  OBVIOUS
<1>0. row \in RowType
  BY DEF Init, RowType
<1>1. ManagerTypes /\ BoundTypes
  BY LifecycleAssumption DEF Init, ManagerTypes, BoundTypes
<1>2. RuntimeTypes /\ HolderTypes
  BY DEF Init, RuntimeTypes, HolderTypes
<1>3. LoopTypes
  BY InstanceTypes DEF Init, LoopTypes, AutoStarted, Places
<1>4. HandlerTypes
  BY DEF Init, HandlerTypes, Steps, Op, Calls
<1> QED
  BY <1>0, <1>1, <1>2, <1>3, <1>4 DEF TypeOK, RowType

LEMMA CrashType == TypeOK /\ Crash => TypeOK'
<1> SUFFICES ASSUME TypeOK, Crash PROVE TypeOK'
  OBVIOUS
<1>1. row' \in RowType /\ ManagerTypes' /\ BoundTypes'
  BY LifecycleAssumption
  DEF TypeOK, Crash, RowType, ManagerTypes, BoundTypes, None
<1>2. RuntimeTypes' /\ HolderTypes'
  BY DEF Crash, RuntimeTypes, HolderTypes
<1>3. LoopTypes'
  BY InstanceTypes DEF Crash, LoopTypes, AutoStarted, Places
<1>4. HandlerTypes'
  BY DEF Crash, HandlerTypes, Steps, Op, Calls
<1> QED
  BY <1>1, <1>2, <1>3, <1>4 DEF TypeOK, RowType

LEMMA LoopStepType ==
  ASSUME TypeOK, NEW g \in Goroutine, LoopStep(g)
  PROVE  TypeOK'
<1>0. of[g] \in Instance /\ stopCh[of[g]] \in Nat
  BY DEF TypeOK, LoopTypes, RuntimeTypes
<1>1. ASSUME Run(g) PROVE TypeOK'
  <2>1. RuntimeTypes'
    BY <1>0, <1>1, MarkRunningType DEF Run
  <2>2. LoopTypes'
    <3>1. CASE of[g] \in FastLoop
      <4>1. PICK h \in Free :
              /\ at' = [at EXCEPT ![g] = "lock", ![h] = "select"]
              /\ of' = [of EXCEPT ![h] = of[g]]
              /\ kind' = [kind EXCEPT ![h] = "fast"]
        BY <1>1, <3>1 DEF Run
      <4> QED
        BY <1>0, <1>1, <4>1 DEF Run, TypeOK, LoopTypes, Places
    <3>2. CASE of[g] \notin FastLoop
      BY <1>1, <3>2, MoveType DEF Run, Places
    <3> QED
      BY <3>1, <3>2
  <2> QED
    BY <1>1, <2>1, <2>2, Frame DEF Run, TypeOK, RowType
<1>2. ASSUME RunFails(g) PROVE TypeOK'
  <2>1. LoopTypes'
    BY <1>2, MoveType DEF RunFails, Places
  <2> QED
    BY <1>2, <2>1, Frame DEF RunFails, TypeOK, RowType
<1>3. ASSUME BeginCycle(g) PROVE TypeOK'
  <2>1. LoopTypes'
    BY <1>3, MoveType DEF BeginCycle, Places
  <2>2. HolderTypes'
    BY <1>3 DEF BeginCycle, TypeOK, HolderTypes
  <2> QED
    BY <1>3, <2>1, <2>2, Frame DEF BeginCycle, TypeOK, RowType
<1>4. ASSUME EndCycle(g) PROVE TypeOK'
  <2>1. LoopTypes'
    BY <1>4, MoveType DEF EndCycle, Places
  <2>2. HolderTypes'
    BY <1>4 DEF EndCycle, TypeOK, HolderTypes
  <2> QED
    BY <1>4, <2>1, <2>2, Frame DEF EndCycle, TypeOK, RowType
<1>5. ASSUME EnterSelect(g) PROVE TypeOK'
  <2>1. LoopTypes'
    BY <1>0, <1>5 DEF EnterSelect, Move, TypeOK, LoopTypes, Places
  <2> QED
    BY <1>5, <2>1, Frame DEF EnterSelect, TypeOK, RowType
<1>6. ASSUME Tick(g) PROVE TypeOK'
  <2>1. LoopTypes'
    BY <1>6, MoveType DEF Tick, Places
  <2> QED
    BY <1>6, <2>1, Frame DEF Tick, TypeOK, RowType
<1>7. ASSUME Return(g) PROVE TypeOK'
  <2>1. LoopTypes'
    BY <1>7, MoveType DEF Return, Places
  <2> QED
    BY <1>7, <2>1, Frame DEF Return, TypeOK, RowType
<1>8. ASSUME Finish(g) PROVE TypeOK'
  <2>1. LoopTypes'
    BY <1>8, MoveType DEF Finish, Places
  <2>2. row' \in RowType
    BY <1>8, UpdateStatusType DEF Finish
  <2> QED
    BY <1>8, <2>1, <2>2, Frame DEF Finish, TypeOK, RowType
<1> QED
  BY <1>1, <1>2, <1>3, <1>4, <1>5, <1>6, <1>7, <1>8 DEF LoopStep

LEMMA ReceiveType ==
  ASSUME TypeOK, NEW r \in Request, NEW o \in Ops, Receive(r, o)
  PROVE  TypeOK'
<1>1. o \in Op /\ FirstStep(o) \in Steps /\ FirstStep(o) \notin Calls
  BY LifecycleAssumption DEF FirstStep, Steps, Calls
<1>2. row.running \in BOOLEAN
  BY DEF TypeOK
<1>3. [op EXCEPT ![r] = o] \in [Request -> Op]
  BY <1>1, SameHandler
<1>4. [seen EXCEPT ![r] = row.running] \in [Request -> BOOLEAN]
  BY <1>2, SameHandler
<1>5. HandlerTypes'
  BY <1>1, <1>3, <1>4, SameHandler, HandlerType DEF Receive
<1>6. BoundTypes'
  BY LifecycleAssumption DEF Receive, TypeOK, BoundTypes
<1> QED
  BY <1>5, <1>6, Frame DEF Receive, TypeOK, RowType

LEMMA LoadStepType ==
  ASSUME TypeOK, NEW r \in Request, LoadStep(r)
  PROVE  TypeOK'
<1>0. /\ AfterLoad(r) \in Steps /\ AfterLoad(r) \notin Calls
      /\ row.running \in BOOLEAN
  BY DEF AfterLoad, Steps, Calls, TypeOK
<1>a. [copy EXCEPT ![r] = row.running] \in [Request -> BOOLEAN]
  BY <1>0, SameHandler
<1>1. ASSUME ReadRow(r) PROVE TypeOK'
  <2>1. /\ (IF row.exists THEN "saverow" ELSE "remove") \in Steps
        /\ (IF row.exists THEN "saverow" ELSE "remove") \notin Calls
    BY DEF Steps, Calls
  <2>2. HandlerTypes'
    BY <1>1, <1>a, <2>1, SameHandler, HandlerType DEF ReadRow
  <2> QED
    BY <1>1, <2>2, Frame DEF ReadRow, TypeOK, RowType
<1>2. ASSUME SaveRow(r) PROVE TypeOK'
  <2>1. "remove" \in Steps /\ "remove" \notin Calls
    BY DEF Steps, Calls
  <2>2. HandlerTypes'
    BY <1>2, <2>1, SameHandler, HandlerType DEF SaveRow
  <2>3. row' \in RowType
    BY <1>2, SameHandler DEF SaveRow, RowType
  <2> QED
    BY <1>2, <2>2, <2>3, Frame DEF SaveRow, TypeOK, RowType
<1>3. ASSUME List(r) PROVE TypeOK'
  <2>1. /\ (IF row.exists THEN "build" ELSE AfterLoad(r)) \in Steps
        /\ (IF row.exists THEN "build" ELSE AfterLoad(r)) \notin Calls
    BY <1>0 DEF Steps, Calls
  <2>2. HandlerTypes'
    BY <1>3, <1>a, <2>1, SameHandler, HandlerType DEF List
  <2> QED
    BY <1>3, <2>2, Frame DEF List, TypeOK, RowType
<1>4. ASSUME Build(r) PROVE TypeOK'
  <2>1. /\ (IF current = None THEN "insert" ELSE AfterLoad(r)) \in Steps
        /\ (IF current = None THEN "insert" ELSE AfterLoad(r)) \notin Calls
    BY <1>0 DEF Steps, Calls
  <2>2. HandlerTypes'
    BY <1>4, <2>1, SameHandler, HandlerType DEF Build
  <2> QED
    BY <1>4, <2>2, Frame DEF Build, TypeOK, RowType
<1>5. ASSUME BuildFails(r) PROVE TypeOK'
  <2>1. HandlerTypes'
    BY <1>5, <1>0, SameHandler, HandlerType DEF BuildFails
  <2> QED
    BY <1>5, <2>1, Frame DEF BuildFails, TypeOK, RowType
<1>6. ASSUME Insert(r) PROVE TypeOK'
  <2>1. /\ made + 1 \in 1..MaxInstances
        /\ made + 1 \in Instance /\ made + 1 # None
        /\ ManagerTypes'
    BY <1>6, LifecycleAssumption
    DEF Insert, TypeOK, ManagerTypes, Instance, None
  <2>2. (IF copy[r] THEN "autostart" ELSE AfterLoad(r)) \in Steps
    BY <1>0 DEF Steps
  <2>3. HandlerTypes'
    BY <1>6, <2>1, <2>2, SameHandler, HandlerType DEF Insert, Unclaimed
  <2> QED
    BY <1>6, <2>1, <2>3, Frame DEF Insert, TypeOK, RowType
<1>7. ASSUME AutoStart(r) PROVE TypeOK'
  <2>1. got[r] \in Instance
    BY <1>7, SameHandler DEF AutoStart, Calls
  <2>2. LoopTypes'
    BY <1>7, <2>1, SpawnType DEF AutoStart, Free, Main
  <2>3. HandlerTypes'
    BY <1>7, <1>0, SameHandler, HandlerType DEF AutoStart
  <2> QED
    BY <1>7, <2>2, <2>3, Frame DEF AutoStart, TypeOK, RowType
<1> QED
  BY <1>1, <1>2, <1>3, <1>4, <1>5, <1>6, <1>7 DEF LoadStep

LEMMA HandlerStepType ==
  ASSUME TypeOK, NEW r \in Request, HandlerStep(r)
  PROVE  TypeOK'
<1>a. current \in Unclaimed /\ (current # None => current \in Instance)
  BY LifecycleAssumption
  DEF TypeOK, ManagerTypes, Unclaimed, Instance, None
<1>b. /\ "idle" \in Steps \ Calls /\ "unmark" \in Steps \ Calls
      /\ "repair" \in Steps \ Calls /\ "remove" \in Steps \ Calls
      /\ "list" \in Steps \ Calls /\ "deleterow" \in Steps \ Calls
      /\ "compare" \in Steps \ Calls
      /\ "mark" \in Steps /\ "go" \in Steps /\ "stop" \in Steps
      /\ "lock" \in Steps /\ "cycle" \in Steps
  BY DEF Steps, Calls
<1>c. pc[r] \in Calls => got[r] \in Instance /\ got[r] # None
  BY SameHandler, InstanceTypes
<1>1. ASSUME GetTrader(r) PROVE TypeOK'
  <2>1. AfterGet(r) \in Steps /\ (AfterGet(r) \in Calls => current # None)
    BY <1>b DEF AfterGet
  <2>2. HandlerTypes'
    BY <1>1, <1>a, <2>1, SameHandler, HandlerType DEF GetTrader
  <2> QED
    BY <1>1, <2>2, Frame DEF GetTrader, TypeOK, RowType
<1>2. ASSUME Compare(r) PROVE TypeOK'
  <2> DEFINE running == got[r] # None /\ isRunning[got[r]]
  <2> DEFINE s == IF running THEN IF seen[r] THEN "idle" ELSE "repair"
                  ELSE IF seen[r] THEN "unmark"
                  ELSE IF got[r] = None THEN "idle" ELSE "mark"
  <2>1. s \in Steps /\ (s \in Calls => got[r] # None)
    BY <1>b
  <2>2. Goto(r, s)
    BY <1>2 DEF Compare
  <2> HIDE DEF s
  <2>3. HandlerTypes'
    BY <1>2, <2>1, <2>2, SameHandler, HandlerType DEF Compare
  <2> QED
    BY <1>2, <2>3, Frame DEF Compare, TypeOK, RowType
<1>3. ASSUME Repair(r) PROVE TypeOK'
  <2>1. HandlerTypes'
    BY <1>3, <1>b, SameHandler, HandlerType DEF Repair
  <2>2. row' \in RowType
    BY <1>3, UpdateStatusType DEF Repair
  <2> QED
    BY <1>3, <2>1, <2>2, Frame DEF Repair, TypeOK, RowType
<1>4. ASSUME Mark(r) PROVE TypeOK'
  <2>0. got[r] # None
    BY <1>4, <1>c DEF Mark, Calls
  <2>1. HandlerTypes'
    BY <1>4, <1>b, <2>0, SameHandler, HandlerType DEF Mark
  <2>2. row' \in RowType
    BY <1>4, UpdateStatusType DEF Mark
  <2> QED
    BY <1>4, <2>1, <2>2, Frame DEF Mark, TypeOK, RowType
<1>5. ASSUME Go(r) PROVE TypeOK'
  <2>1. got[r] \in Instance
    BY <1>5, <1>c DEF Go, Calls
  <2>2. LoopTypes'
    BY <1>5, <2>1, SpawnType DEF Go, Free, Main
  <2>3. HandlerTypes'
    BY <1>5, <1>b, SameHandler, HandlerType DEF Go
  <2> QED
    BY <1>5, <2>2, <2>3, Frame DEF Go, TypeOK, RowType
<1>6. ASSUME Stop(r) PROVE TypeOK'
  <2>1. got[r] \in Instance
    BY <1>6, <1>c DEF Stop, Calls
  <2>2. RuntimeTypes'
    BY <1>6, <2>1, StopTraderType DEF Stop
  <2>3. HandlerTypes'
    BY <1>6, <1>b, SameHandler, HandlerType DEF Stop
  <2> QED
    BY <1>6, <2>2, <2>3, Frame DEF Stop, TypeOK, RowType
<1>7. ASSUME Unmark(r) PROVE TypeOK'
  <2> DEFINE s == IF op[r] \in {"update", "rekey"} THEN "list"
                  ELSE IF op[r] = "start" /\ got[r] # None THEN "mark"
                  ELSE "idle"
  <2>1. s \in Steps /\ (s \in Calls => got[r] # None)
    BY <1>b
  <2>2. Goto(r, s) /\ seen' \in [Request -> BOOLEAN]
    BY <1>7, SameHandler DEF Unmark
  <2> HIDE DEF s
  <2>3. HandlerTypes'
    BY <1>7, <2>1, <2>2, SameHandler, HandlerType DEF Unmark
  <2>4. row' \in RowType
    BY <1>7, UpdateStatusType DEF Unmark
  <2> QED
    BY <1>7, <2>3, <2>4, Frame DEF Unmark, TypeOK, RowType
<1>8. ASSUME RemoveTrader(r) PROVE TypeOK'
  <2>1. RuntimeTypes'
    BY <1>8, <1>a, StopTraderType, Frame DEF RemoveTrader
  <2>2. ManagerTypes'
    BY <1>8, LifecycleAssumption DEF RemoveTrader, TypeOK, ManagerTypes, None
  <2>3. HandlerTypes'
    BY <1>8, <1>b, SameHandler, HandlerType DEF RemoveTrader
  <2> QED
    BY <1>8, <2>1, <2>2, <2>3, Frame DEF RemoveTrader, TypeOK, RowType
<1>9. ASSUME DeleteRow(r) PROVE TypeOK'
  <2>1. HandlerTypes'
    BY <1>9, <1>b, SameHandler, HandlerType DEF DeleteRow
  <2>2. row' \in RowType
    BY <1>9 DEF DeleteRow, RowType
  <2> QED
    BY <1>9, <2>1, <2>2, Frame DEF DeleteRow, TypeOK, RowType
<1>10. ASSUME BeginOnce(r) PROVE TypeOK'
  <2>0. got[r] # None
    BY <1>10, <1>c DEF BeginOnce, Calls
  <2>1. HandlerTypes'
    BY <1>10, <1>b, <2>0, SameHandler, HandlerType DEF BeginOnce
  <2>2. HolderTypes'
    BY <1>10 DEF BeginOnce, TypeOK, HolderTypes
  <2> QED
    BY <1>10, <2>1, <2>2, Frame DEF BeginOnce, TypeOK, RowType
<1>11. ASSUME EndOnce(r) PROVE TypeOK'
  <2>1. HandlerTypes'
    BY <1>11, <1>b, SameHandler, HandlerType DEF EndOnce
  <2>2. HolderTypes'
    BY <1>11 DEF EndOnce, TypeOK, HolderTypes
  <2> QED
    BY <1>11, <2>1, <2>2, Frame DEF EndOnce, TypeOK, RowType
<1> QED
  BY <1>1, <1>2, <1>3, <1>4, <1>5, <1>6, <1>7, <1>8, <1>9, <1>10, <1>11
  DEF HandlerStep

LEMMA StutterType == TypeOK /\ UNCHANGED vars => TypeOK'
BY Frame DEF vars, TypeOK, RowType

(* Every variable has its type, and no request calls a method of a missing *)
(* instance, for any requests, goroutines, operations and bounds.          *)
THEOREM TypeCorrect == Spec => []TypeOK
<1>1. TypeOK /\ [Next]_vars => TypeOK'
  BY LoopStepType, LoadStepType, HandlerStepType, ReceiveType, CrashType,
     StutterType DEF Next
<1> QED
  BY InitType, <1>1, PTL DEF Spec

-----------------------------------------------------------------------------
(* The invariant behind NeverClosesTwice and RunningIsServed: a channel is *)
(* closed once made and never before, the one of a running instance is     *)
(* open, and only goroutines that call Run are about to call it.           *)
ChannelsApart ==
  \A i \in Instance :
    /\ closed[i] \subseteq 0..stopCh[i]
    /\ isRunning[i] => stopCh[i] \notin closed[i]

StartersAreMain == \A g \in Goroutine : at[g] = "run" => kind[g] \in Main

ChannelInv == TypeOK /\ NeverClosesTwice /\ ChannelsApart
LoopInv == ChannelInv /\ StartersAreMain /\ RunningIsServed

(* What a step does to the instances.                                      *)
LEMMA RuntimeSteps ==
  ASSUME TypeOK, [Next]_vars
  PROVE  \/ UNCHANGED runtime
         \/ \E g \in Goroutine : Run(g)
         \/ \E i \in Instance : StopTrader(i) /\ UNCHANGED loops
         \/ Crash
<1>1. ASSUME NEW g \in Goroutine, LoopStep(g)
      PROVE  UNCHANGED runtime \/ Run(g)
  BY <1>1 DEF LoopStep, RunFails, BeginCycle, EndCycle, EnterSelect, Tick,
              Return, Finish
<1>2. ASSUME NEW r \in Request, NEW o \in Ops, Receive(r, o)
      PROVE  UNCHANGED runtime
  BY <1>2 DEF Receive
<1>3. ASSUME NEW r \in Request, LoadStep(r)
      PROVE  UNCHANGED runtime
  BY <1>3 DEF LoadStep, ReadRow, SaveRow, List, Build, BuildFails, Insert,
              AutoStart
<1>4. ASSUME NEW r \in Request, HandlerStep(r)
      PROVE  \/ UNCHANGED runtime
             \/ \E i \in Instance : StopTrader(i) /\ UNCHANGED loops
  <2>1. CASE Stop(r)
    BY <2>1, SameHandler DEF Stop, Calls
  <2>2. CASE RemoveTrader(r)
    BY <2>2, LifecycleAssumption
    DEF RemoveTrader, TypeOK, ManagerTypes, Instance, None
  <2>3. CASE ~Stop(r) /\ ~RemoveTrader(r)
    BY <1>4, <2>3 DEF HandlerStep, GetTrader, Compare, Repair, Mark, Go,
                      Unmark, DeleteRow, BeginOnce, EndOnce
  <2> QED
    BY <2>1, <2>2, <2>3
<1>5. CASE UNCHANGED vars
  BY <1>5 DEF vars
<1> QED
  BY <1>1, <1>2, <1>3, <1>4, <1>5 DEF Next

LEMMA RunApart ==
  ASSUME ChannelInv, NEW i \in Instance, MarkRunning(i)
  PROVE  ~panicked' /\ ChannelsApart'
<1>1. \A j \in Instance : stopCh[j] \in Nat /\ closed[j] \subseteq 0..stopCh[j]
  BY DEF ChannelInv, ChannelsApart, TypeOK, RuntimeTypes
<1>2. /\ stopCh' = [stopCh EXCEPT ![i] = stopCh[i] + 1]
      /\ isRunning' = [isRunning EXCEPT ![i] = TRUE]
      /\ closed' = closed /\ ~panicked'
  BY DEF MarkRunning, ChannelInv, NeverClosesTwice
<1>3. ASSUME NEW j \in Instance
      PROVE  /\ closed'[j] \subseteq 0..stopCh'[j]
             /\ isRunning'[j] => stopCh'[j] \notin closed'[j]
  <2>1. CASE j = i
    BY <1>1, <1>2, <2>1 DEF ChannelInv, TypeOK, RuntimeTypes
  <2>2. CASE j # i
    BY <1>1, <1>2, <2>2 DEF ChannelInv, ChannelsApart, TypeOK, RuntimeTypes
  <2> QED
    BY <2>1, <2>2
<1> QED
  BY <1>2, <1>3 DEF ChannelsApart

LEMMA StopApart ==
  ASSUME ChannelInv, NEW i \in Instance, StopTrader(i)
  PROVE  ~panicked' /\ ChannelsApart'
<1>1. \A j \in Instance : stopCh[j] \in Nat /\ closed[j] \subseteq 0..stopCh[j]
  BY DEF ChannelInv, ChannelsApart, TypeOK, RuntimeTypes
<1>2. CASE ~isRunning[i]
  BY <1>2 DEF StopTrader, runtime, ChannelInv, NeverClosesTwice, ChannelsApart
<1>3. CASE isRunning[i]
  <2>1. /\ stopCh' = stopCh
        /\ isRunning' = [isRunning EXCEPT ![i] = FALSE]
        /\ closed' = [closed EXCEPT ![i] = closed[i] \union {stopCh[i]}]
        /\ panicked' = (panicked \/ stopCh[i] \in closed[i])
    BY <1>3 DEF StopTrader
  <2>2. ~panicked'
    BY <1>3, <2>1 DEF ChannelInv, NeverClosesTwice, ChannelsApart
  <2>3. ASSUME NEW j \in Instance
        PROVE  /\ closed'[j] \subseteq 0..stopCh'[j]
               /\ isRunning'[j] => stopCh'[j] \notin closed'[j]
    <3>1. CASE j = i
      BY <1>1, <2>1, <3>1 DEF ChannelInv, TypeOK, RuntimeTypes
    <3>2. CASE j # i
      BY <1>1, <2>1, <3>2 DEF ChannelInv, ChannelsApart, TypeOK, RuntimeTypes
    <3> QED
      BY <3>1, <3>2
  <2> QED
    BY <2>2, <2>3 DEF ChannelsApart
<1> QED
  BY <1>2, <1>3

LEMMA ChannelStep == ChannelInv /\ [Next]_vars => ChannelInv'
<1> SUFFICES ASSUME ChannelInv, [Next]_vars PROVE ChannelInv'
  OBVIOUS
<1>0. TypeOK /\ TypeOK'
  BY LoopStepType, LoadStepType, HandlerStepType, ReceiveType, CrashType,
     StutterType DEF Next, ChannelInv
<1>1. CASE UNCHANGED runtime
  BY <1>0, <1>1 DEF ChannelInv, NeverClosesTwice, ChannelsApart, runtime
<1>2. ASSUME NEW g \in Goroutine, Run(g) PROVE ChannelInv'
  BY <1>0, <1>2, RunApart
  DEF Run, TypeOK, LoopTypes, ChannelInv, NeverClosesTwice
<1>3. ASSUME NEW i \in Instance, StopTrader(i) PROVE ChannelInv'
  BY <1>0, <1>3, StopApart DEF ChannelInv, NeverClosesTwice
<1>4. CASE Crash
  BY <1>0, <1>4 DEF Crash, ChannelInv, NeverClosesTwice, ChannelsApart
<1> QED
  BY <1>0, <1>1, <1>2, <1>3, <1>4, RuntimeSteps

(* Stop never closes a channel twice, for any requests and goroutines.     *)
THEOREM NeverClosesTwiceAlways == Spec => []NeverClosesTwice
<1>1. Init => ChannelInv
  BY InitType DEF Init, ChannelInv, NeverClosesTwice, ChannelsApart
<1>2. ChannelInv => NeverClosesTwice
  BY DEF ChannelInv
<1> QED
  BY <1>1, <1>2, ChannelStep, PTL DEF Spec

-----------------------------------------------------------------------------
(* What a step does to the loops.                                          *)
Spawns ==
  \E g \in Free, i \in Instance, k \in Main :
    Spawn(g, i, k) /\ UNCHANGED <<on, runtime>>

LEMMA LoopSteps ==
  ASSUME TypeOK, [Next]_vars
  PROVE  \/ \E g \in Goroutine : LoopStep(g)
         \/ Spawns
         \/ UNCHANGED <<loops, runtime>>
         \/ \E i \in Instance : StopTrader(i) /\ UNCHANGED loops
         \/ Crash
<1>1. ASSUME NEW r \in Request, NEW o \in Ops, Receive(r, o)
      PROVE  UNCHANGED <<loops, runtime>>
  BY <1>1 DEF Receive
<1>2. ASSUME NEW r \in Request, LoadStep(r)
      PROVE  UNCHANGED <<loops, runtime>> \/ Spawns
  <2>1. CASE AutoStart(r)
    <3>1. got[r] \in Instance /\ "auto" \in Main
      BY <2>1, SameHandler DEF AutoStart, Calls, Main
    <3> QED
      BY <2>1, <3>1 DEF AutoStart, Spawns
  <2>2. CASE ~AutoStart(r)
    BY <1>2, <2>2 DEF LoadStep, ReadRow, SaveRow, List, Build, BuildFails,
                      Insert
  <2> QED
    BY <2>1, <2>2
<1>3. ASSUME NEW r \in Request, HandlerStep(r)
      PROVE  \/ UNCHANGED <<loops, runtime>>
             \/ Spawns
             \/ \E i \in Instance : StopTrader(i) /\ UNCHANGED loops
  <2>1. CASE Go(r)
    <3>1. got[r] \in Instance /\ "start" \in Main
      BY <2>1, SameHandler DEF Go, Calls, Main
    <3> QED
      BY <2>1, <3>1 DEF Go, Spawns
  <2>2. CASE Stop(r)
    BY <2>2, SameHandler DEF Stop, Calls
  <2>3. CASE RemoveTrader(r)
    BY <2>3, LifecycleAssumption
    DEF RemoveTrader, TypeOK, ManagerTypes, Instance, None
  <2>4. CASE ~Go(r) /\ ~Stop(r) /\ ~RemoveTrader(r)
    BY <1>3, <2>4 DEF HandlerStep, GetTrader, Compare, Repair, Mark, Unmark,
                      DeleteRow, BeginOnce, EndOnce
  <2> QED
    BY <2>1, <2>2, <2>3, <2>4
<1>4. CASE UNCHANGED vars
  BY <1>4 DEF vars
<1> QED
  BY <1>1, <1>2, <1>3, <1>4 DEF Next

(* A goroutine that a step leaves alone goes on serving.                   *)
LEMMA StillServes ==
  ASSUME NEW g, NEW i, Serves(g, i),
         at'[g] = at[g], of'[g] = of[g], on'[g] = on[g], kind'[g] = kind[g],
         closed'[i] = closed[i]
  PROVE  Serves(g, i)'
BY DEF Serves

(* A step of one goroutine that does not touch the instances: the others   *)
(* serve as before, and so does that one if it did.                        *)
LEMMA ServedByLoops ==
  ASSUME LoopInv, UNCHANGED runtime, NEW g \in Goroutine,
         \A h \in Goroutine : h # g => /\ at'[h] = at[h] /\ of'[h] = of[h]
                                       /\ on'[h] = on[h] /\ kind'[h] = kind[h],
         \A i \in Instance : isRunning[i] /\ Serves(g, i) => Serves(g, i)'
  PROVE  RunningIsServed'
<1> SUFFICES ASSUME NEW i \in Instance, isRunning'[i]
             PROVE  \E h \in Goroutine : Serves(h, i)'
  BY DEF RunningIsServed, Serves
<1>1. isRunning[i] /\ closed'[i] = closed[i]
  BY DEF runtime
<1>2. PICK h \in Goroutine : Serves(h, i)
  BY <1>1 DEF LoopInv, RunningIsServed
<1>3. CASE h = g
  BY <1>1, <1>2, <1>3
<1>4. CASE h # g
  BY <1>1, <1>2, <1>4, StillServes
<1> QED
  BY <1>3, <1>4

LEMMA RunServes ==
  ASSUME LoopInv, NEW g \in Goroutine, Run(g)
  PROVE  RunningIsServed'
<1> DEFINE n == of[g]
<1>1. /\ n \in Instance /\ kind[g] \in Main /\ at[g] = "run"
      /\ isRunning' = [isRunning EXCEPT ![n] = TRUE] /\ closed' = closed
      /\ isRunning \in [Instance -> BOOLEAN] /\ on' = on
  BY DEF LoopInv, ChannelInv, StartersAreMain, TypeOK, LoopTypes,
         RuntimeTypes, Run, MarkRunning
<1>2. \A h \in Goroutine : h # g /\ h \notin Free =>
          at'[h] = at[h] /\ of'[h] = of[h] /\ kind'[h] = kind[h]
  BY DEF Run, Move, LoopInv, ChannelInv, TypeOK, LoopTypes
<1>3. at'[g] = "lock" /\ of'[g] = n /\ kind'[g] = kind[g]
  BY <1>1 DEF Run, Move, Free, LoopInv, ChannelInv, TypeOK, LoopTypes
<1> SUFFICES ASSUME NEW i \in Instance, isRunning'[i]
             PROVE  \E h \in Goroutine : Serves(h, i)'
  BY DEF RunningIsServed, Serves
<1>4. CASE i = n
  BY <1>1, <1>3, <1>4 DEF Serves
<1>5. CASE i # n
  <2>1. PICK h \in Goroutine : Serves(h, i)
    BY <1>1, <1>5 DEF LoopInv, RunningIsServed
  <2>2. h # g /\ h \notin Free
    BY <1>1, <2>1 DEF Serves, Free
  <2> QED
    BY <1>1, <1>2, <2>1, <2>2, StillServes
<1> QED
  BY <1>4, <1>5

LEMMA LoopStepServes ==
  ASSUME LoopInv, NEW g \in Goroutine, LoopStep(g)
  PROVE  RunningIsServed' /\ StartersAreMain'
<1>0. at \in [Goroutine -> Places] /\ on \in [Goroutine -> Nat]
      /\ of[g] \in Instance
  BY DEF LoopInv, ChannelInv, TypeOK, LoopTypes
<1>1. CASE Run(g)
  <2>1. StartersAreMain'
    BY <1>0, <1>1
    DEF Run, Move, Free, LoopInv, ChannelInv, TypeOK, LoopTypes, StartersAreMain
  <2> QED
    BY <1>1, <2>1, RunServes
<1>2. CASE RunFails(g)
  BY <1>0, <1>2, ServedByLoops
  DEF RunFails, Move, Serves, LoopInv, StartersAreMain
<1>3. CASE BeginCycle(g)
  BY <1>0, <1>3, ServedByLoops
  DEF BeginCycle, Move, Serves, LoopInv, StartersAreMain
<1>4. CASE EndCycle(g)
  BY <1>0, <1>4, ServedByLoops
  DEF EndCycle, Move, Serves, LoopInv, StartersAreMain
<1>5. CASE EnterSelect(g)
  <2>1. isRunning[of[g]] => on'[g] \notin closed'[of[g]]
    BY <1>0, <1>5
    DEF EnterSelect, LoopInv, ChannelInv, ChannelsApart, runtime
  <2> QED
    BY <1>0, <1>5, <2>1, ServedByLoops
    DEF EnterSelect, Move, Serves, LoopInv, StartersAreMain
<1>6. CASE Tick(g)
  BY <1>0, <1>6, ServedByLoops
  DEF Tick, Move, Serves, LoopInv, StartersAreMain
<1>7. CASE Return(g)
  BY <1>0, <1>7, ServedByLoops
  DEF Return, Move, Serves, LoopInv, StartersAreMain
<1>8. CASE Finish(g)
  BY <1>0, <1>8, ServedByLoops
  DEF Finish, Move, Serves, LoopInv, StartersAreMain
<1> QED
  BY <1>1, <1>2, <1>3, <1>4, <1>5, <1>6, <1>7, <1>8 DEF LoopStep

LEMMA SpawnServes ==
  ASSUME LoopInv, Spawns
  PROVE  RunningIsServed' /\ StartersAreMain'
<1>1. PICK g \in Free, i \in Instance, k \in Main :
        Spawn(g, i, k) /\ UNCHANGED <<on, runtime>>
  BY DEF Spawns
<1>2. g \in Goroutine /\ at[g] = "free"
  BY DEF Free
<1>3. \A h \in Goroutine : h # g => /\ at'[h] = at[h] /\ of'[h] = of[h]
                                     /\ on'[h] = on[h] /\ kind'[h] = kind[h]
  BY <1>1, <1>2 DEF Spawn, LoopInv, ChannelInv, TypeOK, LoopTypes
<1>4. RunningIsServed'
  BY <1>1, <1>2, <1>3, ServedByLoops DEF Serves
<1>5. kind'[g] = k
  BY <1>1, <1>2 DEF Spawn, LoopInv, ChannelInv, TypeOK, LoopTypes
<1>6. StartersAreMain'
  BY <1>3, <1>5 DEF LoopInv, StartersAreMain
<1> QED
  BY <1>4, <1>6

LEMMA StopServes ==
  ASSUME LoopInv, NEW i \in Instance, StopTrader(i), UNCHANGED loops
  PROVE  RunningIsServed'
<1> SUFFICES ASSUME NEW j \in Instance, isRunning'[j]
             PROVE  \E h \in Goroutine : Serves(h, j)'
  BY DEF RunningIsServed, Serves
<1>1. isRunning[j] /\ closed'[j] = closed[j]
  BY DEF StopTrader, runtime, LoopInv, ChannelInv, TypeOK, RuntimeTypes
<1>2. PICK h \in Goroutine : Serves(h, j)
  BY <1>1 DEF LoopInv, RunningIsServed
<1> QED
  BY <1>1, <1>2, StillServes DEF loops

LEMMA LoopInvStep == LoopInv /\ [Next]_vars => LoopInv'
<1> SUFFICES ASSUME LoopInv, [Next]_vars PROVE LoopInv'
  OBVIOUS
<1>0. ChannelInv /\ TypeOK /\ ChannelInv'
  BY ChannelStep DEF LoopInv, ChannelInv
<1>1. ASSUME NEW g \in Goroutine, LoopStep(g) PROVE LoopInv'
  BY <1>0, <1>1, LoopStepServes DEF LoopInv
<1>2. CASE Spawns
  BY <1>0, <1>2, SpawnServes DEF LoopInv
<1>3. CASE UNCHANGED <<loops, runtime>>
  BY <1>0, <1>3
  DEF LoopInv, StartersAreMain, RunningIsServed, Serves, loops, runtime
<1>4. ASSUME NEW i \in Instance, StopTrader(i), UNCHANGED loops PROVE LoopInv'
  BY <1>0, <1>4, StopServes DEF LoopInv, StartersAreMain, loops
<1>5. CASE Crash
  BY <1>0, <1>5 DEF Crash, LoopInv, StartersAreMain, RunningIsServed, Main
<1> QED
  BY <1>0, <1>1, <1>2, <1>3, <1>4, <1>5, LoopSteps

(* A trader that says it is running has a loop that goes on, for any       *)
(* requests, goroutines and instances, whatever their order.               *)
THEOREM RunningIsServedAlways == Spec => []RunningIsServed
<1>1. Init => LoopInv
  BY InitType
  DEF Init, LoopInv, ChannelInv, NeverClosesTwice, ChannelsApart,
      StartersAreMain, RunningIsServed, Main
<1>2. LoopInv => RunningIsServed
  BY DEF LoopInv
<1> QED
  BY <1>1, <1>2, LoopInvStep, PTL DEF Spec
=============================================================================
