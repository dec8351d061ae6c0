-------------------------- MODULE PerpTrader_proofs --------------------------
(***************************************************************************)
(* Proofs about PerpTrader, for any requests, operations and bounds, with  *)
(* or without a grid.                                                      *)
(*                                                                         *)
(* What keeps an instance in order is that a Stop nobody overtook comes    *)
(* between two times of its life: after it no Run is starting, the channel *)
(* of now is closed, and whoever was counted is on the way out.            *)
(***************************************************************************)
EXTENDS PerpTrader, FiniteSetTheorems, TLAPS

-----------------------------------------------------------------------------
(* There is room for every instance and every call of Run still to come,   *)
(* and what has not been made or called is as Init left it.                *)

Unloaded == {"get", "remove", "unset", "close", "wait", "erase", "load"}

(* Of the calls owed, those not made yet.                                  *)
Due(r, b) ==
  /\ b \in MayCall(req[r].op)
  /\ \/ req[r].at \in Unloaded
     \/ req[r].at = "again" /\ b = "handler"
Uncalled == {c \in Request \X {"auto", "handler"} : Due(c[1], c[2])}
Loading == {r \in Request : req[r].at \in Unloaded}

Room ==
  /\ runs + Cardinality(Uncalled) <= MaxRuns
  /\ made + Cardinality(Loading) <= 1 + requests /\ requests <= MaxRequests

Fresh ==
  /\ \A g \in RunId : IF g > runs THEN run[g] = Unused
                      ELSE run[g].of \in 1..made /\ run[g].at # "unused"
  /\ \A i \in Instance : i > made =>
       /\ ~isRunning[i] /\ closed[i] = {} /\ ch[i] = 0
       /\ ~returned[i] /\ ~overtook[i]

(* Where a request stands, and with which operation.                       *)
Placed ==
  \A r \in Request :
    /\ req[r].got <= made
    /\ req[r].at \in {"unset", "close", "wait", "erase"} => req[r].got # None
    /\ req[r].at \in {"remove", "erase"} => req[r].op # "stop"
    /\ req[r].at = "load" => req[r].op \in {"start", "update", "load"}
    /\ req[r].at = "again" => req[r].op = "start" \/ req[r].was
    /\ req[r].at = "mark" => req[r].op = "start"
    /\ req[r].at = "unmark" => req[r].op = "stop"
    /\ req[r].was => req[r].op = "update"
    /\ req[r].at = "erase" => mu = r

(* The manager's lock is held by a RemoveTrader at work on the instance in *)
(* the map.                                                                *)
Locked ==
  mu # Free =>
    /\ req[mu].at \in {"unset", "close", "wait", "erase"}
    /\ req[mu].op # "stop"
    /\ req[mu].got = current /\ current # None

(* The wait group counts the loops and monitors of its instance.           *)
Counting == {"init"} \union Loop
Members(i) ==
  {c \in RunId \X {"loop", "monitor"} :
     /\ run[c[1]].of = i
     /\ IF c[2] = "loop" THEN run[c[1]].at \in Counting ELSE run[c[1]].mon # "off"}
WgCounts == \A i \in Instance : wg[i] = Cardinality(Members(i))

(* Channels are numbered as they are made; a loop that was launched knows  *)
(* one that Run made, and only then there is a monitor.                    *)
Launched == Counting \union {"clear", "ended"}
Numbered ==
  /\ \A i \in Instance : \A c \in closed[i] : c <= ch[i]
  /\ \A g \in RunId :
       /\ run[g].at \notin Launched => run[g].mon = "off"
       /\ run[g].at = "launch" => 1 <= ch[run[g].of]
       /\ run[g].at \in Launched => 1 <= run[g].syncOn /\ run[g].syncOn <= ch[run[g].of]

Frame == TypeOK /\ Room /\ Fresh /\ Placed /\ Locked /\ WgCounts /\ Numbered

-----------------------------------------------------------------------------
(* One instance that no Stop overtook.                                     *)

Busy(g) == run[g].at \in Counting \/ run[g].mon # "off"

(* No Run starts and nobody sets the mark while a Stop closes and waits.   *)
StopIsAlone ==
  \A i \in Instance : Stopping(i) /\ ~overtook[i] => ~Starting(i) /\ ~isRunning[i]

OneStop ==
  \A r, q \in Request :
    (/\ req[r].at \in {"close", "wait"} /\ req[q].at \in {"close", "wait"}
     /\ req[r].got = req[q].got /\ ~overtook[req[r].got])
      => r = q

(* Before the close the channel of now is open, after it it is closed.     *)
ClosesOpen ==
  \A r \in Request :
    LET i == req[r].got IN
      /\ req[r].at = "close" /\ ~overtook[i] => ch[i] \notin closed[i]
      /\ req[r].at = "wait" /\ ~overtook[i] => ch[i] \in closed[i]

(* A channel of now that is closed is about to be replaced, or its         *)
(* instance does not run.                                                  *)
RunningIsOpen ==
  \A i \in Instance :
    isRunning[i] /\ ~overtook[i] /\ ch[i] \in closed[i] =>
      \E g \in RunId : run[g].of = i /\ run[g].at = "make"

StartingIsOpen ==
  \A g \in RunId :
    run[g].at = "launch" /\ ~overtook[run[g].of] =>
      ch[run[g].of] \notin closed[run[g].of]

StartingRuns ==
  \A g \in RunId :
    run[g].at \in {"make", "launch", "init"} /\ ~overtook[run[g].of] =>
      isRunning[run[g].of]

(* Who is counted while the channel of now is closed, or while the mark is *)
(* off, is being waited for.                                               *)
LateIsAwaited ==
  \A g \in RunId :
    Busy(g) /\ ~overtook[run[g].of]
    /\ (ch[run[g].of] \in closed[run[g].of] \/ ~isRunning[run[g].of])
      => Stopping(run[g].of)

(* A loop that hears of a closed channel is being waited for.              *)
ToldIsAwaited ==
  \A g \in RunId :
    run[g].at = "wait" /\ run[g].on \in closed[run[g].of] /\ ~overtook[run[g].of]
      => Stopping(run[g].of)

(* What a Stop that returned leaves behind.                                *)
Stopped ==
  \A i \in Instance :
    returned[i] /\ ~overtook[i] =>
      ~Starting(i) /\ ~isRunning[i] /\ ~Stopping(i) /\ ch[i] \in closed[i]

Calm ==
  /\ StopIsAlone /\ OneStop /\ ClosesOpen
  /\ RunningIsOpen /\ StartingIsOpen /\ StartingRuns
  /\ LateIsAwaited /\ ToldIsAwaited /\ Stopped

-----------------------------------------------------------------------------
(* What left the map does not run, nor will it.                            *)

RemovedIsStill ==
  \A i \in 1..made : i # current /\ ~overtook[i] => ~Starting(i) /\ ~isRunning[i]

RemoverIsSure ==
  mu # Free /\ ~overtook[current] =>
    /\ req[mu].at = "unset" => isRunning[current] \/ ~Starting(current)
    /\ req[mu].at = "erase" => ~isRunning[current] /\ ~Starting(current)

Removal == RemovedIsStill /\ RemoverIsSure

-----------------------------------------------------------------------------
(* With one request after the other: what the request under way knows of   *)
(* the row and of the instance in the map.                                 *)

Up(i) == isRunning[i] \/ Starting(i)
Agrees == current # None => (row.running <=> Up(current))

Alone == ~overlapped /\ ~initFailed /\ \A i \in Instance : ~overtook[i]

RowIsSound ==
  /\ row.running => row.exists
  /\ \A g \in RunId : run[g].at = "clear" => initFailed

Turn(r) ==
  LET q == req[r] IN
    q.at # "idle" =>
      /\ q.op \in {"start", "stop", "update"} => row.exists
      /\ q.was => row.running
      /\ q.at = "get" /\ q.op # "delete" => Agrees
      /\ q.at = "load" => IF q.op = "load" THEN Agrees ELSE current = None
      /\ q.at = "again" => Agrees
      /\ q.at = "mark" => (current # None => Up(current))
      /\ q.op = "stop" =>
           /\ q.at \in {"unset", "close", "wait"} => q.got = current
           /\ q.at = "unset" => isRunning[current]
           /\ q.at = "unmark" => (current # None => ~Up(current))

InTurn ==
  Alone =>
    /\ \A r, q \in Request : req[r].at # "idle" /\ req[q].at # "idle" => r = q
    /\ (\A r \in Request : req[r].at = "idle") => Agrees
    /\ \A r \in Request : Turn(r)

Sequential == RowIsSound /\ InTurn

-----------------------------------------------------------------------------
(* What the steps of a goroutine do to its record.                         *)

RunType ==
  [of : 0..(1 + MaxRequests), at : Live \union {"unused", "clear", "ended"},
   on : Nat, mon : {"off", "select", "wait"}, monOn : Nat, syncOn : Nat,
   by : {"auto", "handler"}]
ReqType ==
  [at : {"idle", "get", "remove", "unset", "close", "wait", "erase", "load",
         "again", "mark", "unmark"},
   op : Op, got : 0..(1 + MaxRequests), was : BOOLEAN]

(* The goroutine g does its step and keeps its instance.                   *)
Steps(g) ==
  /\ run' \in [RunId -> RunType]
  /\ \A h \in RunId \ {g} : run'[h] = run[h]
  /\ run'[g].of = run[g].of /\ run'[g].by = run[g].by

LEMMA Put ==
  ASSUME TypeOK, NEW g \in RunId, NEW m \in RunType,
         m.of = run[g].of, m.by = run[g].by, run' = [run EXCEPT ![g] = m]
  PROVE  Steps(g) /\ run'[g] = m
BY DEF TypeOK, RunType, Steps

(* What a step that only moves leaves alone.                               *)
Same(g) ==
  /\ run'[g].mon = run[g].mon /\ run'[g].monOn = run[g].monOn
  /\ run'[g].syncOn = run[g].syncOn

LEMMA MoveFacts ==
  ASSUME TypeOK, NEW g \in RunId, NEW s \in Live \union {"clear", "ended"},
         NEW n \in Nat, run' = [run EXCEPT ![g] = [run[g] EXCEPT !.at = s, !.on = n]]
  PROVE  Steps(g) /\ Same(g) /\ run'[g].at = s /\ run'[g].on = n
<1> DEFINE m == [run[g] EXCEPT !.at = s, !.on = n]
<1>1. run[g] \in RunType
  BY DEF TypeOK, RunType
<1>2. m \in RunType /\ m.of = run[g].of /\ m.by = run[g].by /\ m.at = s /\ m.on = n
      /\ m.mon = run[g].mon /\ m.monOn = run[g].monOn /\ m.syncOn = run[g].syncOn
  BY <1>1 DEF RunType
<1>3. run' = [run EXCEPT ![g] = m]
  OBVIOUS
<1> HIDE DEF m
<1> QED
  BY <1>2, <1>3, Put DEF Same

LEMMA AtFacts ==
  ASSUME TypeOK, NEW g \in RunId, NEW s \in Live \union {"clear", "ended"}, Move(g, s)
  PROVE  Steps(g) /\ Same(g) /\ run'[g].at = s /\ run'[g].on = run[g].on
<1> DEFINE m == [run[g] EXCEPT !.at = s]
<1>1. run[g] \in RunType
  BY DEF TypeOK, RunType
<1>2. m \in RunType /\ m.of = run[g].of /\ m.by = run[g].by /\ m.at = s
      /\ m.on = run[g].on
      /\ m.mon = run[g].mon /\ m.monOn = run[g].monOn /\ m.syncOn = run[g].syncOn
  BY <1>1 DEF RunType
<1>3. run' = [run EXCEPT ![g] = m]
  BY <1>1 DEF Move, TypeOK, RunType
<1> HIDE DEF m
<1> QED
  BY <1>2, <1>3, Put DEF Same

LEMMA LaunchFacts ==
  ASSUME TypeOK, NEW g \in RunId, run[g].of \in Instance, Launch(g)
  PROVE  /\ Steps(g) /\ run'[g].at = (IF Grid THEN "init" ELSE CycleOf(g))
         /\ run'[g].on = run[g].on /\ run'[g].mon = "select"
         /\ run'[g].syncOn = ch[run[g].of] /\ run'[g].at \in Counting
<1> DEFINE s == IF Grid THEN "init" ELSE CycleOf(g)
           n == ChannelOfSync(g)
           m == [run[g] EXCEPT !.at = s, !.mon = "select", !.syncOn = n]
<1>1. run[g] \in RunType
  BY DEF TypeOK, RunType
<1>2. s \in Counting /\ s \in Live
  BY DEF CycleOf, Counting, Live, StartUp, Loop
<1>3. n = ch[run[g].of] /\ n \in Nat
  BY DEF ChannelOfSync, Of, TypeOK
<1>4. run' = [run EXCEPT ![g] = m]
  BY DEF Launch
<1> HIDE DEF s, n
<1>5. m \in RunType /\ m.of = run[g].of /\ m.by = run[g].by /\ m.at = s
      /\ m.on = run[g].on /\ m.mon = "select" /\ m.syncOn = n
  BY <1>1, <1>2, <1>3 DEF RunType
<1> HIDE DEF m
<1> QED
  BY <1>2, <1>3, <1>4, <1>5, Put DEF s

LEMMA MonitorFacts ==
  ASSUME TypeOK, NEW g \in RunId, NEW s \in {"off", "select", "wait"}, NEW n \in Nat,
         run' = [run EXCEPT ![g] = [run[g] EXCEPT !.mon = s, !.monOn = n]]
  PROVE  /\ Steps(g) /\ run'[g].mon = s /\ run'[g].monOn = n
         /\ run'[g].at = run[g].at /\ run'[g].on = run[g].on
         /\ run'[g].syncOn = run[g].syncOn
<1> DEFINE m == [run[g] EXCEPT !.mon = s, !.monOn = n]
<1>1. run[g] \in RunType
  BY DEF TypeOK, RunType
<1>2. m \in RunType /\ m.of = run[g].of /\ m.by = run[g].by /\ m.at = run[g].at
      /\ m.on = run[g].on /\ m.mon = s /\ m.monOn = n /\ m.syncOn = run[g].syncOn
  BY <1>1 DEF RunType
<1>3. run' = [run EXCEPT ![g] = m]
  OBVIOUS
<1> HIDE DEF m
<1> QED
  BY <1>2, <1>3, Put

-----------------------------------------------------------------------------
(* What the steps of a request do to its record.                           *)

(* The request r goes on to s, with the instance i at hand.                *)
Goes(r, s, i) ==
  /\ req' \in [Request -> ReqType]
  /\ \A q \in Request \ {r} : req'[q] = req[q]
  /\ req'[r].at = s
  /\ req'[r].op = IF s = "idle" THEN "load" ELSE req[r].op
  /\ req'[r].got = IF s \in {"idle", "load"} THEN None ELSE i
  /\ req'[r].was = (s # "idle" /\ req[r].was)

Places == {"idle", "get", "remove", "unset", "close", "wait", "erase", "load",
           "again", "mark", "unmark"}

LEMMA GoWithFacts ==
  ASSUME TypeOK, NEW r \in Request, NEW s \in Places,
         NEW i \in 0..(1 + MaxRequests), GoWith(r, s, i)
  PROVE  Goes(r, s, i)
<1> DEFINE m == [req[r] EXCEPT !.at = s, !.got = i]
           k == Kept(m)
<1>1. req[r] \in ReqType /\ "load" \in Op /\ 0 \in 0..(1 + MaxRequests)
  BY PerpAssumption DEF TypeOK, ReqType, Op
<1>2. m \in ReqType /\ m.at = s /\ m.op = req[r].op /\ m.got = i /\ m.was = req[r].was
  BY <1>1 DEF ReqType, Places
<1> HIDE DEF m
<1>3. /\ k \in ReqType /\ k.at = s /\ k.op = IF s = "idle" THEN "load" ELSE req[r].op
      /\ k.got = IF s \in {"idle", "load"} THEN None ELSE i
      /\ k.was = (s # "idle" /\ req[r].was)
  BY <1>1, <1>2 DEF ReqType, Kept, Idle, None
<1>4. req' = [req EXCEPT ![r] = k]
  BY DEF GoWith, m
<1> HIDE DEF k
<1> QED
  BY <1>3, <1>4 DEF TypeOK, ReqType, Goes

LEMMA GoFacts ==
  ASSUME TypeOK, NEW r \in Request, NEW s \in Places, Go(r, s)
  PROVE  Goes(r, s, req[r].got)
<1>1. req[r].got \in 0..(1 + MaxRequests)
  BY DEF TypeOK
<1>2. GoWith(r, s, req[r].got)
  BY DEF Go, GoWith, TypeOK
<1> QED
  BY <1>1, <1>2, GoWithFacts

-----------------------------------------------------------------------------
(* Room.                                                                   *)

LEMMA FewerLeft ==
  ASSUME NEW B, IsFiniteSet(B), NEW T \in SUBSET (Request \X B), NEW S \in SUBSET T
  PROVE  /\ IsFiniteSet(S) /\ Cardinality(S) \in Nat /\ Cardinality(T) \in Nat
         /\ Cardinality(S) <= Cardinality(T)
         /\ \A c \in T : c \notin S => Cardinality(S) + 1 <= Cardinality(T)
<1>1. IsFiniteSet(T)
  BY PerpAssumption, FS_Product, FS_Subset
<1>2. IsFiniteSet(S) /\ Cardinality(S) <= Cardinality(T)
  BY <1>1, FS_Subset
<1>3. Cardinality(S) \in Nat /\ Cardinality(T) \in Nat
  BY <1>1, <1>2, FS_CardinalityType
<1>4. ASSUME NEW c \in T, c \notin S
      PROVE  Cardinality(S) + 1 <= Cardinality(T)
  <2>1. IsFiniteSet(T \ {c}) /\ Cardinality(T \ {c}) = Cardinality(T) - 1
    BY <1>1, <1>4, FS_RemoveElement
  <2>2. S \subseteq T \ {c}
    BY <1>4
  <2>3. Cardinality(S) <= Cardinality(T \ {c})
    BY <2>1, <2>2, FS_Subset
  <2> QED
    BY <1>3, <2>1, <2>3
<1> QED
  BY <1>2, <1>3, <1>4

LEMMA FewerLoading ==
  ASSUME NEW T \in SUBSET Request, NEW S \in SUBSET T
  PROVE  /\ IsFiniteSet(S) /\ Cardinality(S) \in Nat /\ Cardinality(T) \in Nat
         /\ Cardinality(S) <= Cardinality(T)
         /\ \A c \in T : c \notin S => Cardinality(S) + 1 <= Cardinality(T)
<1>1. IsFiniteSet(T)
  BY PerpAssumption, FS_Subset
<1>2. IsFiniteSet(S) /\ Cardinality(S) <= Cardinality(T)
  BY <1>1, FS_Subset
<1>3. Cardinality(S) \in Nat /\ Cardinality(T) \in Nat
  BY <1>1, <1>2, FS_CardinalityType
<1>4. ASSUME NEW c \in T, c \notin S
      PROVE  Cardinality(S) + 1 <= Cardinality(T)
  <2>1. IsFiniteSet(T \ {c}) /\ Cardinality(T \ {c}) = Cardinality(T) - 1
    BY <1>1, <1>4, FS_RemoveElement
  <2>2. S \subseteq T \ {c}
    BY <1>4
  <2>3. Cardinality(S) <= Cardinality(T \ {c})
    BY <2>1, <2>2, FS_Subset
  <2> QED
    BY <1>3, <2>1, <2>3
<1> QED
  BY <1>2, <1>3, <1>4

LEMMA Callers ==
  /\ IsFiniteSet({"auto", "handler"})
  /\ Uncalled \in SUBSET (Request \X {"auto", "handler"})
  /\ Owed \in SUBSET (Request \X {"auto", "handler"})
  /\ Loading \in SUBSET Request
<1>1. IsFiniteSet({"auto", "handler"})
  <2>1. IsFiniteSet({"auto"})
    BY FS_Singleton
  <2>2. IsFiniteSet({"auto"} \union {"handler"})
    BY <2>1, FS_AddElement
  <2> QED
    BY <2>2
<1> QED
  BY <1>1 DEF Uncalled, Owed, Loading

LEMMA RoomToCall ==
  ASSUME TypeOK, Room, NEW c \in Uncalled
  PROVE  runs + 1 \in RunId
<1>1. /\ Cardinality({}) + 1 <= Cardinality(Uncalled)
      /\ Cardinality(Uncalled) \in Nat
  BY Callers, FewerLeft, {} \in SUBSET Uncalled, c \notin {}
<1>2. Cardinality({}) = 0
  BY FS_EmptySet
<1>3. runs \in Nat /\ MaxRuns \in Nat /\ runs + Cardinality(Uncalled) <= MaxRuns
  BY PerpAssumption DEF Room, TypeOK
<1> QED
  BY <1>1, <1>2, <1>3 DEF RunId

LEMMA RoomToLoad ==
  ASSUME TypeOK, Room, NEW r \in Loading
  PROVE  made + 1 \in Instance
<1>1. /\ Cardinality({}) + 1 <= Cardinality(Loading)
      /\ Cardinality(Loading) \in Nat
  BY Callers, FewerLoading, {} \in SUBSET Loading, r \notin {}
<1>2. Cardinality({}) = 0
  BY FS_EmptySet
<1>3. /\ made \in Nat /\ requests \in Nat /\ MaxRequests \in Nat
      /\ made + Cardinality(Loading) <= 1 + requests /\ requests <= MaxRequests
  BY PerpAssumption DEF Room, TypeOK
<1> QED
  BY <1>1, <1>2, <1>3 DEF Instance

(* A request that goes on, with or without a call of Run it owes, and with *)
(* or without an instance made as it leaves its load.                      *)
LEMMA RoomStep ==
  ASSUME TypeOK, Room, requests' = requests,
         Uncalled' \subseteq Uncalled, Loading' \subseteq Loading,
         \/ runs' = runs
         \/ runs' = runs + 1 /\ \E c \in Uncalled : c \notin Uncalled',
         \/ made' = made
         \/ made' = made + 1 /\ \E r \in Loading : r \notin Loading'
  PROVE  Room'
<1>1. runs' + Cardinality(Uncalled') <= MaxRuns
  <2>1. /\ Cardinality(Uncalled') \in Nat /\ Cardinality(Uncalled) \in Nat
        /\ Cardinality(Uncalled') <= Cardinality(Uncalled)
        /\ \A c \in Uncalled : c \notin Uncalled' =>
             Cardinality(Uncalled') + 1 <= Cardinality(Uncalled)
    BY Callers, FewerLeft
  <2>2. runs \in Nat /\ MaxRuns \in Nat /\ runs + Cardinality(Uncalled) <= MaxRuns
    BY PerpAssumption DEF Room, TypeOK
  <2> QED
    BY <2>1, <2>2
<1>2. made' + Cardinality(Loading') <= 1 + requests'
  <2>1. /\ Cardinality(Loading') \in Nat /\ Cardinality(Loading) \in Nat
        /\ Cardinality(Loading') <= Cardinality(Loading)
        /\ \A r \in Loading : r \notin Loading' =>
             Cardinality(Loading') + 1 <= Cardinality(Loading)
    BY Callers, FewerLoading
  <2>2. made \in Nat /\ requests \in Nat /\ made + Cardinality(Loading) <= 1 + requests
    BY PerpAssumption DEF Room, TypeOK
  <2> QED
    BY <2>1, <2>2
<1> QED
  BY <1>1, <1>2 DEF Room

-----------------------------------------------------------------------------
(* The wait group.                                                         *)

Part == {"loop", "monitor"}

(* The part k of g is counted on i.                                        *)
Counts(g, k, i) ==
  run[g].of = i /\ IF k = "loop" THEN run[g].at \in Counting ELSE run[g].mon # "off"

LEMMA MembersAre ==
  \A i : /\ Members(i) \in SUBSET (RunId \X Part)
         /\ \A g \in RunId, k \in Part : <<g, k>> \in Members(i) <=> Counts(g, k, i)
BY DEF Members, Part, Counts

LEMMA MembersAreNext ==
  \A i : /\ Members(i)' \in SUBSET (RunId \X Part)
         /\ \A g \in RunId, k \in Part : <<g, k>> \in Members(i)' <=> Counts(g, k, i)'
BY DEF Members, Part, Counts

LEMMA MembersFinite ==
  ASSUME NEW M \in SUBSET (RunId \X Part)
  PROVE  IsFiniteSet(M) /\ Cardinality(M) \in Nat
<1>1. IsFiniteSet(RunId)
  BY PerpAssumption, FS_Interval DEF RunId
<1>2. IsFiniteSet(Part)
  <2>1. IsFiniteSet({"loop"})
    BY FS_Singleton
  <2>2. IsFiniteSet({"loop"} \union {"monitor"})
    BY <2>1, FS_AddElement
  <2> QED
    BY <2>2 DEF Part
<1>3. IsFiniteSet(M)
  BY <1>1, <1>2, FS_Product, FS_Subset
<1> QED
  BY <1>3, FS_CardinalityType

(* Nobody joins or leaves.                                                 *)
LEMMA GroupKept ==
  ASSUME WgCounts, wg' = wg,
         \A g \in RunId, k \in Part, i \in Instance : Counts(g, k, i)' <=> Counts(g, k, i)
  PROVE  WgCounts'
<1> SUFFICES ASSUME NEW i \in Instance
             PROVE  wg'[i] = Cardinality(Members(i)')
  BY DEF WgCounts
<1>1. \A g \in RunId, k \in Part : <<g, k>> \in Members(i)' <=> <<g, k>> \in Members(i)
  BY MembersAre, MembersAreNext
<1>2. Members(i)' = Members(i)
  <2>1. Members(i) \in SUBSET (RunId \X Part) /\ Members(i)' \in SUBSET (RunId \X Part)
    BY MembersAre, MembersAreNext
  <2>2. \A c \in RunId \X Part : c \in Members(i)' <=> c \in Members(i)
    <3> SUFFICES ASSUME NEW g \in RunId, NEW k \in Part
                 PROVE  <<g, k>> \in Members(i)' <=> <<g, k>> \in Members(i)
      OBVIOUS
    <3> QED
      BY <1>1
  <2> QED
    BY <2>1, <2>2
<1>3. wg'[i] = Cardinality(Members(i))
  BY DEF WgCounts
<1> QED
  BY <1>2, <1>3

(* The part k of g leaves.                                                 *)
Leaves(g, k, i) ==
  /\ Counts(g, k, i) /\ ~Counts(g, k, i)'
  /\ \A h \in RunId, l \in Part, j \in Instance :
       <<h, l, j>> # <<g, k, i>> => (Counts(h, l, j)' <=> Counts(h, l, j))
  /\ wg' = [wg EXCEPT ![i] = @ - 1]

LEMMA GroupLeft ==
  ASSUME TypeOK, WgCounts, NEW g \in RunId, NEW k \in Part, NEW i \in Instance,
         Leaves(g, k, i)
  PROVE  WgCounts' /\ wg' \in [Instance -> Nat]
<1>1. /\ wg \in [Instance -> Nat]
      /\ wg'[i] = wg[i] - 1 /\ \A j \in Instance \ {i} : wg'[j] = wg[j]
  BY DEF TypeOK, Leaves
<1>2. Members(i)' = Members(i) \ {<<g, k>>} /\ <<g, k>> \in Members(i)
  <2>1. \A h \in RunId, l \in Part :
          <<h, l>> \in Members(i)' <=> <<h, l>> \in Members(i) /\ <<h, l>> # <<g, k>>
    BY MembersAre, MembersAreNext DEF Leaves
  <2> QED
    BY <2>1, MembersAre, MembersAreNext DEF Leaves
<1>3. /\ Cardinality(Members(i)') = Cardinality(Members(i)) - 1
      /\ Cardinality(Members(i)') \in Nat
  BY <1>2, MembersAre, MembersFinite, FS_RemoveElement
<1>4. \A j \in Instance \ {i} : Members(j)' = Members(j)
  <2> SUFFICES ASSUME NEW j \in Instance \ {i}
               PROVE  Members(j)' = Members(j)
    OBVIOUS
  <2>1. \A h \in RunId, l \in Part :
          <<h, l>> \in Members(j)' <=> <<h, l>> \in Members(j)
    BY MembersAre, MembersAreNext DEF Leaves
  <2> QED
    BY <2>1, MembersAre, MembersAreNext
<1>5. \A j \in Instance : wg'[j] = Cardinality(Members(j)')
  BY <1>1, <1>3, <1>4 DEF WgCounts
<1>6. \A j \in Instance : wg'[j] \in Nat
  BY <1>1, <1>3, <1>5
<1>7. wg' = [j \in Instance |-> wg'[j]]
  BY DEF TypeOK, Leaves
<1> QED
  BY <1>5, <1>6, <1>7 DEF WgCounts

(* Both parts of g join.                                                   *)
LEMMA GroupJoined ==
  ASSUME TypeOK, WgCounts, NEW g \in RunId, NEW i \in Instance,
         \A k \in Part : ~Counts(g, k, i) /\ Counts(g, k, i)',
         \A h \in RunId, k \in Part, j \in Instance :
           h # g \/ j # i => (Counts(h, k, j)' <=> Counts(h, k, j)),
         wg' = [wg EXCEPT ![i] = @ + 2]
  PROVE  WgCounts' /\ wg' \in [Instance -> Nat]
<1>1. /\ wg \in [Instance -> Nat]
      /\ wg'[i] = wg[i] + 2 /\ \A j \in Instance \ {i} : wg'[j] = wg[j]
  BY DEF TypeOK
<1> DEFINE M == Members(i)
           l == <<g, "loop">>
           m == <<g, "monitor">>
<1>2. Members(i)' = (M \union {l}) \union {m} /\ l \notin M /\ m \notin M \union {l}
  <2>1. \A h \in RunId, k \in Part :
          <<h, k>> \in Members(i)' <=> <<h, k>> \in M \/ h = g
    BY MembersAre, MembersAreNext
  <2>2. l \in RunId \X Part /\ m \in RunId \X Part
    BY DEF Part
  <2>3. \A k \in Part : k = "loop" \/ k = "monitor"
    BY DEF Part
  <2>4. Members(i)' = (M \union {l}) \union {m}
    BY <2>1, <2>2, <2>3, MembersAre, MembersAreNext
  <2>5. l \notin M /\ m \notin M \union {l}
    BY <2>2, MembersAre DEF Part
  <2> QED
    BY <2>4, <2>5
<1>3. /\ IsFiniteSet(M \union {l})
      /\ Cardinality(M \union {l}) = Cardinality(M) + 1 /\ Cardinality(M) \in Nat
  BY <1>2, MembersAre, MembersFinite, FS_AddElement
<1>4. Cardinality(Members(i)') = Cardinality(M) + 2
  <2>1. Cardinality((M \union {l}) \union {m}) = Cardinality(M \union {l}) + 1
    BY <1>2, <1>3, FS_AddElement
  <2> QED
    BY <1>2, <1>3, <2>1
<1>5. \A j \in Instance \ {i} : Members(j)' = Members(j)
  <2> SUFFICES ASSUME NEW j \in Instance \ {i}
               PROVE  Members(j)' = Members(j)
    OBVIOUS
  <2>1. \A h \in RunId, k \in Part :
          <<h, k>> \in Members(j)' <=> <<h, k>> \in Members(j)
    BY MembersAre, MembersAreNext
  <2> QED
    BY <2>1, MembersAre, MembersAreNext
<1>6. \A j \in Instance : wg'[j] = Cardinality(Members(j)')
  BY <1>1, <1>3, <1>4, <1>5 DEF WgCounts
<1>7. wg' \in [Instance -> Nat]
  BY DEF TypeOK
<1> QED
  BY <1>6, <1>7 DEF WgCounts

-----------------------------------------------------------------------------
(* The frame, over the steps of the goroutines of a Run.                   *)

(* A step of g changes its instance and its record only.                   *)
Local(g) ==
  /\ run[g].of \in 1..made /\ run[g].of \in Instance /\ g <= runs
  /\ Steps(g) /\ run'[g].at # "unused"
  /\ UNCHANGED <<current, made, mu, closed, runs, req, returned, overtook,
                 panicked, overlapped, counts>>
  /\ row' \in [exists : BOOLEAN, running : BOOLEAN] /\ initFailed' \in BOOLEAN
  /\ isRunning' \in [Instance -> BOOLEAN] /\ ch' \in [Instance -> Nat]
  /\ \A i \in Instance \ {run[g].of} : isRunning'[i] = isRunning[i] /\ ch'[i] = ch[i]

LEMMA Known ==
  ASSUME Frame, NEW g \in RunId, run[g].at # "unused" \/ run[g].mon # "off"
  PROVE  /\ run[g].of \in 1..made /\ run[g].of \in Instance /\ g <= runs
         /\ run[g].at # "unused"
<1>1. run[g] # Unused
  BY DEF Unused
<1>2. g \in Int /\ runs \in Int
  BY PerpAssumption DEF Frame, TypeOK, RunId
<1>3. ~(g > runs)
  BY <1>1 DEF Frame, Fresh
<1>4. run[g].of \in 1..made /\ run[g].at # "unused"
  BY <1>3 DEF Frame, Fresh
<1>5. made \in Nat /\ made <= 1 + MaxRequests
  BY PerpAssumption DEF Frame, TypeOK
<1> QED
  BY <1>2, <1>3, <1>4, <1>5, PerpAssumption DEF Instance

LEMMA LocalFrame ==
  ASSUME Frame, NEW g \in RunId, Local(g), WgCounts', wg' \in [Instance -> Nat], Numbered'
  PROVE  Frame'
<1>1. TypeOK'
  BY DEF Frame, Local, TypeOK, Steps, RunType, counts
<1>2. Room'
  <2>1. Uncalled' = Uncalled /\ Loading' = Loading
    BY DEF Local, Uncalled, Due, Loading
  <2> QED
    BY <2>1 DEF Local, Room, counts, Frame
<1>3. Fresh'
  <2>1. \A h \in RunId : IF h > runs THEN run'[h] = Unused
                         ELSE run'[h].of \in 1..made /\ run'[h].at # "unused"
    <3> SUFFICES ASSUME NEW h \in RunId
                 PROVE  IF h > runs THEN run'[h] = Unused
                        ELSE run'[h].of \in 1..made /\ run'[h].at # "unused"
      OBVIOUS
    <3>1. CASE h = g
      <4>1. ~(g > runs)
        BY PerpAssumption DEF Local, Frame, TypeOK, RunId
      <4> QED
        BY <3>1, <4>1 DEF Local, Steps
    <3>2. CASE h # g
      BY <3>2 DEF Local, Steps, Frame, Fresh
    <3> QED
      BY <3>1, <3>2
  <2>2. \A i \in Instance : i > made => i # run[g].of
    BY PerpAssumption DEF Local, Frame, TypeOK, Instance
  <2> QED
    BY <2>1, <2>2 DEF Local, Frame, Fresh
<1>4. Placed'
  BY DEF Local, Frame, Placed
<1>5. Locked'
  BY DEF Local, Frame, Locked
<1> QED
  BY <1>1, <1>2, <1>3, <1>4, <1>5 DEF Frame

(* Only g itself, or its instance's channel, can break the numbering.      *)
LEMMA NumberedStep ==
  ASSUME Frame, NEW g \in RunId, Local(g),
         ch[run[g].of] <= ch'[run[g].of],
         run'[g].at \notin Launched => run'[g].mon = "off",
         run'[g].at = "launch" => 1 <= ch'[run[g].of],
         run'[g].at \in Launched =>
           1 <= run'[g].syncOn /\ run'[g].syncOn <= ch'[run[g].of]
  PROVE  Numbered'
<1>1. \A i \in Instance : ch[i] \in Nat /\ ch'[i] \in Nat /\ ch[i] <= ch'[i]
  BY DEF Local, Frame, TypeOK
<1>2. \A i \in Instance : \A c \in closed'[i] : c <= ch'[i]
  <2> SUFFICES ASSUME NEW i \in Instance, NEW c \in closed'[i]
               PROVE  c <= ch'[i]
    OBVIOUS
  <2>1. c \in Nat /\ c <= ch[i]
    BY DEF Local, Frame, TypeOK, Numbered
  <2> QED
    BY <1>1, <2>1
<1>3. ASSUME NEW h \in RunId
      PROVE  /\ run'[h].at \notin Launched => run'[h].mon = "off"
             /\ run'[h].at = "launch" => 1 <= ch'[run'[h].of]
             /\ run'[h].at \in Launched =>
                  1 <= run'[h].syncOn /\ run'[h].syncOn <= ch'[run'[h].of]
  <2>1. CASE h = g
    BY <2>1 DEF Local, Steps
  <2>2. CASE h # g /\ run[h].at # "unused"
    <3>1. run'[h] = run[h] /\ run[h].of \in Instance
      BY <2>2, Known DEF Local, Steps
    <3>2. run[h].syncOn \in Nat
      BY DEF Frame, TypeOK
    <3>3. /\ run[h].at \notin Launched => run[h].mon = "off"
          /\ run[h].at = "launch" => 1 <= ch[run[h].of]
          /\ run[h].at \in Launched =>
               1 <= run[h].syncOn /\ run[h].syncOn <= ch[run[h].of]
      BY DEF Frame, Numbered
    <3>4. ch[run[h].of] \in Nat /\ ch'[run[h].of] \in Nat /\ ch[run[h].of] <= ch'[run[h].of]
      BY <1>1, <3>1
    <3> QED
      BY <3>1, <3>2, <3>3, <3>4
  <2>3. CASE h # g /\ run[h].at = "unused"
    <3>1. run'[h] = run[h] /\ run[h].at \notin Launched
      BY <2>3 DEF Local, Steps, Launched, Counting, Loop
    <3> QED
      BY <2>3, <3>1 DEF Launched, Counting, Loop, Frame, Numbered
  <2> QED
    BY <2>1, <2>2, <2>3
<1> QED
  BY <1>2, <1>3 DEF Numbered

LEMMA GroupSame ==
  ASSUME Frame, NEW g \in RunId, Local(g), wg' = wg,
         run'[g].at \in Counting <=> run[g].at \in Counting,
         run'[g].mon # "off" <=> run[g].mon # "off"
  PROVE  WgCounts' /\ wg' \in [Instance -> Nat]
<1>1. \A h \in RunId, k \in Part, i \in Instance : Counts(h, k, i)' <=> Counts(h, k, i)
  BY DEF Local, Steps, Counts
<1> QED
  BY <1>1, GroupKept DEF Frame, TypeOK

LEMMA LoopLeft ==
  ASSUME Frame, NEW g \in RunId, Local(g), wg' = [wg EXCEPT ![run[g].of] = @ - 1],
         run[g].at \in Counting, run'[g].at \notin Counting, run'[g].mon = run[g].mon
  PROVE  WgCounts' /\ wg' \in [Instance -> Nat]
<1> SUFFICES ASSUME NEW i \in Instance, i = run[g].of
             PROVE  WgCounts' /\ wg' \in [Instance -> Nat]
  BY DEF Local
<1>1. Counts(g, "loop", i) /\ ~Counts(g, "loop", i)'
  BY DEF Local, Steps, Counts
<1>2. \A h \in RunId, l \in Part, j \in Instance :
        <<h, l, j>> # <<g, "loop", i>> => (Counts(h, l, j)' <=> Counts(h, l, j))
  BY DEF Local, Steps, Counts, Part
<1>3. "loop" \in Part /\ Leaves(g, "loop", i)
  BY <1>1, <1>2 DEF Part, Leaves
<1>4. TypeOK /\ WgCounts
  BY DEF Frame
<1> QED
  BY <1>3, <1>4, GroupLeft

LEMMA MonitorLeft ==
  ASSUME Frame, NEW g \in RunId, Local(g), wg' = [wg EXCEPT ![run[g].of] = @ - 1],
         run[g].mon # "off", run'[g].mon = "off", run'[g].at = run[g].at
  PROVE  WgCounts' /\ wg' \in [Instance -> Nat]
<1> SUFFICES ASSUME NEW i \in Instance, i = run[g].of
             PROVE  WgCounts' /\ wg' \in [Instance -> Nat]
  BY DEF Local
<1>1. Counts(g, "monitor", i) /\ ~Counts(g, "monitor", i)'
  BY DEF Local, Steps, Counts
<1>2. \A h \in RunId, l \in Part, j \in Instance :
        <<h, l, j>> # <<g, "monitor", i>> => (Counts(h, l, j)' <=> Counts(h, l, j))
  BY DEF Local, Steps, Counts, Part
<1>3. "monitor" \in Part /\ Leaves(g, "monitor", i)
  BY <1>1, <1>2 DEF Part, Leaves
<1>4. TypeOK /\ WgCounts
  BY DEF Frame
<1> QED
  BY <1>3, <1>4, GroupLeft

(* What a step of g leaves to the invariants of the whole.                 *)
Framed(g) == Frame' /\ Local(g)

LEMMA SetRunningStep ==
  ASSUME Frame, NEW g \in RunId, SetRunning(g)
  PROVE  /\ Framed(g) /\ run[g].at = "called" /\ run'[g].at = "make" /\ Same(g)
         /\ isRunning'[run[g].of] = TRUE /\ ch' = ch
         /\ row' = row /\ initFailed' = initFailed
<1>1. run[g].at = "called" /\ TypeOK
  BY DEF SetRunning, Frame
<1>2. Steps(g) /\ Same(g) /\ run'[g].at = "make"
  BY <1>1, AtFacts DEF SetRunning, Live, StartUp
<1>3. run[g].of \in 1..made /\ run[g].of \in Instance /\ g <= runs
  BY <1>1, Known
<1>4. Local(g) /\ isRunning'[run[g].of] = TRUE
  BY <1>1, <1>2, <1>3 DEF Local, SetRunning, Of, TypeOK, manager, history, counts
<1>5. WgCounts' /\ wg' \in [Instance -> Nat]
  BY <1>1, <1>2, <1>4, GroupSame DEF SetRunning, Same, Counting, Loop
<1>6. Numbered'
  <2>1. ch' = ch /\ ch[run[g].of] \in Nat
    BY <1>1, <1>3 DEF SetRunning, TypeOK
  <2>2. run'[g].at \notin Launched
    BY <1>2 DEF Launched, Counting, Loop
  <2>3. run'[g].mon = "off"
    BY <1>1, <1>2 DEF Same, Launched, Counting, Loop, Frame, Numbered
  <2> QED
    BY <1>2, <1>4, <2>1, <2>2, <2>3, NumberedStep
<1>7. Frame'
  BY <1>4, <1>5, <1>6, LocalFrame
<1> QED
  BY <1>1, <1>2, <1>4, <1>7 DEF Framed, SetRunning, manager, history

LEMMA MakeChannelStep ==
  ASSUME Frame, NEW g \in RunId, MakeChannel(g)
  PROVE  /\ Framed(g) /\ run[g].at = "make" /\ run'[g].at = "launch" /\ Same(g)
         /\ ch'[run[g].of] = ch[run[g].of] + 1 /\ isRunning' = isRunning
         /\ row' = row /\ initFailed' = initFailed
<1>1. run[g].at = "make" /\ TypeOK
  BY DEF MakeChannel, Frame
<1>2. Steps(g) /\ Same(g) /\ run'[g].at = "launch"
  BY <1>1, AtFacts DEF MakeChannel, Live, StartUp
<1>3. run[g].of \in 1..made /\ run[g].of \in Instance /\ g <= runs
  BY <1>1, Known
<1>4. Local(g) /\ ch'[run[g].of] = ch[run[g].of] + 1
  BY <1>1, <1>2, <1>3 DEF Local, MakeChannel, Of, TypeOK, manager, history, counts
<1>5. WgCounts' /\ wg' \in [Instance -> Nat]
  BY <1>1, <1>2, <1>4, GroupSame DEF MakeChannel, Same, Counting, Loop
<1>6. Numbered'
  <2>1. ch[run[g].of] \in Nat
    BY <1>1, <1>3 DEF TypeOK
  <2>2. run'[g].at \notin Launched
    BY <1>2 DEF Launched, Counting, Loop
  <2>3. run'[g].mon = "off"
    BY <1>1, <1>2 DEF Same, Launched, Counting, Loop, Frame, Numbered
  <2> QED
    BY <1>2, <1>4, <2>1, <2>2, <2>3, NumberedStep
<1>7. Frame'
  BY <1>4, <1>5, <1>6, LocalFrame
<1> QED
  BY <1>1, <1>2, <1>4, <1>7 DEF Framed, MakeChannel, manager, history

LEMMA LaunchStep ==
  ASSUME Frame, NEW g \in RunId, Launch(g)
  PROVE  /\ Framed(g) /\ run[g].at = "launch" /\ run'[g].at \in Counting
         /\ run'[g].at \in {"init", "trade", "check"}
         /\ run'[g].mon = "select" /\ run'[g].syncOn = ch[run[g].of]
         /\ ch' = ch /\ isRunning' = isRunning
         /\ row' = row /\ initFailed' = initFailed
<1>1. run[g].at = "launch" /\ TypeOK
  BY DEF Launch, Frame
<1>2. run[g].of \in 1..made /\ run[g].of \in Instance /\ g <= runs
  BY <1>1, Known
<1>3. /\ Steps(g) /\ run'[g].mon = "select" /\ run'[g].syncOn = ch[run[g].of]
      /\ run'[g].at \in Counting /\ run'[g].at \in {"init", "trade", "check"}
  BY <1>1, <1>2, LaunchFacts DEF CycleOf
<1>4. Local(g)
  BY <1>1, <1>2, <1>3
     DEF Local, Launch, Counting, Loop, TypeOK, manager, history, counts
<1>5. WgCounts' /\ wg' \in [Instance -> Nat]
  <2> SUFFICES ASSUME NEW i \in Instance, i = run[g].of
               PROVE  WgCounts' /\ wg' \in [Instance -> Nat]
    BY <1>2
  <2>1. run[g].at \notin Counting /\ run[g].mon = "off"
    BY <1>1 DEF Counting, Launched, Loop, Frame, Numbered
  <2>2. \A k \in Part : ~Counts(g, k, i) /\ Counts(g, k, i)'
    BY <1>3, <2>1 DEF Counts, Part, Steps
  <2>3. \A h \in RunId, k \in Part, j \in Instance :
          h # g \/ j # i => (Counts(h, k, j)' <=> Counts(h, k, j))
    BY <1>3 DEF Counts, Steps
  <2>4. wg' = [wg EXCEPT ![i] = @ + 2]
    BY <1>2 DEF Launch, Counted, Of
  <2> QED
    BY <1>1, <2>2, <2>3, <2>4, GroupJoined DEF Frame
<1>6. Numbered'
  <2>1. ch[run[g].of] \in Nat /\ 1 <= ch[run[g].of] /\ ch' = ch
    BY <1>1, <1>2 DEF Frame, Numbered, TypeOK, Launch
  <2> QED
    BY <1>1, <1>3, <1>4, <2>1, NumberedStep DEF Counting, Launched, Loop
<1>7. Frame'
  BY <1>4, <1>5, <1>6, LocalFrame
<1> QED
  BY <1>1, <1>3, <1>4, <1>7 DEF Framed, Launch, manager, history

LEMMA InitGridStep ==
  ASSUME Frame, NEW g \in RunId, InitGrid(g)
  PROVE  /\ Framed(g) /\ run[g].at = "init" /\ Same(g)
         /\ ch' = ch /\ isRunning' = isRunning /\ row' = row
         /\ \/ run'[g].at \in {"trade", "check"} /\ initFailed' = initFailed
            \/ run'[g].at \in {"clear", "ended"} /\ initFailed'
<1>1. run[g].at = "init" /\ TypeOK
  BY DEF InitGrid, Frame
<1>2. run[g].of \in 1..made /\ run[g].of \in Instance /\ g <= runs
  BY <1>1, Known
<1>3. CASE Move(g, CycleOf(g)) /\ UNCHANGED <<wg, initFailed>>
  <2>1. CycleOf(g) \in {"trade", "check"}
    BY DEF CycleOf
  <2>2. Steps(g) /\ Same(g) /\ run'[g].at \in {"trade", "check"}
    BY <1>1, <1>3, <2>1, AtFacts DEF Live, Loop
  <2>3. Local(g)
    BY <1>1, <1>2, <1>3, <2>2 DEF Local, InitGrid, TypeOK, manager, counts
  <2>4. WgCounts' /\ wg' \in [Instance -> Nat]
    BY <1>1, <1>3, <2>2, <2>3, GroupSame DEF Same, Counting, Loop
  <2>5. Numbered'
    <3>1. /\ ch' = ch /\ ch[run[g].of] \in Nat
          /\ 1 <= run[g].syncOn /\ run[g].syncOn <= ch[run[g].of]
      BY <1>1, <1>2 DEF InitGrid, TypeOK, Frame, Numbered, Launched, Counting
    <3>2. run'[g].at # "launch" /\ run'[g].at \in Launched
      BY <2>2 DEF Launched, Counting, Loop
    <3> QED
      BY <2>2, <2>3, <3>1, <3>2, NumberedStep DEF Same
  <2>6. Frame'
    BY <2>3, <2>4, <2>5, LocalFrame
  <2> QED
    BY <1>1, <1>3, <2>2, <2>3, <2>6 DEF Framed, InitGrid, manager
<1>4. CASE Return(g, IF run[g].by = "auto" THEN "clear" ELSE "ended") /\ initFailed' = TRUE
  <2> DEFINE s == IF run[g].by = "auto" THEN "clear" ELSE "ended"
  <2>1. s \in {"clear", "ended"} /\ Return(g, s)
    BY <1>4
  <2> HIDE DEF s
  <2>2. Steps(g) /\ Same(g) /\ run'[g].at \in {"clear", "ended"}
    BY <1>1, <2>1, MoveFacts DEF Return
  <2>3. Local(g)
    BY <1>1, <1>2, <1>4, <2>2 DEF Local, InitGrid, TypeOK, manager, counts
  <2>4. WgCounts' /\ wg' \in [Instance -> Nat]
    BY <1>1, <2>1, <2>2, <2>3, LoopLeft DEF Return, Of, Same, Counting, Loop
  <2>5. Numbered'
    <3>1. /\ ch' = ch /\ ch[run[g].of] \in Nat
          /\ 1 <= run[g].syncOn /\ run[g].syncOn <= ch[run[g].of]
      BY <1>1, <1>2 DEF InitGrid, TypeOK, Frame, Numbered, Launched, Counting
    <3>2. run'[g].at # "launch" /\ run'[g].at \in Launched
      BY <2>2 DEF Launched, Counting, Loop
    <3> QED
      BY <2>2, <2>3, <3>1, <3>2, NumberedStep DEF Same
  <2>6. Frame'
    BY <2>3, <2>4, <2>5, LocalFrame
  <2> QED
    BY <1>1, <1>4, <2>2, <2>3, <2>6 DEF Framed, InitGrid, manager
<1> QED
  BY <1>3, <1>4 DEF InitGrid

LEMMA ClearMarkStep ==
  ASSUME Frame, NEW g \in RunId, ClearMark(g)
  PROVE  /\ Framed(g) /\ run[g].at = "clear" /\ run'[g].at = "ended" /\ Same(g)
         /\ ch' = ch /\ isRunning' = isRunning /\ initFailed' = initFailed
         /\ row' = [row EXCEPT !.running = FALSE]
<1>1. run[g].at = "clear" /\ TypeOK
  BY DEF ClearMark, Frame
<1>2. run[g].of \in 1..made /\ run[g].of \in Instance /\ g <= runs
  BY <1>1, Known
<1>3. Steps(g) /\ Same(g) /\ run'[g].at = "ended"
  BY <1>1, AtFacts DEF ClearMark
<1>4. Local(g)
  BY <1>1, <1>2, <1>3 DEF Local, ClearMark, TypeOK, fields, history, counts
<1>5. WgCounts' /\ wg' \in [Instance -> Nat]
  BY <1>1, <1>3, <1>4, GroupSame DEF ClearMark, fields, Same, Counting, Loop
<1>6. Numbered'
  <2>1. /\ ch' = ch /\ ch[run[g].of] \in Nat
        /\ 1 <= run[g].syncOn /\ run[g].syncOn <= ch[run[g].of]
    BY <1>1, <1>2 DEF ClearMark, fields, TypeOK, Frame, Numbered, Launched
  <2>2. run'[g].at # "launch" /\ run'[g].at \in Launched
    BY <1>3 DEF Launched
  <2> QED
    BY <1>3, <1>4, <2>1, <2>2, NumberedStep DEF Same
<1>7. Frame'
  BY <1>4, <1>5, <1>6, LocalFrame
<1> QED
  BY <1>1, <1>3, <1>4, <1>7 DEF Framed, ClearMark, fields, history

(* A loop that goes on, or ends.                                           *)
Looped(g) ==
  /\ Framed(g) /\ run[g].at \in Loop /\ Same(g)
  /\ ch' = ch /\ isRunning' = isRunning /\ row' = row /\ initFailed' = initFailed

LEMMA LoopGoesOn ==
  ASSUME Frame, NEW g \in RunId, run[g].at \in Loop,
         NEW s \in Loop, NEW n \in Nat,
         run' = [run EXCEPT ![g] = [run[g] EXCEPT !.at = s, !.on = n]],
         UNCHANGED <<manager, fields, runs, req, history, counts>>
  PROVE  Looped(g) /\ run'[g].at = s /\ run'[g].on = n
<1>1. TypeOK /\ run[g].at # "unused" /\ s # "unused"
  BY DEF Frame, Loop
<1>2. run[g].of \in 1..made /\ run[g].of \in Instance /\ g <= runs
  BY <1>1, Known
<1>3. Steps(g) /\ Same(g) /\ run'[g].at = s /\ run'[g].on = n
  BY <1>1, MoveFacts DEF Live
<1>4. Local(g)
  BY <1>1, <1>2, <1>3 DEF Local, TypeOK, manager, fields, history, counts
<1>5. WgCounts' /\ wg' \in [Instance -> Nat]
  BY <1>3, <1>4, GroupSame DEF fields, Same, Counting
<1>6. Numbered'
  <2>1. /\ ch' = ch /\ ch[run[g].of] \in Nat
        /\ 1 <= run[g].syncOn /\ run[g].syncOn <= ch[run[g].of]
    BY <1>1, <1>2 DEF fields, TypeOK, Frame, Numbered, Launched, Counting
  <2>2. run'[g].at # "launch" /\ run'[g].at \in Launched
    BY <1>3 DEF Launched, Counting, Loop
  <2> QED
    BY <1>3, <1>4, <2>1, <2>2, NumberedStep DEF Same
<1>7. Frame'
  BY <1>4, <1>5, <1>6, LocalFrame
<1> QED
  BY <1>3, <1>4, <1>7 DEF Looped, Framed, manager, fields, history

LEMMA LoopEnds ==
  ASSUME Frame, NEW g \in RunId, run[g].at \in Loop, Return(g, "ended"),
         UNCHANGED <<manager, isRunning, ch, closed, runs, req, history, counts>>
  PROVE  Looped(g) /\ run'[g].at = "ended"
<1>1. TypeOK /\ run[g].at # "unused"
  BY DEF Frame, Loop
<1>2. run[g].of \in 1..made /\ run[g].of \in Instance /\ g <= runs
  BY <1>1, Known
<1>3. Steps(g) /\ Same(g) /\ run'[g].at = "ended"
  BY <1>1, MoveFacts DEF Return
<1>4. Local(g)
  BY <1>1, <1>2, <1>3 DEF Local, TypeOK, manager, history, counts
<1>5. WgCounts' /\ wg' \in [Instance -> Nat]
  BY <1>3, <1>4, LoopLeft DEF Return, Of, Same, Counting, Loop
<1>6. Numbered'
  <2>1. /\ ch' = ch /\ ch[run[g].of] \in Nat
        /\ 1 <= run[g].syncOn /\ run[g].syncOn <= ch[run[g].of]
    BY <1>1, <1>2 DEF TypeOK, Frame, Numbered, Launched, Counting
  <2>2. run'[g].at # "launch" /\ run'[g].at \in Launched
    BY <1>3 DEF Launched
  <2> QED
    BY <1>3, <1>4, <2>1, <2>2, NumberedStep DEF Same
<1>7. Frame'
  BY <1>4, <1>5, <1>6, LocalFrame
<1> QED
  BY <1>3, <1>4, <1>7 DEF Looped, Framed, manager, history

LEMMA EndCycleStep ==
  ASSUME Frame, NEW g \in RunId, EndCycle(g)
  PROVE  /\ Looped(g)
         /\ \/ /\ isRunning[run[g].of]
               /\ run'[g].at = "wait" /\ run'[g].on = ch[run[g].of]
            \/ ~isRunning[run[g].of] /\ run'[g].at = "ended"
<1>1. run[g].at \in Loop /\ run[g].at # "unused" /\ TypeOK
  BY DEF EndCycle, Loop, Frame
<1>2. run[g].of \in Instance /\ ch[run[g].of] \in Nat
  BY <1>1, Known DEF TypeOK
<1>3. CASE isRunning[run[g].of]
  <2>1. /\ run' = [run EXCEPT ![g] =
                     [run[g] EXCEPT !.at = "wait", !.on = ch[run[g].of]]]
        /\ UNCHANGED <<manager, fields, runs, req, history, counts>>
    BY <1>3 DEF EndCycle, Of, fields
  <2> QED
    BY <1>1, <1>2, <1>3, <2>1, LoopGoesOn DEF Loop
<1>4. CASE ~isRunning[run[g].of]
  BY <1>1, <1>4, LoopEnds DEF EndCycle, Of
<1> QED
  BY <1>3, <1>4

LEMMA TickStep ==
  ASSUME Frame, NEW g \in RunId, Tick(g)
  PROVE  Looped(g) /\ run'[g].at \in {"trade", "check"} /\ run'[g].on = 0
<1>1. run[g].at \in Loop /\ CycleOf(g) \in Loop /\ CycleOf(g) \in {"trade", "check"}
  BY DEF Tick, Loop, CycleOf
<1> QED
  BY <1>1, LoopGoesOn DEF Tick

LEMMA StopSignalStep ==
  ASSUME Frame, NEW g \in RunId, StopSignal(g)
  PROVE  /\ Looped(g) /\ run[g].at = "wait" /\ run[g].on \in closed[run[g].of]
         /\ run'[g].at = "ended"
<1>1. run[g].at \in Loop
  BY DEF StopSignal, Loop
<1> QED
  BY <1>1, LoopEnds DEF StopSignal, Of

(* A step of a monitor: its loop stands still.                             *)
Monitored(g) ==
  /\ Framed(g) /\ run[g].mon # "off" /\ run'[g].at = run[g].at
  /\ run'[g].on = run[g].on /\ run'[g].syncOn = run[g].syncOn
  /\ ch' = ch /\ isRunning' = isRunning /\ row' = row /\ initFailed' = initFailed

LEMMA MonitorStepFacts ==
  ASSUME Frame, NEW g \in RunId, MonitorStep(g)
  PROVE  Monitored(g)
<1>1. PICK s \in {"off", "select", "wait"}, n \in Nat :
        run' = [run EXCEPT ![g] = [run[g] EXCEPT !.mon = s, !.monOn = n]]
        /\ run[g].mon # "off" /\ (wg' = IF s = "off" THEN [wg EXCEPT ![run[g].of] = @ - 1] ELSE wg)
  <2>1. run[g].mon # "off"
    BY DEF MonitorStep, MonitorSelect, MonitorTick, MonitorStops
  <2>2. ch[run[g].of] \in Nat
    BY <2>1, Known DEF Frame, TypeOK
  <2>3. CASE MonitorSelect(g)
    BY <2>1, <2>2, <2>3 DEF MonitorSelect, Of, fields
  <2>4. CASE MonitorTick(g)
    BY <2>1, <2>4 DEF MonitorTick, fields
  <2>5. CASE MonitorStops(g)
    BY <2>1, <2>5 DEF MonitorStops, Of
  <2> QED
    BY <2>3, <2>4, <2>5 DEF MonitorStep
<1>2. UNCHANGED <<manager, isRunning, ch, closed, runs, req, history, counts>>
  BY DEF MonitorStep, MonitorSelect, MonitorTick, MonitorStops, fields
<1>3. TypeOK
  BY DEF Frame
<1>4. /\ run[g].of \in 1..made /\ run[g].of \in Instance /\ g <= runs
      /\ run[g].at # "unused"
  BY <1>1, Known
<1>5. /\ Steps(g) /\ run'[g].mon = s /\ run'[g].at = run[g].at
      /\ run'[g].on = run[g].on /\ run'[g].syncOn = run[g].syncOn
  BY <1>1, <1>3, MonitorFacts
<1>6. Local(g)
  BY <1>2, <1>3, <1>4, <1>5 DEF Local, TypeOK, manager, history, counts
<1>7. WgCounts' /\ wg' \in [Instance -> Nat]
  <2>1. CASE s = "off"
    BY <1>1, <1>5, <1>6, <2>1, MonitorLeft
  <2>2. CASE s # "off"
    BY <1>1, <1>5, <1>6, <2>2, GroupSame
  <2> QED
    BY <2>1, <2>2
<1>8. Numbered'
  <2>1. ch' = ch /\ ch[run[g].of] \in Nat /\ run[g].at \in Launched
    BY <1>1, <1>2, <1>3, <1>4 DEF TypeOK, Frame, Numbered
  <2>2. /\ 1 <= run[g].syncOn /\ run[g].syncOn <= ch[run[g].of]
        /\ run[g].at # "launch"
    BY <2>1 DEF Frame, Numbered, Launched, Counting, Loop
  <2> QED
    BY <1>5, <1>6, <2>1, <2>2, NumberedStep
<1>9. Frame'
  BY <1>6, <1>7, <1>8, LocalFrame
<1> QED
  BY <1>1, <1>2, <1>5, <1>6, <1>9 DEF Monitored, Framed, manager, history

-----------------------------------------------------------------------------
(* The frame, over the steps of the requests.                              *)

(* The request r goes on, and loads and calls what it owes or less.        *)
Onward(r) ==
  /\ req' \in [Request -> ReqType]
  /\ \A q \in Request \ {r} : req'[q] = req[q]
  /\ req'[r].at = "idle" \/ req'[r].op = req[r].op
  /\ req'[r].at \in Unloaded => req[r].at \in Unloaded
  /\ req'[r].at = "again" => req[r].at = "load"

Caller == {"auto", "handler"}

LEMMA UncalledAre ==
  /\ Uncalled \in SUBSET (Request \X Caller)
  /\ \A r \in Request, b \in Caller : <<r, b>> \in Uncalled <=> Due(r, b)
BY DEF Uncalled, Caller

LEMMA UncalledAreNext ==
  /\ Uncalled' \in SUBSET (Request \X Caller)
  /\ \A r \in Request, b \in Caller : <<r, b>> \in Uncalled' <=> Due(r, b)'
BY DEF Uncalled, Caller

LEMMA OnwardOwes ==
  ASSUME NEW r \in Request, Onward(r)
  PROVE  Uncalled' \subseteq Uncalled /\ Loading' \subseteq Loading
<1>1. \A q \in Request, b \in Caller : Due(q, b)' => Due(q, b)
  BY DEF Onward, Unloaded, Due, Caller
<1>2. \A q \in Request, b \in Caller :
        <<q, b>> \in Uncalled' => <<q, b>> \in Uncalled
  BY <1>1, UncalledAre, UncalledAreNext
<1>3. /\ Uncalled \in SUBSET (Request \X Caller)
      /\ Uncalled' \in SUBSET (Request \X Caller)
  BY UncalledAre, UncalledAreNext
<1>4. Uncalled' \subseteq Uncalled
  BY <1>2, <1>3
<1>5. Loading' \subseteq Loading
  BY DEF Onward, Loading
<1> QED
  BY <1>4, <1>5

(* A step of r that neither makes an instance nor calls Run.               *)
Handled(r) ==
  /\ Onward(r)
  /\ UNCHANGED <<made, runs, run, ch, wg, initFailed, overlapped, counts>>

LEMMA HandledFrame ==
  ASSUME Frame, NEW r \in Request, Handled(r), TypeOK', Placed', Locked',
         \A i \in Instance : \A c \in closed'[i] : c <= ch[i],
         \A i \in Instance : i > made =>
           /\ ~isRunning'[i] /\ closed'[i] = {} /\ ~returned'[i] /\ ~overtook'[i]
  PROVE  Frame'
<1>1. Room'
  BY OnwardOwes, RoomStep DEF Handled, Frame, counts
<1>2. Fresh'
  BY DEF Handled, Frame, Fresh
<1>3. WgCounts'
  <2>1. \A g \in RunId, k \in Part, i \in Instance : Counts(g, k, i)' <=> Counts(g, k, i)
    BY DEF Handled, Counts
  <2> QED
    BY <2>1, GroupKept DEF Handled, Frame
<1>4. Numbered'
  BY DEF Handled, Frame, Numbered
<1> QED
  BY <1>1, <1>2, <1>3, <1>4 DEF Frame

LEMMA GetStep ==
  ASSUME Frame, NEW r \in Request, Get(r)
  PROVE  /\ Frame' /\ Handled(r) /\ req[r].at = "get" /\ mu = Free
         /\ UNCHANGED <<manager, fields, runs, run, history, counts>>
         /\ req'[r].at = AfterGet(req[r].op, current)
         /\ req'[r].at \in {"idle", "load", "remove", "unset"}
         /\ req'[r].at # "idle" => req'[r].op = req[r].op
         /\ req'[r].at = "unset" =>
              req'[r].got = current /\ current # None /\ isRunning[current]
         /\ req'[r].was => Running(current)
<1>1. TypeOK /\ req[r].at = "get" /\ mu = Free
  BY DEF Get, Frame
<1>0. PICK w \in BOOLEAN :
        /\ w => req[r].op = "update" /\ Running(current)
        /\ req' = [req EXCEPT ![r] = Kept(
             [req[r] EXCEPT !.at = AfterGet(req[r].op, current), !.got = current,
                            !.was = w])]
  BY DEF Get
<1> DEFINE s == AfterGet(req[r].op, current)
           m == [req[r] EXCEPT !.at = s, !.got = current, !.was = w]
           k == Kept(m)
<1>2. req[r] \in ReqType /\ current \in 0..(1 + MaxRequests) /\ 0 \in 0..(1 + MaxRequests)
  BY <1>1, PerpAssumption DEF TypeOK, ReqType
<1>3. /\ s \in {"idle", "load", "remove", "unset"}
      /\ s = "unset" => /\ current # None /\ isRunning[current]
                        /\ req[r].op \in {"stop", "delete"}
      /\ s = "load" => req[r].op = "start"
      /\ s = "remove" => req[r].op # "stop"
  BY <1>1 DEF AfterGet, Running, TypeOK, Op
<1>5. req' = [req EXCEPT ![r] = k]
  BY <1>0
<1> HIDE DEF s
<1>6. m \in ReqType /\ m.at = s /\ m.op = req[r].op /\ m.got = current /\ m.was = w
  BY <1>0, <1>2, <1>3 DEF ReqType
<1> HIDE DEF m
<1>7. /\ k \in ReqType /\ k.at = s /\ k.op = IF s = "idle" THEN "load" ELSE req[r].op
      /\ k.got = IF s \in {"idle", "load"} THEN None ELSE current
      /\ k.was = (s # "idle" /\ w)
  BY <1>2, <1>6 DEF ReqType, Kept, Idle, None, Op
<1> HIDE DEF k
<1>8. req' \in [Request -> ReqType] /\ req'[r] = k /\ \A q \in Request \ {r} : req'[q] = req[q]
  BY <1>1, <1>5, <1>7 DEF TypeOK, ReqType
<1>9. UNCHANGED <<manager, fields, runs, run, history, counts>>
  BY DEF Get
<1>10. Handled(r)
  BY <1>1, <1>3, <1>7, <1>8, <1>9
     DEF Handled, Onward, Unloaded, manager, fields, history, counts
<1>11. TypeOK'
  BY <1>1, <1>8, <1>9 DEF TypeOK, ReqType, manager, fields, history, counts
<1>12. Placed'
  <2>1. made \in Nat /\ current <= made /\ made' = made /\ mu' = mu
    BY <1>1, <1>9, PerpAssumption DEF TypeOK, manager
  <2>2. \A q \in Request \ {r} : req'[q] = req[q]
    BY <1>8
  <2>3. w => req[r].op = "update"
    BY <1>0
  <2>4. /\ req'[r].got <= made
        /\ req'[r].at \in {"unset", "close", "wait", "erase"} => req'[r].got # None
        /\ req'[r].at \in {"remove", "erase"} => req'[r].op # "stop"
        /\ req'[r].at = "load" => req'[r].op \in {"start", "update", "load"}
        /\ req'[r].at \notin {"again", "mark", "unmark", "erase"}
        /\ req'[r].was => req'[r].op = "update"
    <3>1. req'[r].was => w /\ req'[r].at # "idle"
      BY <1>7, <1>8
    <3>2. req'[r].at # "idle" => req'[r].op = req[r].op
      BY <1>7, <1>8
    <3>3. req'[r].at = s /\ req'[r].got <= made /\ (s = "unset" => req'[r].got = current)
      BY <1>7, <1>8, <2>1 DEF None
    <3> QED
      BY <1>3, <2>3, <3>1, <3>2, <3>3
  <2> QED
    BY <2>1, <2>2, <2>4 DEF Frame, Placed
<1>13. Locked'
  BY <1>1, <1>9 DEF Locked, manager
<1>14. Frame'
  BY <1>9, <1>10, <1>11, <1>12, <1>13, HandledFrame
     DEF Frame, Numbered, Fresh, fields, history
<1> QED
  BY <1>0, <1>1, <1>3, <1>7, <1>8, <1>9, <1>10, <1>14 DEF s

(* For the other steps the frame follows from where the request goes.      *)
LEMMA GoesFrame ==
  ASSUME Frame, NEW r \in Request, NEW s \in Places, NEW i \in 0..made, Goes(r, s, i),
         s \in Unloaded => req[r].at \in Unloaded,
         s \in {"unset", "close", "wait", "erase"} => i # None,
         s \in {"remove", "erase"} => req[r].op # "stop",
         s = "load" => req[r].op \in {"start", "update", "load"},
         s = "unmark" => req[r].op = "stop",
         s \notin {"again", "mark"}, s = "erase" => mu' = r,
         mu' \in Request \union {Free}, mu = r \/ mu = Free \/ mu' = mu,
         mu' = Free \/ mu' = mu \/ mu' = r,
         UNCHANGED <<made, runs, run, ch, wg, initFailed, overlapped, counts>>
  PROVE  /\ Handled(r) /\ Placed'
         /\ mu' # r /\ current' = current => Locked'
<1>1. Handled(r)
  BY DEF Goes, Handled, Onward
<1>2. made \in Nat /\ i <= made /\ made' = made
  BY PerpAssumption DEF Frame, TypeOK
<1>3. /\ req'[r].got <= made
      /\ req'[r].at \in {"unset", "close", "wait", "erase"} => req'[r].got # None
      /\ req'[r].at \in {"remove", "erase"} => req'[r].op # "stop"
      /\ req'[r].at = "load" => req'[r].op \in {"start", "update", "load"}
      /\ req'[r].at \notin {"again", "mark"}
      /\ req'[r].at = "unmark" => req'[r].op = "stop"
      /\ req'[r].was => req'[r].op = "update"
      /\ req'[r].at = "erase" => mu' = r
  <2>1. req'[r].was => req[r].was /\ req'[r].at # "idle"
    BY DEF Goes
  <2>2. req'[r].at # "idle" => req'[r].op = req[r].op
    BY DEF Goes
  <2>3. /\ req'[r].at = s /\ req'[r].got <= made
        /\ s \notin {"idle", "load"} => req'[r].got = i
    BY <1>2 DEF Goes, None
  <2>4. req[r].was => req[r].op = "update"
    BY DEF Frame, Placed
  <2> QED
    BY <2>1, <2>2, <2>3, <2>4
<1>4. \A q \in Request \ {r} : req'[q] = req[q] /\ (req[q].at = "erase" => mu' = q)
  <2> SUFFICES ASSUME NEW q \in Request \ {r}
               PROVE  req'[q] = req[q] /\ (req[q].at = "erase" => mu' = q)
    OBVIOUS
  <2>1. req'[q] = req[q]
    BY DEF Goes
  <2>2. req[q].at = "erase" => mu = q
    BY DEF Frame, Placed
  <2>3. mu = q => mu' = q
    BY PerpAssumption
  <2> QED
    BY <2>1, <2>2, <2>3
<1>5. Placed'
  BY <1>2, <1>3, <1>4 DEF Frame, Placed
<1>6. mu' # r /\ current' = current => Locked'
  <2> SUFFICES ASSUME mu' # r, current' = current, mu' # Free
               PROVE  Locked'
    BY DEF Locked
  <2>1. mu' = mu /\ mu' \in Request \ {r}
    OBVIOUS
  <2> QED
    BY <1>4, <2>1 DEF Locked, Frame
<1> QED
  BY <1>1, <1>5, <1>6

LEMMA RemoveStep ==
  ASSUME Frame, NEW r \in Request, Remove(r)
  PROVE  /\ Frame' /\ Handled(r) /\ req[r].at = "remove" /\ mu = Free
         /\ UNCHANGED <<row, fields, returned, panicked>>
         /\ \/ /\ Running(current) /\ Goes(r, "unset", current) /\ mu' = r
               /\ UNCHANGED <<current, overtook>>
            \/ /\ ~Running(current) /\ Goes(r, AfterRemove(r), req[r].got)
               /\ current' = None /\ mu' = mu
               /\ overtook' = IF current = None THEN overtook
                              ELSE OvertookIf(current, Starting(current))
<1>1. TypeOK /\ req[r].at = "remove" /\ mu = Free
  BY DEF Remove, Frame
<1>2. UNCHANGED <<row, made, fields, runs, run, returned, panicked, initFailed,
                  overlapped, counts>>
  BY DEF Remove
<1>3. /\ req[r].op \in {"start", "update", "delete", "load"} /\ req[r].got \in 0..made
      /\ current \in 0..made /\ current \in 0..(1 + MaxRequests) /\ made \in Nat
      /\ 0 \in 0..made
  BY <1>1, PerpAssumption DEF TypeOK, Frame, Placed, Op
<1>4. CASE Running(current) /\ mu' = r /\ GoWith(r, "unset", current)
           /\ UNCHANGED <<current, overtook>>
  <2>1. Goes(r, "unset", current)
    BY <1>1, <1>3, <1>4, GoWithFacts DEF Places
  <2>2. Handled(r) /\ Placed'
    BY <1>1, <1>2, <1>3, <1>4, <2>1, GoesFrame
       DEF Unloaded, Running, Places, fields, counts
  <2>3. TypeOK'
    BY <1>1, <1>2, <1>4, <2>1 DEF TypeOK, Goes, ReqType, fields, counts
  <2>4. Locked'
    BY <1>1, <1>3, <1>4, <2>1 DEF Locked, Goes, Running
  <2>5. Frame'
    BY <1>2, <1>4, <2>2, <2>3, <2>4, HandledFrame DEF Frame, Numbered, Fresh, fields
  <2> QED
    BY <1>1, <1>2, <1>4, <2>1, <2>2, <2>5
<1>5. CASE /\ ~Running(current) /\ current' = None /\ Go(r, AfterRemove(r)) /\ mu' = mu
           /\ overtook' = IF current = None THEN overtook
                          ELSE OvertookIf(current, Starting(current))
  <2> DEFINE s == AfterRemove(r)
  <2>1. s \in {"idle", "load"} /\ s \in Places
        /\ (s = "load" => req[r].op \in {"start", "update", "load"})
    BY <1>3 DEF AfterRemove, Places
  <2>2. Goes(r, s, req[r].got)
    BY <1>1, <1>5, <2>1, GoFacts
  <2> HIDE DEF s
  <2>3. Handled(r) /\ Placed'
    BY <1>1, <1>2, <1>3, <1>5, <2>1, <2>2, GoesFrame DEF Unloaded, fields, counts
  <2>4. /\ overtook' \in [Instance -> BOOLEAN]
        /\ \A i \in Instance : i > made => ~overtook'[i]
    <3>1. CASE current = None
      BY <1>1, <1>5, <3>1 DEF TypeOK, Frame, Fresh
    <3>2. CASE current # None
      <4> DEFINE b == Starting(current)
      <4>1. b \in BOOLEAN /\ current \in Instance
        BY <1>1, <3>2, PerpAssumption DEF TypeOK, Starting, Instance, None
      <4>2. overtook' = [overtook EXCEPT ![current] = @ \/ b]
        BY <1>5, <3>2 DEF OvertookIf
      <4> HIDE DEF b
      <4> QED
        BY <1>1, <1>3, <4>1, <4>2 DEF TypeOK, Frame, Fresh, Instance
    <3> QED
      BY <3>1, <3>2
  <2>5. TypeOK'
    BY <1>1, <1>2, <1>3, <1>5, <2>2, <2>4 DEF TypeOK, Goes, ReqType, fields, counts, None
  <2>6. Locked'
    BY <1>1, <1>5 DEF Locked
  <2>7. Frame'
    BY <1>2, <2>3, <2>4, <2>5, <2>6, HandledFrame DEF Frame, Numbered, Fresh, fields
  <2> QED
    BY <1>1, <1>2, <1>5, <2>2, <2>3, <2>7 DEF s
<1> QED
  BY <1>4, <1>5 DEF Remove

LEMMA EraseStep ==
  ASSUME Frame, NEW r \in Request, Erase(r)
  PROVE  /\ Frame' /\ Handled(r) /\ req[r].at = "erase" /\ mu = r
         /\ UNCHANGED <<row, fields, returned, panicked>>
         /\ req[r].got = current /\ current \in Instance
         /\ Goes(r, AfterRemove(r), req[r].got)
         /\ current' = None /\ mu' = Free
         /\ overtook' = [overtook EXCEPT ![current] = @ \/ Starting(current)]
<1>1. TypeOK /\ req[r].at = "erase" /\ mu = r /\ r # Free
  BY PerpAssumption DEF Erase, Frame, Placed
<1>2. UNCHANGED <<row, made, fields, runs, run, returned, panicked, initFailed,
                  overlapped, counts>>
  BY DEF Erase
<1>3. req[r].got = current /\ current # None /\ req[r].op # "stop"
  BY <1>1 DEF Frame, Locked
<1>4. /\ req[r].op \in {"start", "update", "delete", "load"}
      /\ current \in 1..made /\ current \in Instance /\ req[r].got \in 0..made
      /\ made \in Nat /\ 0 \in 0..made
  BY <1>1, <1>3, PerpAssumption DEF TypeOK, Op, Instance, None
<1> DEFINE s == AfterRemove(r)
           b == Starting(current)
<1>5. s \in {"idle", "load"} /\ s \in Places
      /\ (s = "load" => req[r].op \in {"start", "update", "load"})
  BY <1>4 DEF AfterRemove, Places
<1>6. Goes(r, s, req[r].got)
  BY <1>1, <1>5, GoFacts DEF Erase
<1>7. current' = None /\ mu' = Free /\ overtook' = [overtook EXCEPT ![current] = @ \/ b]
  BY <1>3 DEF Erase, OvertookIf
<1>8. b \in BOOLEAN
  BY DEF Starting
<1> HIDE DEF s, b
<1>9. Handled(r) /\ Placed'
  BY <1>1, <1>2, <1>4, <1>5, <1>6, <1>7, GoesFrame DEF Unloaded, fields, counts
<1>10. /\ overtook' \in [Instance -> BOOLEAN]
       /\ \A i \in Instance : i > made => ~overtook'[i]
  BY <1>1, <1>4, <1>7, <1>8 DEF TypeOK, Frame, Fresh, Instance
<1>11. TypeOK'
  BY <1>1, <1>2, <1>4, <1>6, <1>7, <1>10 DEF TypeOK, Goes, ReqType, fields, counts, None
<1>12. Locked'
  BY <1>7 DEF Locked
<1>13. Frame'
  BY <1>2, <1>9, <1>10, <1>11, <1>12, HandledFrame DEF Frame, Numbered, Fresh, fields
<1> QED
  BY <1>1, <1>2, <1>3, <1>4, <1>6, <1>7, <1>9, <1>13 DEF s, b

LEMMA UnsetStep ==
  ASSUME Frame, NEW r \in Request, Unset(r)
  PROVE  /\ Frame' /\ Handled(r) /\ req[r].at = "unset"
         /\ UNCHANGED <<manager, ch, closed, wg, returned, panicked>>
         /\ req[r].got \in Instance
         /\ isRunning' = [isRunning EXCEPT ![req[r].got] = FALSE]
         /\ \/ /\ isRunning[req[r].got] /\ Goes(r, "close", req[r].got)
               /\ overtook' = [overtook EXCEPT ![req[r].got] = @ \/ Starting(req[r].got)]
            \/ /\ ~isRunning[req[r].got] /\ Goes(r, AfterStop(r), req[r].got)
               /\ overtook' = overtook
<1>1. TypeOK /\ req[r].at = "unset"
  BY DEF Unset, Frame
<1>2. UNCHANGED <<manager, ch, closed, wg, runs, run, returned, panicked,
                  initFailed, overlapped, counts>>
  BY DEF Unset
<1> DEFINE i == req[r].got
           b == Starting(i)
           s == IF isRunning[i] THEN "close" ELSE AfterStop(r)
<1>3. i \in 1..made /\ i \in Instance /\ i # None /\ i \in 0..made /\ made \in Nat
  BY <1>1, PerpAssumption DEF TypeOK, Frame, Placed, Instance, None
<1>4. /\ mu = r => req[r].op # "stop"
      /\ s \in {"close", "erase", "unmark", "remove"} /\ s \in Places
      /\ s = "remove" => req[r].op # "stop"
      /\ s = "erase" => mu = r /\ req[r].op # "stop"
      /\ s = "unmark" => req[r].op = "stop"
      /\ s \notin {"close", "erase"} => mu # r
  <2>1. mu = r => req[r].op # "stop"
    BY <1>1, PerpAssumption DEF Frame, Locked
  <2> QED
    BY <2>1 DEF AfterStop, Places
<1>5. isRunning' = [isRunning EXCEPT ![i] = FALSE]
  BY DEF Unset, Marked
<1>6. b \in BOOLEAN
  BY DEF Starting
<1>7. overtook' = [overtook EXCEPT ![i] = @ \/ (isRunning[i] /\ b)]
  BY DEF Unset, OvertookIf, StopsIf
<1>8. Go(r, s)
  BY DEF Unset, StopsIf
<1>9. Goes(r, s, i)
  BY <1>1, <1>4, <1>8, GoFacts
<1> HIDE DEF b
<1>10. /\ overtook' \in [Instance -> BOOLEAN] /\ isRunning' \in [Instance -> BOOLEAN]
       /\ \A j \in Instance : j > made => ~overtook'[j] /\ ~isRunning'[j]
  BY <1>1, <1>3, <1>5, <1>6, <1>7 DEF TypeOK, Frame, Fresh, Instance
<1>11. ~isRunning[i] => overtook' = overtook
  <2> SUFFICES ASSUME ~isRunning[i]
               PROVE  overtook' = overtook
    OBVIOUS
  <2>1. \A j \in Instance : overtook'[j] = overtook[j]
    BY <1>1, <1>3, <1>7 DEF TypeOK
  <2> QED
    BY <1>1, <1>10, <2>1 DEF TypeOK
<1>12. isRunning[i] => overtook' = [overtook EXCEPT ![i] = @ \/ b]
  BY <1>1, <1>3, <1>6, <1>7 DEF TypeOK
<1>13. isRunning[i] => s = "close"
  OBVIOUS
<1>14. ~isRunning[i] => s = AfterStop(r)
  OBVIOUS
<1> HIDE DEF s
<1>15. /\ Handled(r) /\ Placed'
       /\ mu' # r /\ current' = current => Locked'
  BY <1>1, <1>2, <1>3, <1>4, <1>9, GoesFrame DEF Unloaded, manager, TypeOK
<1>16. TypeOK'
  BY <1>1, <1>2, <1>9, <1>10 DEF TypeOK, Goes, ReqType, manager, counts
<1>17. Locked'
  <2>1. CASE mu = r
    BY <1>1, <1>2, <1>3, <1>4, <1>9, <2>1, PerpAssumption
       DEF Locked, Frame, Goes, manager
  <2>2. CASE mu # r
    BY <1>2, <1>15, <2>2 DEF manager
  <2> QED
    BY <2>1, <2>2
<1>18. Frame'
  BY <1>2, <1>10, <1>15, <1>16, <1>17, HandledFrame DEF Frame, Numbered, Fresh
<1> QED
  BY <1>1, <1>2, <1>3, <1>5, <1>9, <1>11, <1>12, <1>13, <1>14, <1>15, <1>18 DEF b

LEMMA CloseStep ==
  ASSUME Frame, NEW r \in Request, CloseChannel(r)
  PROVE  /\ Frame' /\ Handled(r) /\ req[r].at = "close"
         /\ UNCHANGED <<row, current, isRunning, returned, overtook>>
         /\ req[r].got \in Instance
         /\ closed' = [closed EXCEPT ![req[r].got] = @ \union {ch[req[r].got]}]
         /\ \/ /\ ch[req[r].got] \in closed[req[r].got]
               /\ Goes(r, "idle", req[r].got) /\ panicked'
            \/ /\ ch[req[r].got] \notin closed[req[r].got]
               /\ Goes(r, "wait", req[r].got) /\ panicked' = panicked /\ mu' = mu
<1>1. TypeOK /\ req[r].at = "close"
  BY DEF CloseChannel, Frame
<1>2. UNCHANGED <<row, current, made, isRunning, ch, wg, runs, run, returned,
                  overtook, initFailed, overlapped, counts>>
  BY DEF CloseChannel
<1> DEFINE i == req[r].got
           again == ch[i] \in closed[i]
           s == IF again THEN "idle" ELSE "wait"
<1>3. i \in 1..made /\ i \in Instance /\ i # None /\ i \in 0..made /\ made \in Nat
  BY <1>1, PerpAssumption DEF TypeOK, Frame, Placed, Instance, None
<1>4. /\ closed' = [closed EXCEPT ![i] = @ \union {ch[i]}]
      /\ panicked' = (panicked \/ again)
      /\ mu' = (IF again /\ mu = r THEN Free ELSE mu)
      /\ Go(r, s)
  BY DEF CloseChannel
<1>5. again \in BOOLEAN
  OBVIOUS
<1>6. s \in Places /\ s \in {"idle", "wait"} /\ (again <=> s = "idle")
  BY DEF Places
<1>7. Goes(r, s, i)
  BY <1>1, <1>4, <1>6, GoFacts
<1>8. mu \in Request \union {Free} /\ mu' \in Request \union {Free}
  BY <1>1, <1>4 DEF TypeOK
<1>9. /\ closed' \in [Instance -> SUBSET Nat]
      /\ \A j \in Instance : j > made => closed'[j] = {}
      /\ \A j \in Instance : \A c \in closed'[j] : c <= ch[j]
  <2>1. ch[i] \in Nat /\ closed \in [Instance -> SUBSET Nat]
    BY <1>1, <1>3 DEF TypeOK
  <2>2. closed' \in [Instance -> SUBSET Nat]
        /\ closed'[i] = closed[i] \union {ch[i]}
        /\ \A j \in Instance \ {i} : closed'[j] = closed[j]
    BY <1>3, <1>4, <2>1
  <2>3. \A j \in Instance : j > made => j # i
    BY <1>3 DEF Instance
  <2> QED
    BY <2>1, <2>2, <2>3 DEF Frame, Fresh, Numbered
<1> HIDE DEF again, s
<1>10. /\ Handled(r) /\ Placed'
       /\ mu' # r /\ current' = current => Locked'
  BY <1>1, <1>2, <1>3, <1>4, <1>6, <1>7, <1>8, GoesFrame DEF Unloaded
<1>11. TypeOK'
  BY <1>1, <1>2, <1>4, <1>5, <1>7, <1>8, <1>9 DEF TypeOK, Goes, ReqType, counts
<1>12. Locked'
  <2>1. CASE mu' = r
    <3>1. ~again /\ s = "wait" /\ mu = r
      BY <1>4, <1>6, <2>1, PerpAssumption
    <3> QED
      BY <1>1, <1>2, <1>3, <1>7, <2>1, <3>1, PerpAssumption DEF Locked, Frame, Goes
  <2>2. CASE mu' # r
    BY <1>2, <1>10, <2>2
  <2> QED
    BY <2>1, <2>2
<1>13. Frame'
  BY <1>2, <1>9, <1>10, <1>11, <1>12, HandledFrame DEF Frame, Fresh
<1>14. again => panicked'
  BY <1>4
<1>15. ~again => panicked' = panicked /\ mu' = mu
  BY <1>1, <1>4 DEF TypeOK
<1>16. again => s = "idle"
  BY <1>6
<1>17. ~again => s = "wait"
  BY <1>6
<1>18. again <=> ch[i] \in closed[i]
  BY DEF again
<1> QED
  BY <1>1, <1>2, <1>3, <1>4, <1>7, <1>10, <1>13, <1>14, <1>15, <1>16, <1>17, <1>18

LEMMA WaitStep ==
  ASSUME Frame, NEW r \in Request, Wait(r)
  PROVE  /\ Frame' /\ Handled(r) /\ req[r].at = "wait"
         /\ UNCHANGED <<manager, fields, overtook, panicked>>
         /\ req[r].got \in Instance /\ Goes(r, AfterStop(r), req[r].got)
         /\ returned' = [returned EXCEPT ![req[r].got] = TRUE]
         /\ \A g \in RunId : run[g].of = req[r].got => ~Busy(g)
<1>1. TypeOK /\ req[r].at = "wait" /\ wg[req[r].got] = 0
  BY DEF Wait, Frame
<1>2. UNCHANGED <<manager, fields, runs, run, overtook, panicked, initFailed,
                  overlapped, counts>>
  BY DEF Wait
<1> DEFINE i == req[r].got
           s == AfterStop(r)
<1>3. i \in 1..made /\ i \in Instance /\ i # None /\ i \in 0..made /\ made \in Nat
  BY <1>1, PerpAssumption DEF TypeOK, Frame, Placed, Instance, None
<1>4. /\ mu = r => req[r].op # "stop"
      /\ s \in {"erase", "unmark", "remove"} /\ s \in Places
      /\ s = "remove" => req[r].op # "stop"
      /\ s = "erase" <=> mu = r
      /\ s = "unmark" => req[r].op = "stop"
  <2>1. mu = r => req[r].op # "stop"
    BY <1>1, PerpAssumption DEF Frame, Locked
  <2> QED
    BY <2>1 DEF AfterStop, Places
<1>5. returned' = [returned EXCEPT ![i] = TRUE] /\ Goes(r, s, i)
  BY <1>1, <1>4, GoFacts DEF Wait
<1>6. \A g \in RunId : run[g].of = i => ~Busy(g)
  <2>1. Cardinality(Members(i)) = 0
    BY <1>1, <1>3 DEF Frame, WgCounts
  <2>2. Members(i) = {}
    BY <2>1, MembersAre, MembersFinite, FS_EmptySet
  <2>3. \A g \in RunId, k \in Part : ~Counts(g, k, i)
    BY <2>2, MembersAre
  <2> QED
    BY <2>3 DEF Part, Counts, Busy
<1> HIDE DEF s
<1>7. /\ returned' \in [Instance -> BOOLEAN]
      /\ \A j \in Instance : j > made => ~returned'[j]
  BY <1>1, <1>3, <1>5 DEF TypeOK, Frame, Fresh, Instance
<1>8. /\ Handled(r) /\ Placed'
      /\ mu' # r /\ current' = current => Locked'
  BY <1>1, <1>2, <1>3, <1>4, <1>5, GoesFrame DEF Unloaded, manager, fields, TypeOK
<1>9. TypeOK'
  BY <1>1, <1>2, <1>5, <1>7 DEF TypeOK, Goes, ReqType, manager, fields, counts
<1>10. Locked'
  <2>1. CASE mu = r
    BY <1>1, <1>2, <1>3, <1>4, <1>5, <2>1, PerpAssumption
       DEF Locked, Frame, Goes, manager
  <2>2. CASE mu # r
    BY <1>2, <1>8, <2>2 DEF manager
  <2> QED
    BY <2>1, <2>2
<1>11. Frame'
  BY <1>2, <1>7, <1>8, <1>9, <1>10, HandledFrame DEF Frame, Numbered, Fresh, fields
<1> QED
  BY <1>1, <1>2, <1>3, <1>5, <1>6, <1>8, <1>11 DEF s

LEMMA MarkStep ==
  ASSUME Frame, NEW r \in Request, Mark(r)
  PROVE  /\ Frame' /\ Handled(r) /\ req[r].at \in {"mark", "unmark"}
         /\ UNCHANGED <<current, mu, fields, returned, overtook, panicked>>
         /\ Goes(r, "idle", req[r].got)
         /\ row' = [row EXCEPT !.running = row.exists /\ req[r].at = "mark"]
<1>1. TypeOK /\ req[r].at \in {"mark", "unmark"}
  BY DEF Mark, Frame
<1>2. UNCHANGED <<current, made, mu, fields, runs, run, history, counts>>
  BY DEF Mark
<1>3. Goes(r, "idle", req[r].got)
  BY <1>1, GoFacts DEF Mark, Places
<1>4. row' = [row EXCEPT !.running = row.exists /\ req[r].at = "mark"]
  BY DEF Mark
<1>5. req[r].got \in 0..made
  BY <1>1, PerpAssumption DEF TypeOK, Frame, Placed
<1>6. /\ Handled(r) /\ Placed'
      /\ mu' # r /\ current' = current => Locked'
  BY <1>1, <1>2, <1>3, <1>5, GoesFrame DEF Unloaded, Places, fields, history, TypeOK
<1>7. TypeOK'
  <2> DEFINE b == row.exists /\ req[r].at = "mark"
  <2>1. b \in BOOLEAN /\ row' = [row EXCEPT !.running = b]
    BY <1>1, <1>4 DEF TypeOK
  <2> HIDE DEF b
  <2>2. row' \in [exists : BOOLEAN, running : BOOLEAN]
    BY <1>1, <2>1 DEF TypeOK
  <2> QED
    BY <1>1, <1>2, <1>3, <2>2 DEF TypeOK, Goes, ReqType, fields, history, counts
<1>8. Locked'
  BY <1>1, <1>2, <1>6, PerpAssumption DEF Frame, Locked
<1>9. Frame'
  BY <1>2, <1>6, <1>7, <1>8, HandledFrame DEF Frame, Numbered, Fresh, fields, history
<1> QED
  BY <1>1, <1>2, <1>3, <1>4, <1>6, <1>9 DEF fields, history

(* A call of Run takes a record nobody used.                               *)
Calls(i) ==
  /\ run' \in [RunId -> RunType] /\ runs + 1 \in RunId /\ runs' = runs + 1
  /\ run[runs + 1] = Unused
  /\ \A h \in RunId \ {runs + 1} : run'[h] = run[h]
  /\ run'[runs + 1].of = i /\ run'[runs + 1].at = "called"
  /\ run'[runs + 1].mon = "off"
  /\ overtook' \in [Instance -> BOOLEAN] /\ returned' \in [Instance -> BOOLEAN]
  /\ \A j \in Instance \ {i} : overtook'[j] = overtook[j] /\ returned'[j] = returned[j]
  /\ overtook'[i] = (overtook[i] \/ Stopping(i)) /\ ~returned'[i]

LEMMA CallFacts ==
  ASSUME Frame, runs + 1 \in RunId, NEW i \in Instance, NEW by \in {"auto", "handler"},
         Call(i, by)
  PROVE  Calls(i)
<1>1. TypeOK
  BY DEF Frame
<1>2. run[runs + 1] = Unused
  BY <1>1, PerpAssumption DEF Frame, Fresh, TypeOK, RunId
<1> DEFINE m == Called(i, by)
<1>3. m \in RunType /\ m.of = i /\ m.at = "called" /\ m.mon = "off"
  <2>1. Unused \in RunType /\ Unused.mon = "off" /\ i \in 0..(1 + MaxRequests)
    BY PerpAssumption DEF Unused, RunType, Instance
  <2>2. "called" \in Live
    BY DEF Live, StartUp
  <2> QED
    BY <2>1, <2>2 DEF Called, RunType
<1>4. run' = [run EXCEPT ![runs + 1] = m]
  BY DEF Call
<1> HIDE DEF m
<1>5. /\ run' \in [RunId -> RunType] /\ run'[runs + 1] = m
      /\ \A h \in RunId \ {runs + 1} : run'[h] = run[h]
  BY <1>1, <1>3, <1>4 DEF TypeOK, RunType
<1> DEFINE b == Stopping(i)
<1>6. b \in BOOLEAN /\ overtook' = [overtook EXCEPT ![i] = @ \/ b]
  BY DEF Stopping, Call, OvertookIf
<1> HIDE DEF b
<1>7. /\ overtook' \in [Instance -> BOOLEAN] /\ returned' \in [Instance -> BOOLEAN]
      /\ \A j \in Instance \ {i} : overtook'[j] = overtook[j] /\ returned'[j] = returned[j]
      /\ overtook'[i] = (overtook[i] \/ b) /\ ~returned'[i]
  BY <1>1, <1>6 DEF TypeOK, Call
<1> QED
  BY <1>2, <1>3, <1>5, <1>7 DEF Calls, Call, b

(* Whoever was just called is not counted.                                 *)
LEMMA CalledIsNotCounted ==
  ASSUME Frame, NEW i \in Instance, Calls(i), wg' = wg
  PROVE  WgCounts'
<1>1. \A g \in RunId, k \in Part, j \in Instance : Counts(g, k, j)' <=> Counts(g, k, j)
  <2> SUFFICES ASSUME NEW g \in RunId, NEW k \in Part, NEW j \in Instance
               PROVE  Counts(g, k, j)' <=> Counts(g, k, j)
    OBVIOUS
  <2>1. CASE g = runs + 1
    <3>1. ~Counts(g, k, j)'
      BY <2>1 DEF Calls, Counts, Counting, Loop
    <3>2. ~Counts(g, k, j)
      BY <2>1 DEF Calls, Counts, Counting, Loop, Unused
    <3> QED
      BY <3>1, <3>2
  <2>2. CASE g # runs + 1
    BY <2>2 DEF Calls, Counts
  <2> QED
    BY <2>1, <2>2
<1> QED
  BY <1>1, GroupKept DEF Frame

LEMMA LoadStep ==
  ASSUME Frame, NEW r \in Request, Load(r)
  PROVE  /\ Frame' /\ Onward(r) /\ req[r].at = "load" /\ mu = Free
         /\ UNCHANGED <<row, mu, fields, panicked, initFailed, overlapped, counts>>
         /\ req[r].op \in {"start", "update", "load"}
         /\ Goes(r, IF req[r].op = "start" \/ req[r].was THEN "again" ELSE "idle",
                 req[r].got)
         /\ \/ UNCHANGED <<made, current, runs, run, overtook, returned>>
            \/ /\ row.exists /\ current = None
               /\ made + 1 \in Instance /\ made' = made + 1 /\ current' = made + 1
               /\ \/ row.running /\ Calls(made + 1)
                  \/ ~row.running /\ UNCHANGED <<runs, run, overtook, returned>>
<1>1. TypeOK /\ Room /\ req[r].at = "load" /\ mu = Free
      /\ req[r].op \in {"start", "update", "load"}
  BY DEF Load, Frame, Placed
<1>2. UNCHANGED <<row, mu, fields, panicked, initFailed, overlapped, counts>>
  BY DEF Load
<1> DEFINE s == IF req[r].op = "start" \/ req[r].was THEN "again" ELSE "idle"
<1>3. s \in {"again", "idle"} /\ s \in Places /\ Go(r, s)
      /\ (s = "again" => req[r].op = "start" \/ req[r].was)
  BY DEF Load, Places
<1> HIDE DEF s
<1>4. Goes(r, s, req[r].got)
  BY <1>1, <1>3, GoFacts
<1>5. Onward(r)
  BY <1>1, <1>3, <1>4 DEF Goes, Onward, Unloaded
<1>6. r \in Loading /\ r \notin Loading' /\ made + 1 \in Instance
  <2>1. r \in Loading /\ r \notin Loading'
    BY <1>1, <1>3, <1>4 DEF Loading, Unloaded, Goes
  <2> QED
    BY <1>1, <2>1, RoomToLoad
<1>7. <<r, "auto">> \in Uncalled /\ <<r, "auto">> \notin Uncalled' /\ runs + 1 \in RunId
  <2>1. Due(r, "auto")
    <3>1. "auto" \in MayCall(req[r].op)
      BY <1>1 DEF MayCall
    <3>2. req[r].at \in Unloaded
      BY <1>1 DEF Unloaded
    <3> QED
      BY <3>1, <3>2 DEF Due
  <2>2. ~Due(r, "auto")'
    BY <1>3, <1>4 DEF Due, Unloaded, Goes
  <2>3. <<r, "auto">> \in Uncalled /\ <<r, "auto">> \notin Uncalled'
    BY <2>1, <2>2, UncalledAre, UncalledAreNext DEF Caller
  <2> QED
    BY <1>1, <2>3, RoomToCall
<1>8. \/ UNCHANGED <<made, current, runs, run, overtook, returned>>
      \/ /\ row.exists /\ current = None /\ made' = made + 1 /\ current' = made + 1
         /\ \/ row.running /\ Calls(made + 1)
            \/ ~row.running /\ UNCHANGED <<runs, run, overtook, returned>>
  BY <1>6, <1>7, CallFacts DEF Load
<1>9. Room'
  BY <1>1, <1>2, <1>5, <1>6, <1>7, <1>8, OnwardOwes, RoomStep DEF Calls, counts
<1>10. TypeOK'
  <2>1. made' \in 0..(1 + MaxRequests) /\ current' \in 0..made'
    BY <1>1, <1>6, <1>8, PerpAssumption DEF TypeOK, Instance
  <2>2. /\ run' \in [RunId -> RunType] /\ runs' \in 0..MaxRuns
        /\ overtook' \in [Instance -> BOOLEAN] /\ returned' \in [Instance -> BOOLEAN]
    <3>1. CASE UNCHANGED <<runs, run, overtook, returned>>
      BY <1>1, <3>1 DEF TypeOK, RunType
    <3>2. CASE Calls(made + 1)
      <4>1. runs \in Nat /\ MaxRuns \in Nat
        BY <1>1, PerpAssumption DEF TypeOK
      <4> QED
        BY <3>2, <4>1 DEF Calls, RunId
    <3> QED
      BY <1>8, <3>1, <3>2
  <2>3. req' \in [Request -> ReqType]
    BY <1>4 DEF Goes
  <2> QED
    BY <1>1, <1>2, <2>1, <2>2, <2>3 DEF TypeOK, RunType, ReqType, fields, counts
<1>11. Fresh'
  <2>1. CASE UNCHANGED <<runs, run, overtook, returned>>
    <3>1. made' >= made /\ made \in Nat /\ \A i \in Instance : i > made' => i > made
      BY <1>1, <1>8, PerpAssumption DEF TypeOK, Instance
    <3>2. \A n \in Nat : n \in 1..made => n \in 1..made'
      BY <1>1, <1>8, PerpAssumption DEF TypeOK
    <3>3. \A g \in RunId : run[g].of \in Nat
      BY <1>1 DEF TypeOK
    <3> QED
      BY <1>2, <2>1, <3>1, <3>2, <3>3 DEF Frame, Fresh, fields
  <2>2. CASE made' = made + 1 /\ Calls(made + 1)
    <3>1. made \in Nat /\ runs \in Nat /\ RunId \subseteq Nat
      BY <1>1, PerpAssumption DEF TypeOK, RunId
    <3>2. ASSUME NEW g \in RunId
          PROVE  IF g > runs' THEN run'[g] = Unused
                 ELSE run'[g].of \in 1..made' /\ run'[g].at # "unused"
      <4>1. CASE g = runs + 1
        BY <2>2, <3>1, <4>1 DEF Calls
      <4>2. CASE g # runs + 1
        <5>1. run'[g] = run[g] /\ (g > runs' <=> g > runs)
          BY <2>2, <3>1, <4>2 DEF Calls
        <5> QED
          BY <2>2, <3>1, <5>1 DEF Frame, Fresh
      <4> QED
        BY <4>1, <4>2
    <3>3. \A i \in Instance : i > made' =>
            i > made /\ overtook'[i] = overtook[i] /\ returned'[i] = returned[i]
      BY <2>2, <3>1 DEF Calls, Instance
    <3> QED
      BY <1>2, <3>2, <3>3 DEF Frame, Fresh, fields
  <2> QED
    BY <1>8, <2>1, <2>2
<1>12. Placed'
  <2>1. made \in Nat /\ made' \in Nat /\ made' >= made /\ \A q \in Request : req[q].got \in Nat
    BY <1>1, <1>8, PerpAssumption DEF TypeOK
  <2>2. /\ req'[r].got <= made' /\ req'[r].at \in {"again", "idle"}
        /\ req'[r].at = "again" => req'[r].op = "start" \/ req'[r].was
        /\ req'[r].was => req'[r].op = "update"
    <3>1. req'[r].was => req[r].was /\ req'[r].at # "idle"
      BY <1>4 DEF Goes
    <3>2. req'[r].at # "idle" => req'[r].op = req[r].op
      BY <1>4 DEF Goes
    <3>3. req'[r].at = s /\ req'[r].got <= made' 
          /\ (s = "again" /\ req[r].was => req'[r].was)
      <4>1. req[r].got <= made
        BY DEF Frame, Placed
      <4>2. req'[r].got = IF s = "idle" THEN None ELSE req[r].got
        BY <1>3, <1>4 DEF Goes
      <4>3. req'[r].got <= made'
        BY <2>1, <4>1, <4>2, <1>8 DEF None
      <4> QED
        BY <1>4, <4>3 DEF Goes
    <3>4. req[r].was => req[r].op = "update"
      BY DEF Frame, Placed
    <3> QED
      BY <1>3, <3>1, <3>2, <3>3, <3>4
  <2>3. \A q \in Request \ {r} : req'[q] = req[q]
    BY <1>4 DEF Goes
  <2>4. \A q \in Request : req[q].got <= made => req[q].got <= made'
    BY <2>1, <1>8
  <2> QED
    BY <1>2, <2>2, <2>3, <2>4 DEF Frame, Placed
<1>13. Locked'
  BY <1>1, <1>2 DEF Locked
<1>14. WgCounts'
  <2>1. CASE run' = run
    <3>1. \A g \in RunId, k \in Part, i \in Instance : Counts(g, k, i)' <=> Counts(g, k, i)
      BY <2>1 DEF Counts
    <3> QED
      BY <1>2, <3>1, GroupKept DEF fields, Frame
  <2>2. CASE Calls(made + 1)
    BY <1>2, <1>6, <2>2, CalledIsNotCounted DEF fields
  <2> QED
    BY <1>8, <2>1, <2>2
<1>15. Numbered'
  BY <1>2, <1>8 DEF Frame, Numbered, fields, Calls, Launched, Counting, Loop
<1>16. Frame'
  BY <1>9, <1>10, <1>11, <1>12, <1>13, <1>14, <1>15 DEF Frame
<1> QED
  BY <1>1, <1>2, <1>4, <1>5, <1>6, <1>8, <1>16 DEF s

LEMMA GetAgainStep ==
  ASSUME Frame, NEW r \in Request, GetAgain(r)
  PROVE  /\ Frame' /\ Onward(r) /\ req[r].at = "again" /\ mu = Free
         /\ UNCHANGED <<manager, fields, panicked, initFailed, overlapped, counts>>
         /\ \/ /\ current = None /\ Goes(r, "idle", req[r].got)
               /\ UNCHANGED <<runs, run, overtook, returned>>
            \/ /\ current \in Instance /\ Calls(current)
               /\ Goes(r, IF req[r].op = "start" THEN "mark" ELSE "idle", req[r].got)
<1>1. TypeOK /\ Room /\ req[r].at = "again" /\ mu = Free
      /\ req[r].op \in {"start", "update"}
  BY DEF GetAgain, Frame, Placed
<1>2. UNCHANGED <<manager, fields, panicked, initFailed, overlapped, counts>>
  BY DEF GetAgain
<1> DEFINE s == IF current # None /\ req[r].op = "start" THEN "mark" ELSE "idle"
<1>3. s \in {"mark", "idle"} /\ s \in Places /\ Go(r, s)
      /\ (s = "mark" => req[r].op = "start")
  BY DEF GetAgain, Places
<1>4. Goes(r, s, req[r].got)
  BY <1>1, <1>3, GoFacts
<1>5. s = IF current = None THEN "idle" ELSE IF req[r].op = "start" THEN "mark" ELSE "idle"
  OBVIOUS
<1> HIDE DEF s
<1>6. Onward(r)
  BY <1>1, <1>3, <1>4 DEF Goes, Onward, Unloaded
<1>7. <<r, "handler">> \in Uncalled /\ <<r, "handler">> \notin Uncalled' /\ runs + 1 \in RunId
  <2>1. Due(r, "handler")
    <3>1. "handler" \in MayCall(req[r].op)
      BY <1>1 DEF MayCall
    <3> QED
      BY <1>1, <3>1 DEF Due
  <2>2. ~Due(r, "handler")'
    BY <1>3, <1>4 DEF Due, Unloaded, Goes
  <2>3. <<r, "handler">> \in Uncalled /\ <<r, "handler">> \notin Uncalled'
    BY <2>1, <2>2, UncalledAre, UncalledAreNext DEF Caller
  <2> QED
    BY <1>1, <2>3, RoomToCall
<1>8. \/ current = None /\ UNCHANGED <<runs, run, overtook, returned>>
      \/ current # None /\ current \in Instance /\ Calls(current)
  <2>1. current # None => current \in Instance
    BY <1>1, PerpAssumption DEF TypeOK, Instance, None
  <2> QED
    BY <1>7, <2>1, CallFacts DEF GetAgain
<1>9. Room'
  BY <1>1, <1>2, <1>6, <1>7, <1>8, OnwardOwes, RoomStep DEF Calls, manager, counts
<1>10. TypeOK'
  <2>1. /\ run' \in [RunId -> RunType] /\ runs' \in 0..MaxRuns
        /\ overtook' \in [Instance -> BOOLEAN] /\ returned' \in [Instance -> BOOLEAN]
    <3>1. CASE UNCHANGED <<runs, run, overtook, returned>>
      BY <1>1, <3>1 DEF TypeOK, RunType
    <3>2. CASE Calls(current)
      <4>1. runs \in Nat /\ MaxRuns \in Nat
        BY <1>1, PerpAssumption DEF TypeOK
      <4> QED
        BY <3>2, <4>1 DEF Calls, RunId
    <3> QED
      BY <1>8, <3>1, <3>2
  <2>2. req' \in [Request -> ReqType]
    BY <1>4 DEF Goes
  <2> QED
    BY <1>1, <1>2, <2>1, <2>2 DEF TypeOK, RunType, ReqType, manager, fields, counts
<1>11. Fresh'
  <2>1. CASE UNCHANGED <<runs, run, overtook, returned>>
    BY <1>2, <2>1 DEF Frame, Fresh, manager, fields
  <2>2. CASE current # None /\ current \in Instance /\ Calls(current)
    <3>1. /\ made \in Nat /\ runs \in Nat /\ RunId \subseteq Nat /\ current \in 1..made
      BY <1>1, <2>2, PerpAssumption DEF TypeOK, RunId, None
    <3>2. ASSUME NEW g \in RunId
          PROVE  IF g > runs' THEN run'[g] = Unused
                 ELSE run'[g].of \in 1..made /\ run'[g].at # "unused"
      <4>1. CASE g = runs + 1
        BY <2>2, <3>1, <4>1 DEF Calls
      <4>2. CASE g # runs + 1
        <5>1. run'[g] = run[g] /\ (g > runs' <=> g > runs)
          BY <2>2, <3>1, <4>2 DEF Calls
        <5> QED
          BY <2>2, <3>1, <5>1 DEF Frame, Fresh
      <4> QED
        BY <4>1, <4>2
    <3>3. \A i \in Instance : i > made =>
            overtook'[i] = overtook[i] /\ returned'[i] = returned[i]
      BY <2>2, <3>1 DEF Calls, Instance
    <3> QED
      BY <1>2, <3>2, <3>3 DEF Frame, Fresh, manager, fields
  <2> QED
    BY <1>8, <2>1, <2>2
<1>12. Placed'
  <2>1. /\ req'[r].got <= made /\ req'[r].at \in {"mark", "idle"}
        /\ req'[r].at = "mark" => req'[r].op = "start"
        /\ req'[r].was => req'[r].op = "update"
    <3>1. req'[r].was => req[r].was /\ req'[r].at # "idle"
      BY <1>4 DEF Goes
    <3>2. req'[r].at # "idle" => req'[r].op = req[r].op
      BY <1>4 DEF Goes
    <3>3. req'[r].at = s /\ req'[r].got <= made
      <4>1. req[r].got <= made /\ 0 <= made
        BY <1>1, PerpAssumption DEF Frame, Placed, TypeOK
      <4> QED
        BY <1>4, <4>1 DEF Goes, None
    <3>4. req[r].was => req[r].op = "update"
      BY DEF Frame, Placed
    <3> QED
      BY <1>3, <3>1, <3>2, <3>3, <3>4
  <2>2. \A q \in Request \ {r} : req'[q] = req[q]
    BY <1>4 DEF Goes
  <2> QED
    BY <1>2, <2>1, <2>2 DEF Frame, Placed, manager
<1>13. Locked'
  BY <1>1, <1>2 DEF Locked, manager
<1>14. WgCounts'
  <2>1. CASE run' = run
    <3>1. \A g \in RunId, k \in Part, i \in Instance : Counts(g, k, i)' <=> Counts(g, k, i)
      BY <2>1 DEF Counts
    <3> QED
      BY <1>2, <3>1, GroupKept DEF fields, Frame
  <2>2. CASE current \in Instance /\ Calls(current)
    <3> SUFFICES ASSUME NEW i \in Instance, i = current
                 PROVE  WgCounts'
      BY <2>2
    <3> QED
      BY <1>2, <2>2, CalledIsNotCounted DEF fields
  <2> QED
    BY <1>8, <2>1, <2>2
<1>15. Numbered'
  BY <1>2, <1>8 DEF Frame, Numbered, fields, Calls, Launched, Counting, Loop
<1>16. Frame'
  BY <1>9, <1>10, <1>11, <1>12, <1>13, <1>14, <1>15 DEF Frame
<1> QED
  BY <1>1, <1>2, <1>4, <1>5, <1>6, <1>8, <1>16

LEMMA BeginStep ==
  ASSUME Frame, NEW r \in Request, Begin(r)
  PROVE  /\ Frame' /\ req[r].at = "idle"
         /\ \A q \in Request \ {r} : req'[q] = req[q]
         /\ req'[r].got = None /\ ~req'[r].was
         /\ req'[r].at = IF req'[r].op = "load" THEN "load" ELSE "get"
         /\ req'[r].op \in {"start", "stop", "update"} => row.exists
         /\ row' = IF req'[r].op = "delete" THEN [exists |-> FALSE, running |-> FALSE]
                   ELSE row
         /\ overlapped' = (overlapped \/ \E q \in Request : req[q].at # "idle")
         /\ UNCHANGED <<current, made, mu, fields, runs, run, returned, overtook,
                        panicked, initFailed>>
<1>1. TypeOK /\ Room /\ req[r].at = "idle"
  BY DEF Begin, Frame
<1>2. PICK o \in Ops :
        /\ o \in {"start", "stop", "update"} => row.exists
        /\ runs + Cardinality(Owed \union ({r} \X MayCall(o))) <= MaxRuns
        /\ req' = [req EXCEPT ![r] =
                    [Idle EXCEPT !.at = IF o = "load" THEN "load" ELSE "get",
                                 !.op = o]]
        /\ row' = IF o = "delete" THEN [exists |-> FALSE, running |-> FALSE]
                  ELSE row
  BY DEF Begin
<1>3. /\ UNCHANGED <<current, made, mu, fields, runs, run, returned, overtook,
                     panicked, initFailed, crashes>>
      /\ requests' = requests + 1 /\ requests < MaxRequests
      /\ overlapped' = (overlapped \/ \E q \in Request : req[q].at # "idle")
  BY DEF Begin
<1> DEFINE s == IF o = "load" THEN "load" ELSE "get"
           k == [Idle EXCEPT !.at = s, !.op = o]
<1>4. s \in {"load", "get"} /\ o \in Op
  BY PerpAssumption
<1>5. req' = [req EXCEPT ![r] = k]
  BY <1>2
<1>6. /\ k \in ReqType /\ k.at = s /\ k.op = o /\ k.got = None /\ k.was = FALSE
  <2> HIDE DEF s
  <2>1. Idle \in ReqType /\ Idle.got = None /\ Idle.was = FALSE
    BY PerpAssumption DEF Idle, ReqType, None, Op
  <2> QED
    BY <1>4, <2>1 DEF ReqType
<1> HIDE DEF k
<1>7. /\ req' \in [Request -> ReqType] /\ req'[r] = k
      /\ \A q \in Request \ {r} : req'[q] = req[q]
  BY <1>1, <1>5, <1>6 DEF TypeOK, ReqType
<1>8. TypeOK'
  <2>1. row' \in [exists : BOOLEAN, running : BOOLEAN]
    BY <1>1, <1>2 DEF TypeOK
  <2> DEFINE b == \E q \in Request : req[q].at # "idle"
  <2>2. b \in BOOLEAN
    OBVIOUS
  <2>3. overlapped' = (overlapped \/ b)
    BY <1>3
  <2> HIDE DEF b
  <2>4. overlapped' \in BOOLEAN
    BY <1>1, <2>2, <2>3 DEF TypeOK
  <2>5. requests' \in Nat
    BY <1>1, <1>3 DEF TypeOK
  <2> QED
    BY <1>1, <1>3, <1>7, <2>1, <2>4, <2>5 DEF TypeOK, ReqType, fields
<1>9. Room'
  <2>1. runs' + Cardinality(Uncalled') <= MaxRuns
    <3> DEFINE T == Owed \union ({r} \X MayCall(o))
    <3>1. T \in SUBSET (Request \X Caller)
      <4>1. Owed \in SUBSET (Request \X Caller)
        BY Callers DEF Caller
      <4>2. MayCall(o) \subseteq Caller
        BY DEF MayCall, Caller
      <4> QED
        BY <4>1, <4>2
    <3>2. \A q \in Request, b \in Caller : <<q, b>> \in Uncalled' => <<q, b>> \in T
      <4> SUFFICES ASSUME NEW q \in Request, NEW b \in Caller, <<q, b>> \in Uncalled'
                   PROVE  <<q, b>> \in T
        OBVIOUS
      <4>1. Due(q, b)'
        BY UncalledAreNext
      <4>2. b \in MayCall(req'[q].op) /\ req'[q].at # "idle"
        BY <4>1 DEF Due, Unloaded
      <4>3. CASE q = r
        BY <1>6, <1>7, <4>2, <4>3
      <4>4. CASE q # r
        BY <1>7, <4>2, <4>4 DEF Owed, Caller
      <4> QED
        BY <4>3, <4>4
    <3>3. Uncalled' \in SUBSET (Request \X Caller)
      BY UncalledAreNext
    <3>4. runs + Cardinality(T) <= MaxRuns
      BY <1>2
    <3> HIDE DEF T
    <3>5. Uncalled' \in SUBSET T
      BY <3>1, <3>2, <3>3
    <3>6. /\ Cardinality(Uncalled') \in Nat /\ Cardinality(T) \in Nat
          /\ Cardinality(Uncalled') <= Cardinality(T)
      BY <3>1, <3>5, Callers, FewerLeft DEF Caller
    <3>7. runs \in Nat /\ MaxRuns \in Nat /\ runs' = runs
      BY <1>1, <1>3, PerpAssumption DEF TypeOK
    <3> QED
      BY <3>4, <3>6, <3>7
  <2>2. made' + Cardinality(Loading') <= 1 + requests'
    <3>1. Loading' \subseteq Loading \union {r} /\ r \notin Loading
      BY <1>1, <1>7 DEF Loading, Unloaded
    <3>2. IsFiniteSet(Loading) /\ Cardinality(Loading) \in Nat
      BY Callers, FewerLoading
    <3>3. /\ IsFiniteSet(Loading \union {r})
          /\ Cardinality(Loading \union {r}) = Cardinality(Loading) + 1
      BY <3>1, <3>2, FS_AddElement
    <3>4. /\ Cardinality(Loading') \in Nat
          /\ Cardinality(Loading') <= Cardinality(Loading \union {r})
      BY <3>1, <3>3, FS_Subset, FS_CardinalityType
    <3>5. made \in Nat /\ requests \in Nat /\ made + Cardinality(Loading) <= 1 + requests
      BY <1>1, PerpAssumption DEF TypeOK, Room
    <3> QED
      BY <1>3, <3>2, <3>3, <3>4, <3>5
  <2>3. requests' <= MaxRequests
    BY <1>1, <1>3, PerpAssumption DEF TypeOK
  <2> QED
    BY <2>1, <2>2, <2>3 DEF Room
<1>10. Fresh'
  BY <1>3 DEF Frame, Fresh, fields
<1>11. Placed'
  <2>1. made \in Nat
    BY <1>1, PerpAssumption DEF TypeOK
  <2> QED
    BY <1>3, <1>4, <1>6, <1>7, <2>1 DEF Frame, Placed, None
<1>12. Locked'
  <2>1. mu # r
    BY <1>1, PerpAssumption DEF Frame, Locked
  <2>2. mu # Free => mu \in Request \ {r}
    BY <1>1, <2>1 DEF TypeOK
  <2> QED
    BY <1>3, <1>7, <2>2 DEF Frame, Locked
<1>13. WgCounts'
  <2>1. \A g \in RunId, p \in Part, i \in Instance : Counts(g, p, i)' <=> Counts(g, p, i)
    BY <1>3 DEF Counts
  <2> QED
    BY <1>3, <2>1, GroupKept DEF Frame, fields
<1>14. Numbered'
  BY <1>3 DEF Frame, Numbered, fields
<1>15. Frame'
  BY <1>8, <1>9, <1>10, <1>11, <1>12, <1>13, <1>14 DEF Frame
<1> QED
  BY <1>1, <1>2, <1>3, <1>6, <1>7, <1>15

(* The states a process starts in.                                         *)
Started ==
  /\ row \in [exists : BOOLEAN, running : BOOLEAN] /\ (row.running => row.exists)
  /\ current = (IF row.exists THEN 1 ELSE None) /\ made = 1 /\ mu = Free
  /\ isRunning = [i \in Instance |-> FALSE] /\ ch = [i \in Instance |-> 0]
  /\ closed = [i \in Instance |-> {}] /\ wg = [i \in Instance |-> 0]
  /\ runs = (IF row.running THEN 1 ELSE 0) /\ run = Resumed(row)
  /\ req = [r \in Request |-> Idle]
  /\ returned = [i \in Instance |-> FALSE] /\ overtook = [i \in Instance |-> FALSE]
  /\ panicked = FALSE /\ initFailed = FALSE /\ overlapped = FALSE
  /\ requests \in 0..MaxRequests /\ crashes \in Nat

(* What a process starts with: at most one Run, called.                    *)
LEMMA StartedRuns ==
  Started =>
    /\ run \in [RunId -> RunType]
    /\ \A g \in RunId :
         \/ run[g] = Unused
         \/ /\ g = 1 /\ runs = 1
            /\ run[g].of = 1 /\ run[g].at = "called" /\ run[g].mon = "off"
    /\ \A g \in RunId : g > runs => run[g] = Unused
    /\ row.running => run[1].of = 1 /\ run[1].at = "called"
    /\ ~row.running => \A g \in RunId : run[g] = Unused
<1> SUFFICES ASSUME Started
             PROVE  /\ run \in [RunId -> RunType]
                    /\ \A g \in RunId :
                         \/ run[g] = Unused
                         \/ /\ g = 1 /\ runs = 1
                            /\ run[g].of = 1 /\ run[g].at = "called"
                            /\ run[g].mon = "off"
                    /\ \A g \in RunId : g > runs => run[g] = Unused
                    /\ row.running => run[1].of = 1 /\ run[1].at = "called"
                    /\ ~row.running => \A g \in RunId : run[g] = Unused
  OBVIOUS
<1> DEFINE m == Called(1, "auto")
<1>1. Unused \in RunType /\ m \in RunType /\ m.of = 1 /\ m.at = "called" /\ m.mon = "off"
  <2>1. Unused \in RunType /\ Unused.mon = "off" /\ 1 \in 0..(1 + MaxRequests)
    BY PerpAssumption DEF Unused, RunType
  <2>2. "called" \in Live
    BY DEF Live, StartUp
  <2> QED
    BY <2>1, <2>2 DEF Called, RunType
<1>2. run = [g \in RunId |-> IF g = 1 /\ row.exists /\ row.running THEN m ELSE Unused]
  BY DEF Started, Resumed
<1>3. runs = IF row.running THEN 1 ELSE 0
  BY DEF Started
<1>4. 1 \in RunId /\ RunId \subseteq Nat \ {0}
  BY PerpAssumption DEF RunId
<1>5. row.running => row.exists
  BY DEF Started
<1> HIDE DEF m
<1>6. run \in [RunId -> RunType]
  BY <1>1, <1>2
<1>7. \A g \in RunId : run[g] = IF g = 1 /\ row.running THEN m ELSE Unused
  BY <1>2, <1>5
<1>8. CASE row.running
  BY <1>1, <1>3, <1>4, <1>6, <1>7, <1>8
<1>9. CASE ~row.running
  BY <1>3, <1>6, <1>7, <1>9
<1> QED
  BY <1>8, <1>9

LEMMA StartedFrame ==
  Started => Frame
<1> SUFFICES ASSUME Started
             PROVE  Frame
  OBVIOUS
<1>1. TypeOK
  <2>1. Idle \in ReqType
    BY PerpAssumption DEF Idle, ReqType, Op, None
  <2>2. req \in [Request -> ReqType]
    BY <2>1 DEF Started
  <2>3. made \in 0..(1 + MaxRequests) /\ current \in 0..made /\ runs \in 0..MaxRuns
        /\ requests \in Nat
    BY PerpAssumption DEF Started, None
  <2> QED
    BY StartedRuns, <2>2, <2>3, PerpAssumption DEF Started, TypeOK, RunType, ReqType
<1>2. Room
  <2>1. \A r \in Request : req[r].at = "idle"
    BY DEF Started, Idle
  <2>2. Loading = {}
    BY <2>1 DEF Loading, Unloaded
  <2>3. \A r \in Request, b \in Caller : ~Due(r, b)
    BY <2>1 DEF Due, Unloaded
  <2>4. Uncalled = {}
    BY <2>3, UncalledAre
  <2>5. Cardinality(Uncalled) = 0 /\ Cardinality(Loading) = 0
    BY <2>2, <2>4, FS_EmptySet
  <2>6. requests \in 0..MaxRequests /\ made = 1 /\ runs \in {0, 1}
    BY DEF Started
  <2> QED
    BY <2>5, <2>6, PerpAssumption DEF Room
<1>3. Fresh
  BY StartedRuns, PerpAssumption DEF Started, Fresh, RunId, Instance
<1>4. Placed
  BY DEF Started, Placed, Idle, None
<1>5. Locked
  BY DEF Started, Locked
<1>6. WgCounts
  <2> SUFFICES ASSUME NEW i \in Instance
               PROVE  wg[i] = Cardinality(Members(i))
    BY DEF WgCounts
  <2>1. \A g \in RunId, k \in Part : ~Counts(g, k, i)
    BY StartedRuns DEF Counts, Counting, Loop, Unused
  <2>2. Members(i) = {}
    BY <2>1, MembersAre
  <2> QED
    BY <2>2, FS_EmptySet DEF Started
<1>7. Numbered
  BY StartedRuns DEF Started, Numbered, Launched, Counting, Loop, Unused
<1> QED
  BY <1>1, <1>2, <1>3, <1>4, <1>5, <1>6, <1>7 DEF Frame

(* A row that says so has a trader that exists.                            *)
RunningRowExists == row.running => row.exists

LEMMA InitStarted == Init => Started
<1> SUFFICES ASSUME Init
             PROVE  Started
  OBVIOUS
<1>1. row.exists = TRUE /\ row \in [exists : BOOLEAN, running : BOOLEAN]
  BY DEF Init
<1>2. 0 \in 0..MaxRequests
  BY PerpAssumption
<1> QED
  BY <1>1, <1>2 DEF Init, Started

LEMMA CrashStarted ==
  ASSUME Frame, RunningRowExists, Crash
  PROVE  Started'
<1>1. row \in [exists : BOOLEAN, running : BOOLEAN] /\ requests \in 0..MaxRequests
      /\ crashes \in Nat
  BY PerpAssumption DEF Frame, TypeOK, Room
<1>2. crashes' = crashes + 1
  BY DEF Crash
<1> QED
  BY <1>1, <1>2 DEF Started, Crash, Resumed, RunningRowExists

-----------------------------------------------------------------------------
(* One instance, over the steps of the goroutines.                         *)

LEMMA StoppingKept ==
  ASSUME req' = req
  PROVE  \A i \in Instance : Stopping(i)' <=> Stopping(i)
BY DEF Stopping

(* No step of a goroutine but a call makes a Run start.                    *)
LEMMA StartingFalls ==
  ASSUME NEW g \in RunId, Steps(g), run'[g].at \in StartUp => run[g].at \in StartUp
  PROVE  \A i \in Instance : Starting(i)' => Starting(i)
BY DEF Starting, Steps

LEMMA IsStarting ==
  ASSUME NEW g \in RunId, run[g].at \in StartUp
  PROVE  Starting(run[g].of)
BY DEF Starting

LEMMA CalmAfterSetRunning ==
  ASSUME Frame, Calm, NEW g \in RunId, SetRunning(g)
  PROVE  Calm'
<1> SUFFICES ASSUME NEW i \in Instance, i = run[g].of
             PROVE  Calm'
  BY SetRunningStep DEF Framed, Local
<1>1. /\ Local(g) /\ run[g].at = "called" /\ run'[g].at = "make"
      /\ run'[g].on = run[g].on \/ TRUE
      /\ run'[g].mon = run[g].mon /\ ch' = ch /\ isRunning'[i]
      /\ \A j \in Instance \ {i} : isRunning'[j] = isRunning[j]
  BY SetRunningStep DEF Framed, Local, Same
<1>2. /\ UNCHANGED <<closed, req, returned, overtook>> /\ Steps(g)
      /\ run'[g].of = i /\ \A h \in RunId \ {g} : run'[h] = run[h]
  BY <1>1 DEF Local, Steps
<1>3. /\ \A j \in Instance : Stopping(j)' <=> Stopping(j)
      /\ \A j \in Instance : Starting(j)' => Starting(j)
      /\ Starting(i)
  BY <1>1, <1>2, StoppingKept, StartingFalls, IsStarting DEF StartUp
<1>4. ~overtook[i] => ~Stopping(i) /\ ~returned[i]
  BY <1>3 DEF Calm, StopIsAlone, Stopped
<1>5. \A h \in RunId : Busy(h)' <=> Busy(h)
  BY <1>1, <1>2 DEF Busy, Counting, Loop
<1>6. StopIsAlone'
  BY <1>1, <1>2, <1>3, <1>4 DEF Calm, StopIsAlone
<1>7. OneStop' /\ ClosesOpen'
  BY <1>1, <1>2 DEF Calm, OneStop, ClosesOpen
<1>8. RunningIsOpen'
  BY <1>1, <1>2 DEF Calm, RunningIsOpen
<1>9. StartingIsOpen'
  BY <1>1, <1>2 DEF Calm, StartingIsOpen
<1>10. StartingRuns'
  <2> SUFFICES ASSUME NEW h \in RunId, run'[h].at \in {"make", "launch", "init"},
                      ~overtook[run'[h].of]
               PROVE  isRunning'[run'[h].of]
    BY <1>2 DEF StartingRuns
  <2>1. CASE h = g
    BY <1>1, <1>2, <2>1
  <2>2. CASE h # g
    <3>1. run'[h] = run[h] /\ isRunning[run[h].of]
      BY <1>2, <2>2 DEF Calm, StartingRuns
    <3>2. run[h].of \in Instance
      BY <3>1, Known
    <3> QED
      BY <1>1, <3>1, <3>2
  <2> QED
    BY <2>1, <2>2
<1>11. LateIsAwaited'
  <2> SUFFICES ASSUME NEW h \in RunId, Busy(h)', ~overtook[run'[h].of],
                      ch[run'[h].of] \in closed[run'[h].of] \/ ~isRunning'[run'[h].of]
               PROVE  Stopping(run'[h].of)
    BY <1>1, <1>2 DEF LateIsAwaited, Stopping
  <2>1. Busy(h) /\ run'[h].of = run[h].of
    BY <1>2, <1>5
  <2>2. run[h].of \in Instance
    BY <2>1, Known DEF Busy, Counting, Loop
  <2>3. ~isRunning'[run[h].of] => ~isRunning[run[h].of]
    BY <1>1, <2>2
  <2>4. Stopping(run[h].of)
    BY <2>1, <2>3 DEF Calm, LateIsAwaited
  <2> QED
    BY <2>1, <2>4
<1>12. ToldIsAwaited'
  BY <1>1, <1>2 DEF Calm, ToldIsAwaited, Stopping
<1>13. Stopped'
  BY <1>1, <1>2, <1>3, <1>4 DEF Calm, Stopped
<1> QED
  BY <1>6, <1>7, <1>8, <1>9, <1>10, <1>11, <1>12, <1>13 DEF Calm

LEMMA CalmAfterMakeChannel ==
  ASSUME Frame, Calm, NEW g \in RunId, MakeChannel(g)
  PROVE  Calm'
<1> SUFFICES ASSUME NEW i \in Instance, i = run[g].of
             PROVE  Calm'
  BY MakeChannelStep DEF Framed, Local
<1>1. /\ Local(g) /\ run[g].at = "make" /\ run'[g].at = "launch"
      /\ run'[g].mon = run[g].mon /\ isRunning' = isRunning
      /\ ch'[i] = ch[i] + 1 /\ \A j \in Instance \ {i} : ch'[j] = ch[j]
  BY MakeChannelStep DEF Framed, Local, Same
<1>2. /\ UNCHANGED <<closed, req, returned, overtook>> /\ Steps(g)
      /\ run'[g].of = i /\ \A h \in RunId \ {g} : run'[h] = run[h]
  BY <1>1 DEF Local, Steps
<1>3. /\ \A j \in Instance : Stopping(j)' <=> Stopping(j)
      /\ \A j \in Instance : Starting(j)' => Starting(j)
      /\ Starting(i)
  BY <1>1, <1>2, StoppingKept, StartingFalls, IsStarting DEF StartUp
<1>4. ~overtook[i] => ~Stopping(i) /\ ~returned[i] /\ isRunning[i]
  BY <1>1, <1>3 DEF Calm, StopIsAlone, Stopped, StartingRuns
<1>5. ch'[i] \notin closed[i]
  <2>1. ch[i] \in Nat /\ closed[i] \subseteq Nat /\ \A c \in closed[i] : c <= ch[i]
    BY DEF Frame, TypeOK, Numbered
  <2> QED
    BY <1>1, <2>1
<1>6. \A h \in RunId : Busy(h)' <=> Busy(h)
  BY <1>1, <1>2 DEF Busy, Counting, Loop
<1>7. StopIsAlone'
  BY <1>1, <1>2, <1>3 DEF Calm, StopIsAlone
<1>8. OneStop'
  BY <1>2 DEF Calm, OneStop
<1>9. ClosesOpen'
  <2> SUFFICES ASSUME NEW r \in Request, req[r].at \in {"close", "wait"},
                      ~overtook[req[r].got]
               PROVE  /\ req[r].at = "close" => ch'[req[r].got] \notin closed[req[r].got]
                      /\ req[r].at = "wait" => ch'[req[r].got] \in closed[req[r].got]
    BY <1>2 DEF ClosesOpen
  <2>1. req[r].got \in Instance
    BY PerpAssumption DEF Frame, TypeOK, Placed, Instance, None
  <2>2. req[r].got # i
    BY <1>4 DEF Stopping
  <2> QED
    BY <1>1, <2>1, <2>2 DEF Calm, ClosesOpen
<1>10. RunningIsOpen'
  <2> SUFFICES ASSUME NEW j \in Instance, isRunning[j], ~overtook[j], ch'[j] \in closed[j]
               PROVE  \E h \in RunId : run'[h].of = j /\ run'[h].at = "make"
    BY <1>1, <1>2 DEF RunningIsOpen
  <2>1. j # i /\ ch'[j] = ch[j]
    BY <1>1, <1>5
  <2>2. PICK h \in RunId : run[h].of = j /\ run[h].at = "make"
    BY <2>1 DEF Calm, RunningIsOpen
  <2> QED
    BY <1>2, <2>1, <2>2
<1>11. StartingIsOpen'
  <2> SUFFICES ASSUME NEW h \in RunId, run'[h].at = "launch", ~overtook[run'[h].of]
               PROVE  ch'[run'[h].of] \notin closed[run'[h].of]
    BY <1>2 DEF StartingIsOpen
  <2>1. CASE run'[h].of = i
    BY <1>5, <2>1
  <2>2. CASE run'[h].of # i
    <3>1. run'[h] = run[h]
      BY <1>2, <2>2
    <3>2. run[h].of \in Instance
      BY <3>1, Known
    <3> QED
      BY <1>1, <2>2, <3>1, <3>2 DEF Calm, StartingIsOpen
  <2> QED
    BY <2>1, <2>2
<1>12. StartingRuns'
  BY <1>1, <1>2 DEF Calm, StartingRuns
<1>13. LateIsAwaited'
  <2> SUFFICES ASSUME NEW h \in RunId, Busy(h)', ~overtook[run'[h].of],
                      ch'[run'[h].of] \in closed[run'[h].of] \/ ~isRunning[run'[h].of]
               PROVE  Stopping(run'[h].of)
    BY <1>1, <1>2 DEF LateIsAwaited, Stopping
  <2>1. Busy(h) /\ run'[h].of = run[h].of
    BY <1>2, <1>6
  <2>2. run[h].of \in Instance
    BY <2>1, Known DEF Busy, Counting, Loop
  <2>3. run[h].of # i
    BY <1>4, <1>5, <2>1
  <2>4. Stopping(run[h].of)
    BY <1>1, <2>1, <2>2, <2>3 DEF Calm, LateIsAwaited
  <2> QED
    BY <2>1, <2>4
<1>14. ToldIsAwaited'
  BY <1>1, <1>2 DEF Calm, ToldIsAwaited, Stopping
<1>15. Stopped'
  BY <1>1, <1>2, <1>3, <1>4 DEF Calm, Stopped
<1> QED
  BY <1>7, <1>8, <1>9, <1>10, <1>11, <1>12, <1>13, <1>14, <1>15 DEF Calm

(* A step that leaves the instance's fields alone.                         *)
LEMMA CalmKept ==
  ASSUME Frame, Calm, NEW g \in RunId, Local(g), isRunning' = isRunning, ch' = ch,
         run'[g].at \notin {"called", "make", "launch"}, run[g].at # "make",
         run'[g].at = "init" => run[g].at \in {"init", "launch"},
         Busy(g)' => Busy(g) \/ run[g].at = "launch",
         run'[g].at = "wait" =>
           \/ run[g].at = "wait" /\ run'[g].on = run[g].on
           \/ run[g].at \in Loop /\ run'[g].on = ch[run[g].of]
  PROVE  Calm'
<1>1. /\ UNCHANGED <<closed, req, returned, overtook>> /\ Steps(g)
      /\ run'[g].of = run[g].of /\ \A h \in RunId \ {g} : run'[h] = run[h]
  BY DEF Local, Steps
<1>2. /\ \A j \in Instance : Stopping(j)' <=> Stopping(j)
      /\ \A j \in Instance : Starting(j)' => Starting(j)
  BY <1>1, StoppingKept, StartingFalls DEF StartUp
<1>3. StopIsAlone'
  BY <1>1, <1>2 DEF Calm, StopIsAlone
<1>4. OneStop' /\ ClosesOpen'
  BY <1>1 DEF Calm, OneStop, ClosesOpen
<1>5. RunningIsOpen'
  BY <1>1 DEF Calm, RunningIsOpen
<1>6. StartingIsOpen'
  BY <1>1 DEF Calm, StartingIsOpen
<1>7. StartingRuns'
  BY <1>1 DEF Calm, StartingRuns
<1>8. LateIsAwaited'
  <2> SUFFICES ASSUME NEW h \in RunId, Busy(h)', ~overtook[run'[h].of],
                      ch[run'[h].of] \in closed[run'[h].of] \/ ~isRunning[run'[h].of]
               PROVE  Stopping(run'[h].of)
    BY <1>1 DEF LateIsAwaited, Stopping
  <2>1. run'[h].of = run[h].of
    BY <1>1
  <2>2. Busy(h) \/ run[h].at = "launch"
    BY <1>1 DEF Busy
  <2>3. run[h].at # "launch"
    BY <2>1 DEF Calm, StartingIsOpen, StartingRuns
  <2>4. Stopping(run[h].of)
    BY <2>1, <2>2, <2>3 DEF Calm, LateIsAwaited
  <2> QED
    BY <2>1, <2>4
<1>9. ToldIsAwaited'
  <2> SUFFICES ASSUME NEW h \in RunId, run'[h].at = "wait", ~overtook[run'[h].of],
                      run'[h].on \in closed[run'[h].of]
               PROVE  Stopping(run'[h].of)
    BY <1>1 DEF ToldIsAwaited, Stopping
  <2>1. run'[h].of = run[h].of
    BY <1>1
  <2>2. \/ run[h].at = "wait" /\ run'[h].on = run[h].on
        \/ run[h].at \in Loop /\ run'[h].on = ch[run[h].of]
    BY <1>1
  <2>3. CASE run[h].at = "wait" /\ run'[h].on = run[h].on
    BY <1>1, <2>1, <2>3 DEF Calm, ToldIsAwaited
  <2>4. CASE run[h].at \in Loop /\ run'[h].on = ch[run[h].of]
    <3>1. Busy(h)
      BY <2>4 DEF Busy, Counting
    <3> QED
      BY <1>1, <2>1, <2>4, <3>1 DEF Calm, LateIsAwaited
  <2> QED
    BY <2>2, <2>3, <2>4
<1>10. Stopped'
  BY <1>1, <1>2 DEF Calm, Stopped
<1> QED
  BY <1>3, <1>4, <1>5, <1>6, <1>7, <1>8, <1>9, <1>10 DEF Calm

LEMMA CalmAfterRunStep ==
  ASSUME Frame, Calm, NEW g \in RunId, RunStep(g) \/ MonitorStep(g)
  PROVE  Calm'
<1>1. CASE SetRunning(g)
  BY <1>1, CalmAfterSetRunning
<1>2. CASE MakeChannel(g)
  BY <1>2, CalmAfterMakeChannel
<1>3. CASE Launch(g)
  <2>1. /\ Local(g) /\ ch' = ch /\ isRunning' = isRunning /\ run[g].at = "launch"
        /\ run'[g].at \in {"init", "trade", "check"}
    BY <1>3, LaunchStep DEF Framed
  <2> QED
    BY <2>1, CalmKept
<1>4. CASE InitGrid(g)
  <2>1. /\ Local(g) /\ ch' = ch /\ isRunning' = isRunning /\ run[g].at = "init"
        /\ run'[g].at \in {"trade", "check", "clear", "ended"}
    BY <1>4, InitGridStep DEF Framed
  <2> QED
    BY <2>1, CalmKept DEF Busy, Counting
<1>5. CASE ClearMark(g)
  <2>1. /\ Local(g) /\ ch' = ch /\ isRunning' = isRunning /\ run[g].at = "clear"
        /\ run'[g].at = "ended" /\ run'[g].mon = run[g].mon
    BY <1>5, ClearMarkStep DEF Framed, Same
  <2> QED
    BY <2>1, CalmKept DEF Busy, Counting, Loop
<1>6. CASE EndCycle(g)
  <2>1. /\ Local(g) /\ ch' = ch /\ isRunning' = isRunning /\ run[g].at \in Loop
        /\ \/ run'[g].at = "wait" /\ run'[g].on = ch[run[g].of]
           \/ run'[g].at = "ended"
    BY <1>6, EndCycleStep DEF Looped, Framed
  <2>2. Busy(g) /\ run[g].at # "make"
    BY <2>1 DEF Busy, Counting, Loop
  <2> QED
    BY <2>1, <2>2, CalmKept
<1>7. CASE Tick(g) \/ StopSignal(g)
  <2>1. /\ Local(g) /\ ch' = ch /\ isRunning' = isRunning /\ run[g].at \in Loop
        /\ run'[g].at \in {"trade", "check", "ended"}
    BY <1>7, TickStep, StopSignalStep DEF Looped, Framed
  <2>2. Busy(g) /\ run[g].at # "make"
    BY <2>1 DEF Busy, Counting, Loop
  <2> QED
    BY <2>1, <2>2, CalmKept
<1>8. CASE MonitorStep(g)
  <2>1. /\ Local(g) /\ ch' = ch /\ isRunning' = isRunning /\ run[g].mon # "off"
        /\ run'[g].at = run[g].at /\ run'[g].on = run[g].on
    BY <1>8, MonitorStepFacts DEF Monitored, Framed
  <2>2. Busy(g) /\ run[g].at \in Launched
    BY <2>1 DEF Busy, Frame, Numbered
  <2>3. run[g].at \notin {"called", "make", "launch"}
    BY <2>2 DEF Launched, Counting, Loop
  <2> QED
    BY <2>1, <2>2, <2>3, CalmKept
<1> QED
  BY <1>1, <1>2, <1>3, <1>4, <1>5, <1>6, <1>7, <1>8 DEF RunStep

-----------------------------------------------------------------------------
(* One instance, over the steps of the requests.                           *)

(* Only the request r has moved.                                           *)
Only(r) == \A q \in Request \ {r} : req'[q] = req[q]

InStop(s) == s \in {"close", "wait"}

LEMMA Overtaken ==
  ASSUME Frame, \A i \in Instance : overtook[i] => overtook'[i]
  PROVE  \A g \in RunId : run[g].at # "unused" \/ run[g].mon # "off" =>
           /\ run[g].of \in Instance
           /\ overtook[run[g].of] => overtook'[run[g].of]
BY Known

LEMMA GotIsMade ==
  ASSUME Frame, NEW r \in Request, req[r].at \in {"unset", "close", "wait", "erase"}
  PROVE  req[r].got \in Instance
BY PerpAssumption DEF Frame, TypeOK, Placed, Instance, None

(* A step outside Stop that at most overtakes Runs.                        *)
LEMMA CalmQuiet ==
  ASSUME Frame, Calm, NEW r \in Request, Only(r), Frame',
         ~InStop(req[r].at), ~InStop(req'[r].at),
         UNCHANGED <<run, isRunning, ch, closed, returned>>,
         \A i \in Instance : overtook[i] => overtook'[i]
  PROVE  Calm'
<1>1. /\ \A q \in Request : InStop(req'[q].at) => req'[q] = req[q]
      /\ \A q \in Request : InStop(req[q].at) => req'[q] = req[q]
  BY DEF Only
<1>2. \A i \in Nat : Stopping(i)' <=> Stopping(i)
  BY <1>1 DEF Stopping, InStop
<1>3. \A i \in Instance : Starting(i)' <=> Starting(i)
  BY DEF Starting
<1>4. \A g \in RunId : Busy(g)' <=> Busy(g)
  BY DEF Busy
<1>5. \A g \in RunId : run[g].at # "unused" \/ run[g].mon # "off" =>
        /\ run[g].of \in Instance /\ run[g].of \in Nat
        /\ overtook[run[g].of] => overtook'[run[g].of]
  BY Overtaken, PerpAssumption DEF Instance
<1>6. StopIsAlone'
  BY <1>2, <1>3, PerpAssumption DEF Calm, StopIsAlone, Instance
<1>7. \A q \in Request : InStop(req[q].at) => req[q].got \in Instance
  BY GotIsMade DEF InStop
<1>8. OneStop'
  BY <1>1, <1>7 DEF Calm, OneStop, InStop
<1>9. ClosesOpen'
  BY <1>1, <1>7 DEF Calm, ClosesOpen, InStop
<1>10. RunningIsOpen'
  BY DEF Calm, RunningIsOpen
<1>11. StartingIsOpen' /\ StartingRuns'
  BY <1>5 DEF Calm, StartingIsOpen, StartingRuns
<1>12. LateIsAwaited'
  <2> SUFFICES ASSUME NEW g \in RunId, Busy(g), NEW i \in Instance, i = run[g].of,
                      i \in Nat, ~overtook[i],
                      ch[i] \in closed[i] \/ ~isRunning[i]
               PROVE  Stopping(i)'
    BY <1>4, <1>5 DEF LateIsAwaited, Busy, Counting, Loop, Stopping
  <2> QED
    BY <1>2 DEF Calm, LateIsAwaited
<1>13. ToldIsAwaited'
  <2> SUFFICES ASSUME NEW g \in RunId, run[g].at = "wait", NEW i \in Instance,
                      i = run[g].of, i \in Nat, ~overtook[i],
                      run[g].on \in closed[i]
               PROVE  Stopping(i)'
    BY <1>5 DEF ToldIsAwaited, Stopping
  <2> QED
    BY <1>2 DEF Calm, ToldIsAwaited
<1>14. Stopped'
  BY <1>2, <1>3, PerpAssumption DEF Calm, Stopped, Instance
<1> QED
  BY <1>6, <1>8, <1>9, <1>10, <1>11, <1>12, <1>13, <1>14 DEF Calm

(* The steps of one Stop.                                                  *)
LEMMA StopsOthers ==
  ASSUME NEW r \in Request, Only(r), NEW i \in Nat, req[r].got = i,
         req'[r].got = i \/ ~InStop(req'[r].at)
  PROVE  \A j \in Nat \ {i} : Stopping(j)' <=> Stopping(j)
<1> SUFFICES ASSUME NEW j \in Nat \ {i}
             PROVE  Stopping(j)' <=> Stopping(j)
  OBVIOUS
<1>1. \A q \in Request :
        (req'[q].got = j /\ InStop(req'[q].at)) <=> (req[q].got = j /\ InStop(req[q].at))
  BY DEF Only
<1> QED
  BY <1>1 DEF Stopping, InStop

LEMMA CalmAfterUnset ==
  ASSUME Frame, Calm, NEW r \in Request, Unset(r)
  PROVE  Calm'
<1>1. /\ Frame' /\ Handled(r) /\ req[r].at = "unset" /\ req[r].got \in Instance
      /\ UNCHANGED <<ch, closed, returned, run>> /\ Only(r)
      /\ isRunning' = [isRunning EXCEPT ![req[r].got] = FALSE]
  BY UnsetStep DEF Handled, Onward, Only
<1> SUFFICES ASSUME NEW i \in Instance, i = req[r].got
             PROVE  Calm'
  BY <1>1
<1>2. isRunning \in [Instance -> BOOLEAN] /\ overtook \in [Instance -> BOOLEAN]
  BY DEF Frame, TypeOK
<1>3. CASE ~isRunning[i]
  <2>1. overtook' = overtook /\ Goes(r, AfterStop(r), req[r].got)
    BY <1>3, UnsetStep
  <2>2. isRunning' = isRunning
    BY <1>1, <1>2, <1>3
  <2>3. ~InStop(req'[r].at) /\ ~InStop(req[r].at)
    BY <1>1, <2>1 DEF Goes, AfterStop, InStop
  <2> QED
    BY <1>1, <2>1, <2>2, <2>3, CalmQuiet
<1>4. CASE isRunning[i]
  <2>1. /\ req'[r].at = "close" /\ req'[r].got = i
        /\ overtook' = [overtook EXCEPT ![i] = @ \/ Starting(i)]
    BY <1>4, UnsetStep DEF Goes
  <2>2. /\ \A j \in Instance \ {i} : isRunning'[j] = isRunning[j] /\ overtook'[j] = overtook[j]
        /\ ~isRunning'[i] /\ (overtook'[i] <=> overtook[i] \/ Starting(i))
    BY <1>1, <1>2, <2>1
  <2>3. /\ \A j \in Nat \ {i} : Stopping(j)' <=> Stopping(j)
        /\ Stopping(i)'
    BY <1>1, <2>1, StopsOthers, PerpAssumption DEF Instance, Stopping
  <2>4. ~overtook'[i] => /\ ~overtook[i] /\ ~Starting(i) /\ ~Stopping(i)
                         /\ ch[i] \notin closed[i] /\ ~returned[i]
    BY <1>4, <2>2 DEF Calm, StopIsAlone, RunningIsOpen, Stopped, Starting, StartUp
  <2>5. \A j \in Instance : Starting(j)' <=> Starting(j)
    BY <1>1 DEF Starting
  <2>6. \A g \in RunId : Busy(g)' <=> Busy(g)
    BY <1>1 DEF Busy
  <2>7. \A g \in RunId : run[g].at # "unused" \/ run[g].mon # "off" =>
          run[g].of \in Instance
    BY Known
  <2>8. StopIsAlone'
    BY <2>2, <2>3, <2>4, <2>5, PerpAssumption DEF Calm, StopIsAlone, Instance
  <2>9. \A q \in Request : InStop(req'[q].at) =>
          /\ req'[q].got \in Instance
          /\ q # r => req'[q] = req[q] /\ (~overtook'[req[q].got] => req[q].got # i)
    <3> SUFFICES ASSUME NEW q \in Request, InStop(req'[q].at)
                 PROVE  /\ req'[q].got \in Instance
                        /\ q # r => /\ req'[q] = req[q]
                                    /\ ~overtook'[req[q].got] => req[q].got # i
      OBVIOUS
    <3>1. CASE q = r
      BY <2>1, <3>1
    <3>2. CASE q # r
      <4>1. req'[q] = req[q] /\ req[q].got \in Instance
        BY <1>1, <3>2, GotIsMade DEF Only, InStop
      <4> QED
        BY <2>4, <4>1 DEF Stopping, InStop
    <3> QED
      BY <3>1, <3>2
  <2>10. OneStop'
    <3> SUFFICES ASSUME NEW p \in Request, NEW q \in Request,
                        InStop(req'[p].at), InStop(req'[q].at),
                        req'[p].got = req'[q].got, ~overtook'[req'[p].got]
                 PROVE  p = q
      BY DEF OneStop, InStop
    <3>1. p = r <=> q = r
      BY <2>1, <2>9
    <3> QED
      BY <2>2, <2>9, <3>1 DEF Calm, OneStop, InStop
  <2>11. ClosesOpen'
    <3> SUFFICES ASSUME NEW q \in Request, InStop(req'[q].at), ~overtook'[req'[q].got]
                 PROVE  /\ req'[q].at = "close" => ch[req'[q].got] \notin closed[req'[q].got]
                        /\ req'[q].at = "wait" => ch[req'[q].got] \in closed[req'[q].got]
      BY <1>1 DEF ClosesOpen, InStop
    <3>1. CASE q = r
      BY <2>1, <2>4, <3>1
    <3>2. CASE q # r
      BY <2>2, <2>9, <3>2 DEF Calm, ClosesOpen
    <3> QED
      BY <3>1, <3>2
  <2>12. RunningIsOpen'
    BY <1>1, <2>2 DEF Calm, RunningIsOpen
  <2>13. StartingIsOpen' /\ StartingRuns'
    <3> SUFFICES ASSUME NEW g \in RunId, run[g].at \in {"make", "launch", "init"},
                        NEW j \in Instance, j = run[g].of, ~overtook'[j]
                 PROVE  /\ run[g].at = "launch" => ch[j] \notin closed[j]
                        /\ isRunning'[j]
      BY <1>1, <2>7 DEF StartingIsOpen, StartingRuns
    <3>1. Starting(j)
      BY DEF Starting, StartUp
    <3> QED
      BY <2>2, <2>4, <3>1 DEF Calm, StartingIsOpen, StartingRuns
  <2>14. LateIsAwaited'
    <3> SUFFICES ASSUME NEW g \in RunId, Busy(g), NEW j \in Instance, j = run[g].of,
                        ~overtook'[j], ch[j] \in closed[j] \/ ~isRunning'[j]
                 PROVE  Stopping(j)'
      BY <1>1, <2>6, <2>7 DEF LateIsAwaited, Busy, Counting, Loop, Stopping
    <3> QED
      BY <2>2, <2>3, PerpAssumption DEF Calm, LateIsAwaited, Instance
  <2>15. ToldIsAwaited'
    <3> SUFFICES ASSUME NEW g \in RunId, run[g].at = "wait", NEW j \in Instance,
                        j = run[g].of, ~overtook'[j], run[g].on \in closed[j]
                 PROVE  Stopping(j)'
      BY <1>1, <2>7 DEF ToldIsAwaited, Stopping
    <3>1. ~overtook[j] /\ j \in Nat
      BY <2>2, PerpAssumption DEF Instance
    <3>2. Stopping(j)
      BY <3>1 DEF Calm, ToldIsAwaited
    <3> QED
      BY <2>3, <3>1, <3>2
  <2>16. Stopped'
    <3> SUFFICES ASSUME NEW j \in Instance, returned[j], ~overtook'[j]
                 PROVE  /\ ~Starting(j)' /\ ~isRunning'[j] /\ ~Stopping(j)'
                        /\ ch[j] \in closed[j]
      BY <1>1 DEF Stopped
    <3>1. j # i /\ j \in Nat /\ ~overtook[j]
      BY <2>2, <2>4, PerpAssumption DEF Instance
    <3> QED
      BY <2>2, <2>3, <2>5, <3>1 DEF Calm, Stopped
  <2> QED
    BY <2>8, <2>10, <2>11, <2>12, <2>13, <2>14, <2>15, <2>16 DEF Calm
<1> QED
  BY <1>3, <1>4

LEMMA CalmAfterClose ==
  ASSUME Frame, Calm, NEW r \in Request, CloseChannel(r)
  PROVE  Calm'
<1>1. /\ Frame' /\ Handled(r) /\ req[r].at = "close" /\ req[r].got \in Instance
      /\ UNCHANGED <<ch, isRunning, returned, overtook, run>> /\ Only(r)
      /\ closed' = [closed EXCEPT ![req[r].got] = @ \union {ch[req[r].got]}]
      /\ Goes(r, IF ch[req[r].got] \in closed[req[r].got] THEN "idle" ELSE "wait",
              req[r].got)
  BY CloseStep DEF Handled, Onward, Only
<1> SUFFICES ASSUME NEW i \in Instance, i = req[r].got
             PROVE  Calm'
  BY <1>1
<1>2. closed \in [Instance -> SUBSET Nat] /\ i \in Nat
  BY PerpAssumption DEF Frame, TypeOK, Instance
<1>3. /\ \A j \in Instance \ {i} : closed'[j] = closed[j]
      /\ closed'[i] = closed[i] \union {ch[i]}
  BY <1>1, <1>2
<1>4. Stopping(i)
  BY <1>1 DEF Stopping
<1>5. /\ req'[r].at \in {"idle", "wait"} /\ (req'[r].at = "wait" => req'[r].got = i)
      /\ ~overtook[i] => req'[r].at = "wait"
  BY <1>1 DEF Goes, Calm, ClosesOpen
<1>6. /\ \A j \in Nat \ {i} : Stopping(j)' <=> Stopping(j)
      /\ ~overtook[i] => Stopping(i)'
  BY <1>1, <1>2, <1>5, StopsOthers DEF Stopping, InStop
<1>7. \A j \in Instance : Starting(j)' <=> Starting(j)
  BY <1>1 DEF Starting
<1>8. \A g \in RunId : Busy(g)' <=> Busy(g)
  BY <1>1 DEF Busy
<1>9. \A g \in RunId : run[g].at # "unused" \/ run[g].mon # "off" =>
        run[g].of \in Instance
  BY Known
<1>10. ~overtook[i] => ~Starting(i) /\ ~isRunning[i] /\ ~returned[i]
  BY <1>4 DEF Calm, StopIsAlone, Stopped
<1>11. StopIsAlone'
  BY <1>1, <1>6, <1>7, <1>10, PerpAssumption DEF Calm, StopIsAlone, Instance
<1>12. \A q \in Request : InStop(req'[q].at) =>
         InStop(req[q].at) /\ req'[q].got = req[q].got /\ (q # r => req'[q].at = req[q].at)
  BY <1>1, <1>5 DEF Only, InStop
<1>13. OneStop'
  BY <1>1, <1>12 DEF Calm, OneStop, InStop
<1>14. ClosesOpen'
  <2> SUFFICES ASSUME NEW q \in Request, InStop(req'[q].at), ~overtook[req'[q].got]
               PROVE  /\ req'[q].at = "close" => ch[req'[q].got] \notin closed'[req'[q].got]
                      /\ req'[q].at = "wait" => ch[req'[q].got] \in closed'[req'[q].got]
    BY <1>1 DEF ClosesOpen, InStop
  <2>1. CASE q = r
    BY <1>3, <1>5, <2>1 DEF InStop
  <2>2. CASE q # r
    <3>1. req[q].got \in Instance /\ req[q].got # i
      BY <1>1, <1>12, <2>2, GotIsMade DEF Calm, OneStop, InStop
    <3> QED
      BY <1>3, <1>12, <2>2, <3>1 DEF Calm, ClosesOpen
  <2> QED
    BY <2>1, <2>2
<1>15. RunningIsOpen'
  BY <1>1, <1>3, <1>10 DEF Calm, RunningIsOpen
<1>16. StartingIsOpen' /\ StartingRuns'
  <2> SUFFICES ASSUME NEW g \in RunId, run[g].at \in {"make", "launch", "init"},
                      NEW j \in Instance, j = run[g].of, ~overtook[j]
               PROVE  /\ run[g].at = "launch" => ch[j] \notin closed'[j]
                      /\ isRunning[j]
    BY <1>1, <1>9 DEF StartingIsOpen, StartingRuns
  <2>1. Starting(j)
    BY DEF Starting, StartUp
  <2> QED
    BY <1>3, <1>10, <2>1 DEF Calm, StartingIsOpen, StartingRuns
<1>17. LateIsAwaited'
  <2> SUFFICES ASSUME NEW g \in RunId, Busy(g), NEW j \in Instance, j = run[g].of,
                      ~overtook[j], ch[j] \in closed'[j] \/ ~isRunning[j]
               PROVE  Stopping(j)'
    BY <1>1, <1>8, <1>9 DEF LateIsAwaited, Busy, Counting, Loop, Stopping
  <2> QED
    BY <1>3, <1>6, PerpAssumption DEF Calm, LateIsAwaited, Instance
<1>18. ToldIsAwaited'
  <2> SUFFICES ASSUME NEW g \in RunId, run[g].at = "wait", NEW j \in Instance,
                      j = run[g].of, ~overtook[j], run[g].on \in closed'[j]
               PROVE  Stopping(j)'
    BY <1>1, <1>9 DEF ToldIsAwaited, Stopping
  <2> QED
    BY <1>3, <1>6, PerpAssumption DEF Calm, ToldIsAwaited, Instance
<1>19. Stopped'
  BY <1>1, <1>3, <1>6, <1>7, <1>10, PerpAssumption DEF Calm, Stopped, Instance
<1> QED
  BY <1>11, <1>13, <1>14, <1>15, <1>16, <1>17, <1>18, <1>19 DEF Calm

LEMMA CalmAfterWait ==
  ASSUME Frame, Calm, NEW r \in Request, Wait(r)
  PROVE  Calm'
<1>1. /\ Frame' /\ Handled(r) /\ req[r].at = "wait" /\ req[r].got \in Instance
      /\ UNCHANGED <<ch, closed, isRunning, overtook, run>> /\ Only(r)
      /\ returned' = [returned EXCEPT ![req[r].got] = TRUE]
      /\ Goes(r, AfterStop(r), req[r].got)
      /\ \A g \in RunId : run[g].of = req[r].got => ~Busy(g)
  BY WaitStep DEF Handled, Onward, Only, fields
<1> SUFFICES ASSUME NEW i \in Instance, i = req[r].got
             PROVE  Calm'
  BY <1>1
<1>2. returned \in [Instance -> BOOLEAN] /\ i \in Nat
  BY PerpAssumption DEF Frame, TypeOK, Instance
<1>3. \A j \in Instance \ {i} : returned'[j] = returned[j]
  BY <1>1, <1>2
<1>4. ~InStop(req'[r].at) /\ InStop(req[r].at)
  BY <1>1 DEF Goes, AfterStop, InStop
<1>5. \A q \in Request : InStop(req'[q].at) => req'[q] = req[q] /\ q # r
  BY <1>1, <1>4 DEF Only
<1>6. /\ \A j \in Nat \ {i} : Stopping(j)' <=> Stopping(j)
      /\ Stopping(i)
      /\ ~overtook[i] => ~Stopping(i)'
  <2>1. Stopping(i)
    BY <1>1 DEF Stopping
  <2>2. ASSUME ~overtook[i], NEW q \in Request, InStop(req'[q].at), req'[q].got = i
        PROVE  FALSE
    BY <1>1, <1>5, <2>2 DEF Calm, OneStop, InStop
  <2> QED
    BY <1>1, <1>2, <1>4, <2>1, <2>2, StopsOthers DEF Stopping, InStop
<1>7. \A j \in Instance : Starting(j)' <=> Starting(j)
  BY <1>1 DEF Starting
<1>8. \A g \in RunId : Busy(g)' <=> Busy(g)
  BY <1>1 DEF Busy
<1>9. \A g \in RunId : run[g].at # "unused" \/ run[g].mon # "off" =>
        run[g].of \in Instance
  BY Known
<1>10. ~overtook[i] => ~Starting(i) /\ ~isRunning[i] /\ ch[i] \in closed[i]
  BY <1>1, <1>6 DEF Calm, StopIsAlone, ClosesOpen
<1>11. StopIsAlone'
  BY <1>1, <1>6, <1>7, PerpAssumption DEF Calm, StopIsAlone, Instance
<1>12. OneStop'
  BY <1>1, <1>5 DEF Calm, OneStop, InStop
<1>13. ClosesOpen'
  BY <1>1, <1>5 DEF Calm, ClosesOpen, InStop
<1>14. RunningIsOpen' /\ StartingIsOpen' /\ StartingRuns'
  BY <1>1 DEF Calm, RunningIsOpen, StartingIsOpen, StartingRuns
<1>15. LateIsAwaited'
  <2> SUFFICES ASSUME NEW g \in RunId, Busy(g), NEW j \in Instance, j = run[g].of,
                      ~overtook[j], ch[j] \in closed[j] \/ ~isRunning[j]
               PROVE  Stopping(j)'
    BY <1>1, <1>8, <1>9 DEF LateIsAwaited, Busy, Counting, Loop, Stopping
  <2> QED
    BY <1>1, <1>6, PerpAssumption DEF Calm, LateIsAwaited, Instance
<1>16. ToldIsAwaited'
  <2> SUFFICES ASSUME NEW g \in RunId, run[g].at = "wait", NEW j \in Instance,
                      j = run[g].of, ~overtook[j], run[g].on \in closed[j]
               PROVE  Stopping(j)'
    BY <1>1, <1>9 DEF ToldIsAwaited, Stopping
  <2>1. Busy(g)
    BY DEF Busy, Counting, Loop
  <2> QED
    BY <1>1, <1>6, <2>1, PerpAssumption DEF Calm, ToldIsAwaited, Instance
<1>17. Stopped'
  BY <1>1, <1>3, <1>6, <1>7, <1>10, PerpAssumption DEF Calm, Stopped, Instance
<1> QED
  BY <1>11, <1>12, <1>13, <1>14, <1>15, <1>16, <1>17 DEF Calm

(* A goroutine calls Run on an instance.                                   *)
LEMMA CalmAfterCall ==
  ASSUME Frame, Frame', Calm, NEW r \in Request, Only(r), NEW i \in Instance, Calls(i),
         ~InStop(req[r].at), ~InStop(req'[r].at),
         UNCHANGED <<isRunning, ch, closed>>
  PROVE  Calm'
<1>1. /\ \A q \in Request : InStop(req'[q].at) => req'[q] = req[q]
      /\ \A q \in Request : InStop(req[q].at) => req'[q] = req[q]
  BY DEF Only
<1>2. \A j \in Nat : Stopping(j)' <=> Stopping(j)
  BY <1>1 DEF Stopping, InStop
<1> SUFFICES ASSUME NEW n \in RunId, n = runs + 1
             PROVE  Calm'
  BY DEF Calls
<1>3. /\ \A h \in RunId \ {n} : run'[h] = run[h]
      /\ run'[n].of = i /\ run'[n].at = "called" /\ run'[n].mon = "off"
  BY DEF Calls
<1>4. /\ \A j \in Instance \ {i} : overtook'[j] = overtook[j] /\ returned'[j] = returned[j]
      /\ overtook'[i] = (overtook[i] \/ Stopping(i)) /\ ~returned'[i]
      /\ overtook \in [Instance -> BOOLEAN]
  BY DEF Calls, Frame, TypeOK
<1>5. \A j \in Instance : overtook[j] => overtook'[j]
  BY <1>4
<1>6. ~overtook'[i] => ~Stopping(i)
  BY <1>4
<1>7. \A j \in Instance \ {i} : Starting(j)' => Starting(j)
  BY <1>3 DEF Starting
<1>8. \A h \in RunId : Busy(h)' => Busy(h) /\ h # n
  BY <1>3 DEF Busy, Counting, Loop
<1>9. \A g \in RunId : run[g].at # "unused" \/ run[g].mon # "off" =>
        /\ run[g].of \in Instance /\ run[g].of \in Nat
        /\ overtook[run[g].of] => overtook'[run[g].of]
  BY <1>5, Overtaken, PerpAssumption DEF Instance
<1>10. StopIsAlone'
  BY <1>2, <1>4, <1>6, <1>7, PerpAssumption DEF Calm, StopIsAlone, Instance
<1>11. \A q \in Request : InStop(req[q].at) => req[q].got \in Instance
  BY GotIsMade DEF InStop
<1>12. OneStop'
  BY <1>1, <1>5, <1>11 DEF Calm, OneStop, InStop
<1>13. ClosesOpen'
  BY <1>1, <1>5, <1>11 DEF Calm, ClosesOpen, InStop
<1>14. RunningIsOpen'
  <2> SUFFICES ASSUME NEW j \in Instance, isRunning[j], ~overtook'[j], ch[j] \in closed[j]
               PROVE  \E g \in RunId : run'[g].of = j /\ run'[g].at = "make"
    BY DEF RunningIsOpen
  <2>1. PICK g \in RunId : run[g].of = j /\ run[g].at = "make"
    BY <1>5 DEF Calm, RunningIsOpen
  <2>2. g # n
    BY <2>1 DEF Calls, Unused
  <2> QED
    BY <1>3, <2>1, <2>2
<1>15. StartingIsOpen' /\ StartingRuns'
  BY <1>3, <1>9 DEF Calm, StartingIsOpen, StartingRuns
<1>16. LateIsAwaited'
  <2> SUFFICES ASSUME NEW g \in RunId, Busy(g)', NEW j \in Instance, j = run'[g].of,
                      ~overtook'[j], ch[j] \in closed[j] \/ ~isRunning[j]
               PROVE  Stopping(j)'
    BY <1>3, <1>8, <1>9 DEF LateIsAwaited, Busy, Counting, Loop, Stopping
  <2>1. Busy(g) /\ run'[g] = run[g]
    BY <1>3, <1>8
  <2> QED
    BY <1>2, <1>5, <2>1, PerpAssumption DEF Calm, LateIsAwaited, Instance
<1>17. ToldIsAwaited'
  <2> SUFFICES ASSUME NEW g \in RunId, run'[g].at = "wait", NEW j \in Instance,
                      j = run'[g].of, run'[g].on \in closed[j], ~overtook'[j]
               PROVE  Stopping(j)'
    BY <1>3, <1>9 DEF ToldIsAwaited, Stopping
  <2>1. run'[g] = run[g]
    BY <1>3
  <2> QED
    BY <1>2, <1>5, <2>1, PerpAssumption DEF Calm, ToldIsAwaited, Instance
<1>18. Stopped'
  <2> SUFFICES ASSUME NEW j \in Instance, returned'[j], ~overtook'[j]
               PROVE  /\ ~Starting(j)' /\ ~isRunning[j] /\ ~Stopping(j)'
                      /\ ch[j] \in closed[j]
    BY DEF Stopped
  <2>1. j # i /\ j \in Nat
    BY <1>4, PerpAssumption DEF Instance
  <2> QED
    BY <1>2, <1>4, <1>7, <2>1 DEF Calm, Stopped
<1> QED
  BY <1>10, <1>12, <1>13, <1>14, <1>15, <1>16, <1>17, <1>18 DEF Calm

LEMMA CalmAfterRequestStep ==
  ASSUME Frame, Calm, NEW r \in Request, RequestStep(r) \/ Begin(r)
  PROVE  Calm'
<1>1. CASE Get(r)
  <2>1. /\ Frame' /\ Only(r) /\ ~InStop(req[r].at) /\ ~InStop(req'[r].at)
        /\ UNCHANGED <<run, isRunning, ch, closed, returned, overtook>>
    BY <1>1, GetStep DEF Handled, Onward, Only, InStop, fields, history
  <2> QED
    BY <2>1, CalmQuiet
<1>2. CASE Remove(r)
  <2>1. /\ Frame' /\ Only(r) /\ ~InStop(req[r].at)
        /\ UNCHANGED <<run, isRunning, ch, closed, returned>>
    BY <1>2, RemoveStep DEF Handled, Onward, Only, InStop, fields
  <2>2. ~InStop(req'[r].at)
    BY <1>2, RemoveStep DEF Goes, AfterRemove, InStop
  <2>3. overtook \in [Instance -> BOOLEAN]
    BY DEF Frame, TypeOK
  <2>4. \A i \in Instance : overtook[i] => overtook'[i]
    BY <1>2, <2>3, RemoveStep DEF OvertookIf
  <2> QED
    BY <2>1, <2>2, <2>4, CalmQuiet
<1>3. CASE Erase(r)
  <2>1. /\ Frame' /\ Only(r) /\ ~InStop(req[r].at)
        /\ UNCHANGED <<run, isRunning, ch, closed, returned>>
    BY <1>3, EraseStep DEF Handled, Onward, Only, InStop, fields
  <2>2. ~InStop(req'[r].at)
    BY <1>3, EraseStep DEF Goes, AfterRemove, InStop
  <2>3. overtook \in [Instance -> BOOLEAN]
    BY DEF Frame, TypeOK
  <2>4. \A i \in Instance : overtook[i] => overtook'[i]
    BY <1>3, <2>3, EraseStep
  <2> QED
    BY <2>1, <2>2, <2>4, CalmQuiet
<1>4. CASE Unset(r) \/ CloseChannel(r) \/ Wait(r)
  BY <1>4, CalmAfterUnset, CalmAfterClose, CalmAfterWait
<1>5. CASE Load(r)
  <2>1. /\ Frame' /\ Only(r) /\ ~InStop(req[r].at)
        /\ UNCHANGED <<isRunning, ch, closed>>
    BY <1>5, LoadStep DEF Onward, Only, InStop, fields
  <2>2. ~InStop(req'[r].at)
    BY <1>5, LoadStep DEF Goes, InStop
  <2>3. CASE UNCHANGED <<run, overtook, returned>>
    BY <2>1, <2>2, <2>3, CalmQuiet
  <2>4. CASE made + 1 \in Instance /\ Calls(made + 1)
    BY <2>1, <2>2, <2>4, CalmAfterCall
  <2> QED
    BY <1>5, <2>3, <2>4, LoadStep
<1>6. CASE GetAgain(r)
  <2>1. /\ Frame' /\ Only(r) /\ ~InStop(req[r].at)
        /\ UNCHANGED <<isRunning, ch, closed>>
    BY <1>6, GetAgainStep DEF Onward, Only, InStop, fields
  <2>2. ~InStop(req'[r].at)
    BY <1>6, GetAgainStep DEF Goes, InStop
  <2>3. CASE UNCHANGED <<run, overtook, returned>>
    BY <2>1, <2>2, <2>3, CalmQuiet
  <2>4. CASE current \in Instance /\ Calls(current)
    BY <2>1, <2>2, <2>4, CalmAfterCall
  <2> QED
    BY <1>6, <2>3, <2>4, GetAgainStep
<1>7. CASE Mark(r)
  <2>1. /\ Frame' /\ Only(r) /\ ~InStop(req[r].at) /\ ~InStop(req'[r].at)
        /\ UNCHANGED <<run, isRunning, ch, closed, returned, overtook>>
    BY <1>7, MarkStep DEF Handled, Onward, Only, InStop, fields, Goes
  <2> QED
    BY <2>1, CalmQuiet
<1>8. CASE Begin(r)
  <2>1. /\ Frame' /\ Only(r) /\ ~InStop(req[r].at) /\ ~InStop(req'[r].at)
        /\ UNCHANGED <<run, isRunning, ch, closed, returned, overtook>>
    BY <1>8, BeginStep DEF Only, InStop, fields
  <2> QED
    BY <2>1, CalmQuiet
<1> QED
  BY <1>1, <1>2, <1>3, <1>4, <1>5, <1>6, <1>7, <1>8 DEF RequestStep

LEMMA StartedCalm ==
  Started => Calm
<1> SUFFICES ASSUME Started
             PROVE  Calm
  OBVIOUS
<1>1. /\ \A g \in RunId : run[g].at \in {"unused", "called"} /\ run[g].mon = "off"
      /\ \A r \in Request : req[r].at = "idle"
      /\ \A i \in Instance : ~isRunning[i] /\ ~returned[i]
  BY StartedRuns DEF Started, Unused, Idle
<1>2. /\ \A i : ~Stopping(i)
      /\ \A g \in RunId : ~Busy(g)
  BY <1>1 DEF Stopping, Busy, Counting, Loop
<1> QED
  BY <1>1, <1>2 DEF Calm, StopIsAlone, OneStop, ClosesOpen, RunningIsOpen,
                    StartingIsOpen, StartingRuns, LateIsAwaited, ToldIsAwaited, Stopped

-----------------------------------------------------------------------------
(* What left the map, over every step.                                     *)

LEMMA MadeAreInstances ==
  ASSUME TypeOK
  PROVE  1..made \subseteq Instance /\ (current # None => current \in 1..made)
BY PerpAssumption DEF TypeOK, Instance, None

LEMMA StillKept ==
  ASSUME RemovedIsStill, made' = made,
         \A i \in 1..made :
           /\ i # current' /\ ~overtook'[i] => i # current /\ ~overtook[i]
           /\ Starting(i)' => Starting(i)
           /\ isRunning'[i] => isRunning[i]
  PROVE  RemovedIsStill'
BY DEF RemovedIsStill

(* What the remover of the lock knows, when it does not move itself.       *)
LEMMA SureKept ==
  ASSUME Frame, RemoverIsSure, NEW r \in Request, Only(r), mu # r, mu' = mu,
         current' = current,
         mu # Free => /\ ~overtook'[current] => ~overtook[current]
                      /\ Starting(current)' => Starting(current)
                      /\ isRunning'[current] = isRunning[current]
  PROVE  RemoverIsSure'
<1> SUFFICES ASSUME mu # Free, NEW i, i = current, ~overtook'[i]
             PROVE  /\ req'[mu].at = "unset" => isRunning'[i] \/ ~Starting(i)'
                    /\ req'[mu].at = "erase" => ~isRunning'[i] /\ ~Starting(i)'
  BY DEF RemoverIsSure, Starting
<1>1. mu \in Request \ {r} /\ req'[mu] = req[mu]
  BY DEF Frame, TypeOK, Only
<1>2. Starting(i)' => Starting(i)
  BY DEF Starting
<1>3. ~overtook[i] /\ isRunning'[i] = isRunning[i]
  OBVIOUS
<1> QED
  BY <1>1, <1>2, <1>3 DEF RemoverIsSure

LEMMA RemovalAfterRunStep ==
  ASSUME Frame, Removal, NEW g \in RunId, RunStep(g) \/ MonitorStep(g)
  PROVE  Removal'
<1>1. /\ Local(g)
      /\ \/ run[g].at = "called" /\ run'[g].at = "make" /\ isRunning'[run[g].of]
         \/ isRunning' = isRunning /\ (run'[g].at \in StartUp => run[g].at \in StartUp)
  <2>1. CASE SetRunning(g) \/ MakeChannel(g)
    BY <2>1, SetRunningStep, MakeChannelStep DEF Framed, StartUp, Loop
  <2>2. CASE Launch(g) \/ InitGrid(g)
    BY <2>2, LaunchStep, InitGridStep DEF Framed, StartUp, Loop
  <2>3. CASE ClearMark(g)
    BY <2>3, ClearMarkStep DEF Framed, StartUp, Loop
  <2>4. CASE EndCycle(g) \/ Tick(g) \/ StopSignal(g)
    BY <2>4, EndCycleStep, TickStep, StopSignalStep DEF Framed, Looped, StartUp, Loop
  <2>5. CASE MonitorStep(g)
    BY <2>5, MonitorStepFacts DEF Framed, Monitored, StartUp, Loop
  <2> QED
    BY <2>1, <2>2, <2>3, <2>4, <2>5 DEF RunStep
<1> SUFFICES ASSUME NEW i \in Instance, i = run[g].of
             PROVE  Removal'
  BY <1>1 DEF Local
<1>2. /\ UNCHANGED <<current, made, mu, req, overtook>> /\ Steps(g)
      /\ \A j \in Instance \ {i} : isRunning'[j] = isRunning[j]
  BY <1>1 DEF Local
<1>3. \A j \in Instance : Starting(j)' => Starting(j)
  BY <1>1, <1>2, StartingFalls DEF StartUp
<1>4. 1..made \subseteq Instance /\ (current # None => current \in 1..made)
  BY MadeAreInstances DEF Frame
<1>5. mu # Free => current \in Instance /\ current # None
  BY <1>4 DEF Frame, Locked
<1>6. CASE isRunning' = isRunning
  <2>1. RemovedIsStill'
    BY <1>2, <1>3, <1>4, <1>6 DEF Removal, RemovedIsStill
  <2>2. RemoverIsSure'
    <3> SUFFICES ASSUME mu # Free, NEW j \in Instance, j = current, ~overtook[j]
                 PROVE  /\ req[mu].at = "unset" => isRunning[j] \/ ~Starting(j)'
                        /\ req[mu].at = "erase" => ~isRunning[j] /\ ~Starting(j)'
      BY <1>2, <1>5, <1>6 DEF RemoverIsSure, Starting
    <3> QED
      BY <1>3 DEF Removal, RemoverIsSure
  <2> QED
    BY <2>1, <2>2 DEF Removal
<1>7. CASE run[g].at = "called" /\ isRunning'[i]
  <2>1. Starting(i)
    BY <1>7 DEF Starting, StartUp
  <2>2. RemovedIsStill'
    BY <1>2, <1>3, <1>4, <2>1 DEF Removal, RemovedIsStill
  <2>3. RemoverIsSure'
    <3> SUFFICES ASSUME mu # Free, NEW j \in Instance, j = current, ~overtook[j]
                 PROVE  /\ req[mu].at = "unset" => isRunning'[j] \/ ~Starting(j)'
                        /\ req[mu].at = "erase" => ~isRunning'[j] /\ ~Starting(j)'
      BY <1>2, <1>5 DEF RemoverIsSure, Starting
    <3>1. /\ req[mu].at = "unset" => isRunning[j] \/ ~Starting(j)
          /\ req[mu].at = "erase" => ~isRunning[j] /\ ~Starting(j)
      BY DEF Removal, RemoverIsSure
    <3> QED
      BY <1>2, <1>3, <1>7, <2>1, <3>1
  <2> QED
    BY <2>2, <2>3 DEF Removal
<1> QED
  BY <1>1, <1>6, <1>7

LEMMA RemovalAfterStop ==
  ASSUME Frame, Calm, Removal, NEW r \in Request,
         Unset(r) \/ CloseChannel(r) \/ Wait(r)
  PROVE  Removal'
<1>1. /\ Frame' /\ Handled(r) /\ Only(r) /\ UNCHANGED <<current, made, run>>
      /\ req[r].at \in {"unset", "close", "wait"} /\ req[r].got \in Instance
  BY UnsetStep, CloseStep, WaitStep DEF Handled, Onward, Only, manager
<1> SUFFICES ASSUME NEW i \in Instance, i = req[r].got
             PROVE  Removal'
  BY <1>1
<1>2. isRunning \in [Instance -> BOOLEAN] /\ overtook \in [Instance -> BOOLEAN]
  BY DEF Frame, TypeOK
<1>3. \A j \in Instance : Starting(j)' <=> Starting(j)
  BY <1>1 DEF Starting
<1>4. /\ \A j \in Instance : isRunning'[j] => isRunning[j]
      /\ \A j \in Instance : overtook[j] => overtook'[j]
  BY <1>1, <1>2, UnsetStep, CloseStep, WaitStep DEF fields
<1>5. 1..made \subseteq Instance /\ (current # None => current \in 1..made)
  BY MadeAreInstances DEF Frame
<1>6. RemovedIsStill'
  BY <1>1, <1>3, <1>4, <1>5, StillKept DEF Removal
<1>7. mu # Free => current \in Instance /\ (mu = r => i = current) /\ mu \in Request
  BY <1>5 DEF Frame, Locked, TypeOK
<1>8. RemoverIsSure'
  <2> SUFFICES ASSUME mu' # Free, NEW j \in Instance, j = current, ~overtook'[j]
               PROVE  /\ req'[mu'].at = "unset" => isRunning'[j] \/ ~Starting(j)'
                      /\ req'[mu'].at = "erase" => ~isRunning'[j] /\ ~Starting(j)'
    <3>1. mu' # Free => current' \in Instance
      BY <1>1, MadeAreInstances DEF Frame, Locked, TypeOK, Instance, None
    <3> QED
      BY <1>1, <3>1 DEF RemoverIsSure, Starting
  <2>1. mu' = mu /\ mu # Free
    BY UnsetStep, WaitStep DEF manager, CloseChannel
  <2>2. ~overtook[j]
    BY <1>4
  <2>3. CASE mu # r
    <3>1. req'[mu] = req[mu]
      BY <1>1, <1>7, <2>1, <2>3 DEF Only
    <3>2. /\ req[mu].at = "unset" => isRunning[j] \/ ~Starting(j)
          /\ req[mu].at = "erase" => ~isRunning[j] /\ ~Starting(j)
      BY <2>1, <2>2 DEF Removal, RemoverIsSure
    <3>3. isRunning'[j] = isRunning[j] \/ ~Starting(j)
      <4>1. CASE Unset(r)
        BY <1>2, <4>1, UnsetStep
      <4>2. CASE CloseChannel(r) \/ Wait(r)
        BY <4>2, CloseStep, WaitStep DEF fields
      <4> QED
        BY <4>1, <4>2
    <3> QED
      BY <1>3, <1>4, <2>1, <3>1, <3>2, <3>3
  <2>4. CASE mu = r
    <3>1. i = j
      BY <1>7, <2>1, <2>4
    <3>2. CASE Unset(r)
      <4>1. /\ ~isRunning'[i] /\ req'[r].at # "unset"
            /\ isRunning[i] => req'[r].at # "erase"
        BY <1>2, <3>2, UnsetStep DEF Goes, AfterStop
      <4>2. isRunning[i] \/ ~Starting(i)
        BY <2>1, <2>2, <2>4, <3>1, <3>2, UnsetStep DEF Removal, RemoverIsSure
      <4> QED
        BY <1>3, <2>1, <2>4, <3>1, <4>1, <4>2
    <3>3. CASE CloseChannel(r)
      <4>1. req'[r].at \in {"idle", "wait"}
        BY <3>3, CloseStep DEF Goes
      <4> QED
        BY <2>1, <2>4, <4>1
    <3>4. CASE Wait(r)
      <4>1. req[r].at = "wait" /\ isRunning' = isRunning /\ req'[r].at # "unset"
        BY <3>4, WaitStep DEF fields, Goes, AfterStop
      <4>2. Stopping(i)
        BY <4>1 DEF Stopping
      <4>3. ~Starting(i) /\ ~isRunning[i]
        BY <2>2, <3>1, <4>2 DEF Calm, StopIsAlone
      <4> QED
        BY <1>3, <2>1, <2>4, <3>1, <4>1, <4>3
    <3> QED
      BY <3>2, <3>3, <3>4
  <2> QED
    BY <2>3, <2>4
<1> QED
  BY <1>6, <1>8 DEF Removal

LEMMA RemovalAfterRemove ==
  ASSUME Frame, Removal, NEW r \in Request, Remove(r) \/ Erase(r)
  PROVE  Removal'
<1>1. /\ Handled(r) /\ Only(r) /\ UNCHANGED <<made, run, isRunning>>
  BY RemoveStep, EraseStep DEF Handled, Onward, Only, fields
<1>2. isRunning \in [Instance -> BOOLEAN] /\ overtook \in [Instance -> BOOLEAN]
  BY DEF Frame, TypeOK
<1>3. \A j \in Instance : Starting(j)' <=> Starting(j)
  BY <1>1 DEF Starting
<1>4. 1..made \subseteq Instance /\ (current # None => current \in 1..made)
  BY MadeAreInstances DEF Frame
<1>5. CASE Remove(r) /\ Running(current)
  <2>1. UNCHANGED <<current, overtook>> /\ mu' = r
    BY <1>5, RemoveStep
  <2>2. RemovedIsStill'
    BY <1>1, <1>3, <1>4, <2>1, StillKept DEF Removal
  <2>3. req'[r].at = "unset" /\ isRunning[current]
    BY <1>5, RemoveStep DEF Goes, Running
  <2> QED
    BY <1>1, <2>1, <2>2, <2>3 DEF Removal, RemoverIsSure
<1>6. CASE (Remove(r) /\ ~Running(current)) \/ Erase(r)
  <2>1. current' = None /\ mu' = Free
    BY <1>6, RemoveStep, EraseStep
  <2>2. \A i \in Instance : overtook[i] => overtook'[i]
    BY <1>2, <1>6, RemoveStep, EraseStep DEF OvertookIf
  <2>3. current # None /\ ~overtook'[current] =>
          ~isRunning[current] /\ ~Starting(current)
    <3> SUFFICES ASSUME current # None, NEW i \in Instance, i = current, ~overtook'[i]
                 PROVE  ~isRunning[i] /\ ~Starting(i)
      BY <1>4
    <3>1. CASE Remove(r) /\ ~Running(current)
      BY <1>2, <3>1, RemoveStep DEF OvertookIf, Running
    <3>2. CASE Erase(r)
      <4>1. req[r].at = "erase" /\ mu = r /\ mu # Free /\ ~overtook[i]
        BY <2>2, <3>2, EraseStep, PerpAssumption
      <4> QED
        BY <4>1 DEF Removal, RemoverIsSure
    <3> QED
      BY <1>6, <3>1, <3>2
  <2>4. RemovedIsStill'
    <3> SUFFICES ASSUME NEW i \in Instance, i \in 1..made, ~overtook'[i]
                 PROVE  ~Starting(i)' /\ ~isRunning[i]
      BY <1>1, <1>4 DEF RemovedIsStill
    <3>1. ~Starting(i) /\ ~isRunning[i]
      BY <2>2, <2>3, PerpAssumption DEF Removal, RemovedIsStill, Instance, None
    <3> QED
      BY <1>3, <3>1
  <2> QED
    BY <2>1, <2>4 DEF Removal, RemoverIsSure
<1> QED
  BY <1>5, <1>6

(* Nobody holds the lock when a trader is loaded or run again.             *)
LEMMA RemovalAfterCall ==
  ASSUME Frame, Removal, mu' = Free, isRunning' = isRunning, NEW i \in Instance,
         Calls(i), current' = i,
         \/ current = i /\ made' = made
         \/ current = None /\ made' = made + 1 /\ i = made + 1
  PROVE  Removal'
<1>1. made \in Nat /\ 1..made \subseteq Instance
  BY MadeAreInstances, PerpAssumption DEF Frame, TypeOK
<1>2. \A j \in Instance \ {i} : Starting(j)' => Starting(j)
  BY DEF Starting, Calls
<1>3. RemovedIsStill'
  <2> SUFFICES ASSUME NEW j \in 1..made', j # i, ~overtook'[j]
               PROVE  ~Starting(j)' /\ ~isRunning[j]
    BY DEF RemovedIsStill
  <2>1. j \in 1..made /\ j \in Instance \ {i} /\ j # None
    BY <1>1 DEF None
  <2>2. j # current /\ ~overtook[j]
    BY <2>1 DEF Calls
  <2> QED
    BY <1>2, <2>1, <2>2 DEF Removal, RemovedIsStill
<1> QED
  BY <1>3 DEF Removal, RemoverIsSure

LEMMA RemovalAfterRequestStep ==
  ASSUME Frame, Calm, Removal, NEW r \in Request, RequestStep(r) \/ Begin(r)
  PROVE  Removal'
<1>1. 1..made \subseteq Instance /\ (current # None => current \in 1..made)
      /\ made \in Nat
  BY MadeAreInstances, PerpAssumption DEF Frame, TypeOK
<1>2. ASSUME UNCHANGED <<current, made, mu, run, isRunning, overtook>>, Only(r),
             mu # r
      PROVE  Removal'
  <2>1. \A j \in Instance : Starting(j)' <=> Starting(j)
    BY <1>2 DEF Starting
  <2>2. mu # Free => current \in Instance
    BY <1>1 DEF Frame, Locked
  <2>3. RemovedIsStill'
    BY <1>1, <1>2, <2>1, StillKept DEF Removal
  <2>4. RemoverIsSure'
    <3>1. mu # Free => /\ ~overtook'[current] => ~overtook[current]
                       /\ Starting(current)' => Starting(current)
                       /\ isRunning'[current] = isRunning[current]
      BY <1>2, <2>1, <2>2 DEF Starting
    <3> QED
      BY <1>2, <3>1, SureKept DEF Removal
  <2> QED
    BY <2>3, <2>4 DEF Removal
<1>3. CASE Get(r)
  <2>1. UNCHANGED <<current, made, mu, run, isRunning, overtook>> /\ Only(r) /\ mu = Free
    BY <1>3, GetStep DEF Handled, Onward, Only, manager, fields, history
  <2> QED
    BY <1>2, <2>1, PerpAssumption
<1>4. CASE Remove(r) \/ Erase(r)
  BY <1>4, RemovalAfterRemove
<1>5. CASE Unset(r) \/ CloseChannel(r) \/ Wait(r)
  BY <1>5, RemovalAfterStop
<1>6. CASE Load(r)
  <2>1. mu = Free /\ mu' = Free /\ isRunning' = isRunning
    BY <1>6, LoadStep DEF fields
  <2>2. CASE UNCHANGED <<made, current, runs, run, overtook, returned>>
    <3>1. \A j \in Instance : Starting(j)' <=> Starting(j)
      BY <2>2 DEF Starting
    <3>2. RemovedIsStill'
      BY <1>1, <2>1, <2>2, <3>1, StillKept DEF Removal
    <3> QED
      BY <2>1, <3>2 DEF Removal, RemoverIsSure
  <2>3. CASE current = None /\ made' = made + 1 /\ current' = made + 1
             /\ UNCHANGED <<run, overtook>>
    <3>1. \A j \in Instance : Starting(j)' <=> Starting(j)
      BY <2>3 DEF Starting
    <3>2. RemovedIsStill'
      <4> SUFFICES ASSUME NEW j \in 1..(made + 1), j # made + 1, ~overtook[j]
                   PROVE  ~Starting(j)' /\ ~isRunning[j]
        BY <2>1, <2>3 DEF RemovedIsStill
      <4>1. j \in 1..made /\ j # current
        BY <1>1, <2>3 DEF None
      <4> QED
        BY <1>1, <3>1, <4>1 DEF Removal, RemovedIsStill
    <3> QED
      BY <2>1, <3>2 DEF Removal, RemoverIsSure
  <2>4. CASE current = None /\ made' = made + 1 /\ current' = made + 1
             /\ made + 1 \in Instance /\ Calls(made + 1)
    BY <2>1, <2>4, RemovalAfterCall
  <2> QED
    BY <1>6, <2>2, <2>3, <2>4, LoadStep
<1>7. CASE GetAgain(r)
  <2>1. mu = Free /\ UNCHANGED <<current, made, mu, isRunning>> /\ Only(r)
    BY <1>7, GetAgainStep DEF manager, fields, Onward, Only
  <2>2. CASE UNCHANGED <<run, overtook>>
    BY <1>2, <2>1, <2>2, PerpAssumption
  <2>3. CASE current \in Instance /\ Calls(current)
    BY <2>1, <2>3, RemovalAfterCall
  <2> QED
    BY <1>7, <2>2, <2>3, GetAgainStep
<1>8. CASE Mark(r)
  <2>1. /\ UNCHANGED <<current, made, mu, run, isRunning, overtook>> /\ Only(r)
        /\ req[r].at \in {"mark", "unmark"}
    BY <1>8, MarkStep DEF Handled, Onward, Only, fields
  <2>2. mu # r
    BY <2>1, PerpAssumption DEF Frame, Locked
  <2> QED
    BY <1>2, <2>1, <2>2
<1>9. CASE Begin(r)
  <2>1. /\ UNCHANGED <<current, made, mu, run, isRunning, overtook>> /\ Only(r)
        /\ req[r].at = "idle"
    BY <1>9, BeginStep DEF Only, fields
  <2>2. mu # r
    BY <2>1, PerpAssumption DEF Frame, Locked
  <2> QED
    BY <1>2, <2>1, <2>2
<1> QED
  BY <1>3, <1>4, <1>5, <1>6, <1>7, <1>8, <1>9 DEF RequestStep

LEMMA StartedRemoval ==
  Started => Removal
<1> SUFFICES ASSUME Started
             PROVE  Removal
  OBVIOUS
<1>1. ~row.exists => \A g \in RunId : run[g].at = "unused"
  BY StartedRuns DEF Started, Unused
<1>2. 1 \in Instance /\ made = 1 /\ mu = Free /\ ~isRunning[1]
      /\ current = IF row.exists THEN 1 ELSE None
  BY PerpAssumption DEF Started, Instance
<1>3. RemovedIsStill
  BY <1>1, <1>2 DEF RemovedIsStill, Starting, StartUp
<1> QED
  BY <1>2, <1>3 DEF Removal, RemoverIsSure

(* The instance that left the map has nothing running.                     *)
LEMMA SilenceOfTheRemoved ==
  ASSUME Frame, Calm, Removal
  PROVE  RemovedIsSilent
<1> SUFFICES ASSUME NEW g \in RunId, NEW i \in Instance, i = run[g].of, i # current,
                    ~overtook[i], ~Stopping(i), LiveRun(g) \/ run[g].mon # "off"
             PROVE  FALSE
  BY DEF RemovedIsSilent
<1>1. i \in 1..made
  BY Known DEF LiveRun, Live, StartUp, Loop
<1>2. ~Starting(i) /\ ~isRunning[i]
  BY <1>1 DEF Removal, RemovedIsStill
<1>3. run[g].at \notin StartUp
  BY <1>2 DEF Starting
<1>4. Busy(g)
  BY <1>3 DEF Busy, LiveRun, Live, Counting
<1> QED
  BY <1>2, <1>4 DEF Calm, LateIsAwaited

(* A Stop has returned.                                                    *)
LEMMA SilenceOfTheStopped ==
  ASSUME Frame, Calm
  PROVE  SilentOnceStopped
<1> SUFFICES ASSUME NEW g \in RunId, NEW i, i = run[g].of, i # None, returned[i],
                    ~overtook[i], LiveRun(g) \/ run[g].mon # "off"
             PROVE  FALSE
  BY DEF SilentOnceStopped
<1>1. i \in Instance
  BY Known DEF LiveRun, Live, StartUp, Loop
<1>2. ~Starting(i) /\ ~isRunning[i] /\ ~Stopping(i)
  BY <1>1 DEF Calm, Stopped
<1>3. run[g].at \notin StartUp
  BY <1>2 DEF Starting
<1>4. Busy(g)
  BY <1>3 DEF Busy, LiveRun, Live, Counting
<1> QED
  BY <1>2, <1>4 DEF Calm, LateIsAwaited

LEMMA SyncLoopsAreTold ==
  ASSUME Frame, Calm
  PROVE  SyncLoopsEnd
<1> SUFFICES ASSUME NEW g \in RunId, NEW i, i = run[g].of, run[g].at = "ended",
                    returned[i], ~overtook[i], ch[i] = 1
             PROVE  run[g].syncOn \in closed[i]
  BY DEF SyncLoopsEnd
<1>1. i \in Instance
  BY Known
<1>2. ch[i] \in closed[i]
  BY <1>1 DEF Calm, Stopped
<1>3. run[g].syncOn \in Nat /\ 1 <= run[g].syncOn /\ run[g].syncOn <= ch[i]
  BY DEF Frame, TypeOK, Numbered, Launched
<1> QED
  BY <1>2, <1>3

-----------------------------------------------------------------------------
(* Who serves a trader that says it runs, and who closes a channel twice.  *)

(* No request but through Stop ends a Run, and none takes back that one    *)
(* was overtaken.                                                          *)
LEMMA RequestKeeps ==
  ASSUME Frame, NEW r \in Request, RequestStep(r) \/ Begin(r)
  PROVE  /\ \A i \in Instance : isRunning'[i] => isRunning[i]
         /\ \A i \in Instance : overtook[i] => overtook'[i]
         /\ initFailed' = initFailed
         /\ \A g \in RunId : run[g].at # "unused" => run'[g] = run[g]
<1>1. isRunning \in [Instance -> BOOLEAN] /\ overtook \in [Instance -> BOOLEAN]
  BY DEF Frame, TypeOK
<1>2. CASE Get(r) \/ Mark(r) \/ Wait(r) \/ Begin(r)
  BY <1>2, GetStep, MarkStep, WaitStep, BeginStep DEF Handled, fields, history
<1>3. CASE Remove(r) \/ Erase(r)
  BY <1>1, <1>3, RemoveStep, EraseStep DEF Handled, fields, OvertookIf
<1>4. CASE Unset(r)
  BY <1>1, <1>4, UnsetStep DEF Handled
<1>5. CASE CloseChannel(r)
  BY <1>5, CloseStep DEF Handled
<1>6. ASSUME NEW i \in Instance, Calls(i)
      PROVE  /\ \A j \in Instance : overtook[j] => overtook'[j]
             /\ \A g \in RunId : run[g].at # "unused" => run'[g] = run[g]
  BY <1>6 DEF Calls, Unused
<1>7. CASE Load(r)
  BY <1>6, <1>7, LoadStep DEF fields
<1>8. CASE GetAgain(r)
  BY <1>6, <1>8, GetAgainStep DEF fields
<1> QED
  BY <1>2, <1>3, <1>4, <1>5, <1>7, <1>8 DEF RequestStep

LEMMA ServedAfterRunStep ==
  ASSUME Frame, Calm, RunningIsServed, NEW g \in RunId, RunStep(g) \/ MonitorStep(g)
  PROVE  RunningIsServed'
<1>1. /\ Local(g) /\ (initFailed => initFailed')
      /\ \/ run[g].at = "called" /\ run'[g].at = "make"
         \/ /\ isRunning' = isRunning
            /\ \/ run'[g].at \in Live
               \/ run[g].at \notin Live
               \/ initFailed'
               \/ ~isRunning[run[g].of]
               \/ run[g].at = "wait" /\ run[g].on \in closed[run[g].of]
  <2>1. CASE SetRunning(g) \/ MakeChannel(g)
    BY <2>1, SetRunningStep, MakeChannelStep DEF Framed, Live, StartUp, Loop
  <2>2. CASE Launch(g) \/ InitGrid(g)
    BY <2>2, LaunchStep, InitGridStep DEF Framed, Live, StartUp, Loop
  <2>3. CASE ClearMark(g)
    BY <2>3, ClearMarkStep DEF Framed, Live, StartUp, Loop
  <2>4. CASE EndCycle(g) \/ Tick(g) \/ StopSignal(g)
    BY <2>4, EndCycleStep, TickStep, StopSignalStep DEF Framed, Looped, Live, StartUp, Loop
  <2>5. CASE MonitorStep(g)
    BY <2>5, MonitorStepFacts DEF Framed, Monitored, Live, StartUp, Loop
  <2> QED
    BY <2>1, <2>2, <2>3, <2>4, <2>5 DEF RunStep
<1> SUFFICES ASSUME NEW i \in Instance, i = run[g].of
             PROVE  RunningIsServed'
  BY <1>1 DEF Local
<1>2. /\ UNCHANGED <<closed, req, overtook>> /\ run'[g].of = i
      /\ \A h \in RunId \ {g} : run'[h] = run[h]
      /\ \A j \in Instance \ {i} : isRunning'[j] = isRunning[j]
  BY <1>1 DEF Local, Steps
<1> SUFFICES ASSUME NEW j \in Instance, isRunning'[j], ~overtook[j], ~initFailed'
             PROVE  \E h \in RunId : run'[h].of = j /\ run'[h].at \in Live
  BY <1>2 DEF RunningIsServed, LiveRun
<1>3. CASE run'[g].at \in Live /\ j = i
  BY <1>2, <1>3
<1>4. CASE j # i \/ run'[g].at \notin Live
  <2>1. isRunning[j]
    BY <1>1, <1>2, <1>4 DEF Live, StartUp
  <2>2. PICK h \in RunId : run[h].of = j /\ run[h].at \in Live
    BY <1>1, <2>1 DEF RunningIsServed, LiveRun
  <2>3. CASE h # g
    BY <1>2, <2>2, <2>3
  <2>4. CASE h = g
    <3>1. run[g].at = "wait" /\ run[g].on \in closed[i]
      BY <1>1, <1>4, <2>1, <2>2, <2>4 DEF Live, StartUp
    <3>2. Stopping(i)
      BY <2>2, <2>4, <3>1 DEF Calm, ToldIsAwaited
    <3> QED
      BY <2>1, <2>2, <2>4, <3>2 DEF Calm, StopIsAlone
  <2> QED
    BY <2>3, <2>4
<1> QED
  BY <1>3, <1>4

LEMMA ServedAfterRequestStep ==
  ASSUME Frame, RunningIsServed, NEW r \in Request, RequestStep(r) \/ Begin(r)
  PROVE  RunningIsServed'
<1>1. \A g \in RunId : LiveRun(g) => run'[g] = run[g]
  BY RequestKeeps DEF LiveRun, Live, StartUp, Loop
<1>2. \A i \in Instance :
        isRunning'[i] /\ ~overtook'[i] /\ ~initFailed' =>
          isRunning[i] /\ ~overtook[i] /\ ~initFailed
  BY RequestKeeps
<1> QED
  BY <1>1, <1>2 DEF RunningIsServed, LiveRun

LEMMA TwiceAfterRequestStep ==
  ASSUME Frame, Calm, NeverClosesTwice, NEW r \in Request, RequestStep(r) \/ Begin(r)
  PROVE  NeverClosesTwice'
<1>1. \A i \in Instance : overtook[i] => overtook'[i]
  BY RequestKeeps
<1>2. panicked' = panicked \/ \E i \in Instance : overtook[i]
  <2>1. CASE CloseChannel(r)
    BY <2>1, CloseStep DEF Calm, ClosesOpen
  <2>2. CASE ~CloseChannel(r)
    <3>1. Get(r) \/ Remove(r) \/ Erase(r) \/ Unset(r) \/ Wait(r) \/ Mark(r)
          \/ Load(r) \/ GetAgain(r) \/ Begin(r)
      BY <2>2 DEF RequestStep
    <3> QED
      BY <3>1, GetStep, RemoveStep, EraseStep, UnsetStep, WaitStep, MarkStep, LoadStep,
         GetAgainStep, BeginStep DEF history
  <2> QED
    BY <2>1, <2>2
<1> QED
  BY <1>1, <1>2 DEF NeverClosesTwice

-----------------------------------------------------------------------------
(* The row, with one request after the other.                              *)

(* The request that is alone goes on, or ends.                             *)
LEMMA TurnTaken ==
  ASSUME InTurn, NEW r \in Request, Only(r), Alone' => Alone,
         Alone' => req[r].at # "idle" \/ \A q \in Request : req[q].at = "idle",
         Alone' => Turn(r)' /\ (req'[r].at = "idle" => Agrees')
  PROVE  InTurn'
<1> SUFFICES ASSUME Alone'
             PROVE  /\ \A p, q \in Request :
                         req'[p].at # "idle" /\ req'[q].at # "idle" => p = q
                    /\ (\A q \in Request : req'[q].at = "idle") => Agrees'
                    /\ \A q \in Request : Turn(q)'
  BY DEF InTurn
<1>1. \A q \in Request \ {r} : req'[q] = req[q] /\ req[q].at = "idle"
  BY DEF InTurn, Only
<1>2. \A q \in Request \ {r} : Turn(q)'
  BY <1>1 DEF Turn
<1> QED
  BY <1>1, <1>2

LEMMA UpKept ==
  ASSUME Frame, Calm, RowIsSound, NEW g \in RunId, RunStep(g) \/ MonitorStep(g), Alone'
  PROVE  /\ Alone /\ row' = row /\ req' = req /\ current' = current
         /\ \A i \in Instance : isRunning[i] => isRunning'[i]
         /\ \A i \in Instance : Up(i)' <=> Up(i)
<1>1. /\ Local(g) /\ (initFailed => initFailed')
      /\ row' = row \/ run[g].at = "clear"
      /\ \/ /\ run[g].at = "called" /\ run'[g].at = "make" /\ isRunning'[run[g].of]
         \/ /\ isRunning' = isRunning
            /\ \/ run'[g].at \in StartUp /\ run[g].at \in StartUp
               \/ run'[g].at \notin StartUp /\ run[g].at \notin StartUp
               \/ run[g].at \in {"launch", "init"}
               \/ initFailed'
  <2>1. CASE SetRunning(g) \/ MakeChannel(g)
    BY <2>1, SetRunningStep, MakeChannelStep DEF Framed, StartUp
  <2>2. CASE Launch(g) \/ InitGrid(g)
    BY <2>2, LaunchStep, InitGridStep DEF Framed, StartUp
  <2>3. CASE ClearMark(g)
    BY <2>3, ClearMarkStep DEF Framed, StartUp
  <2>4. CASE EndCycle(g) \/ Tick(g) \/ StopSignal(g)
    BY <2>4, EndCycleStep, TickStep, StopSignalStep DEF Framed, Looped, StartUp, Loop
  <2>5. CASE MonitorStep(g)
    BY <2>5, MonitorStepFacts DEF Framed, Monitored
  <2> QED
    BY <2>1, <2>2, <2>3, <2>4, <2>5 DEF RunStep
<1> SUFFICES ASSUME NEW j \in Instance, j = run[g].of
             PROVE  /\ Alone /\ row' = row /\ req' = req /\ current' = current
                    /\ \A i \in Instance : isRunning[i] => isRunning'[i]
                    /\ \A i \in Instance : Up(i)' <=> Up(i)
  BY <1>1 DEF Local
<1>2. /\ UNCHANGED <<overtook, overlapped, req, current>> /\ run'[g].of = j
      /\ \A h \in RunId \ {g} : run'[h] = run[h]
      /\ \A i \in Instance \ {j} : isRunning'[i] = isRunning[i]
  BY <1>1 DEF Local, Steps
<1>3. Alone /\ ~initFailed /\ row' = row
  BY <1>1, <1>2 DEF Alone, RowIsSound
<1>4. ~overtook[j] /\ ~initFailed'
  BY <1>2 DEF Alone
<1>5. \A i \in Instance : isRunning[i] => isRunning'[i]
  BY <1>1, <1>2
<1>6. \A i \in Instance \ {j} : Starting(i)' <=> Starting(i)
  BY <1>2 DEF Starting
<1>7. Up(j)' <=> Up(j)
  <2>1. CASE run[g].at = "called" /\ run'[g].at = "make" /\ isRunning'[j]
    BY <2>1 DEF Up, Starting, StartUp
  <2>2. CASE isRunning' = isRunning /\ run'[g].at \in StartUp /\ run[g].at \in StartUp
    BY <1>2, <2>2 DEF Up, Starting
  <2>3. CASE isRunning' = isRunning /\ run'[g].at \notin StartUp /\ run[g].at \notin StartUp
    BY <1>2, <2>3 DEF Up, Starting
  <2>4. CASE isRunning' = isRunning /\ run[g].at \in {"launch", "init"}
    BY <1>4, <2>4 DEF Up, Calm, StartingRuns
  <2> QED
    BY <1>1, <1>4, <2>1, <2>2, <2>3, <2>4
<1> QED
  BY <1>2, <1>3, <1>5, <1>6, <1>7 DEF Up

LEMMA SequentialAfterRunStep ==
  ASSUME Frame, Calm, Sequential, NEW g \in RunId, RunStep(g) \/ MonitorStep(g)
  PROVE  Sequential'
<1>1. RowIsSound'
  <2>1. /\ Local(g) /\ (initFailed => initFailed')
        /\ row' = row \/ row' = [row EXCEPT !.running = FALSE]
        /\ run'[g].at = "clear" => initFailed' \/ run[g].at = "clear"
    BY SetRunningStep, MakeChannelStep, LaunchStep, InitGridStep, ClearMarkStep,
       EndCycleStep, TickStep, StopSignalStep, MonitorStepFacts
    DEF RunStep, Framed, Looped, Monitored, Loop
  <2>2. row \in [exists : BOOLEAN, running : BOOLEAN]
    BY DEF Frame, TypeOK
  <2>3. row'.running => row'.exists
    BY <2>1, <2>2 DEF Sequential, RowIsSound
  <2>4. \A h \in RunId : run'[h].at = "clear" => initFailed'
    BY <2>1 DEF Sequential, RowIsSound, Local, Steps
  <2> QED
    BY <2>3, <2>4 DEF RowIsSound
<1>2. InTurn'
  <2> SUFFICES ASSUME Alone'
               PROVE  /\ \A r, q \in Request :
                           req'[r].at # "idle" /\ req'[q].at # "idle" => r = q
                      /\ (\A r \in Request : req'[r].at = "idle") => Agrees'
                      /\ \A r \in Request : Turn(r)'
    BY DEF InTurn
  <2>1. /\ Alone /\ row' = row /\ req' = req /\ current' = current
        /\ \A i \in Instance : isRunning[i] => isRunning'[i]
        /\ \A i \in Instance : Up(i)' <=> Up(i)
    BY UpKept DEF Sequential
  <2>2. current # None => current \in Instance
    BY MadeAreInstances DEF Frame
  <2>3. Agrees' <=> Agrees
    <3> SUFFICES ASSUME NEW i \in Instance, i = current
                 PROVE  Agrees' <=> Agrees
      BY <2>1, <2>2 DEF Agrees
    <3>1. (Up(current))' <=> Up(i)'
      BY <2>1 DEF Up, Starting
    <3> QED
      BY <2>1, <3>1 DEF Agrees
  <2>4. \A r \in Request : Turn(r)'
    <3> SUFFICES ASSUME NEW r \in Request, req[r].at # "idle"
                 PROVE  Turn(r)'
      BY <2>1 DEF Turn
    <3>1. Turn(r)
      BY <2>1 DEF Sequential, InTurn
    <3>2. current # None => (Up(current)' <=> Up(current))
      <4> SUFFICES ASSUME NEW i \in Instance, i = current
                   PROVE  Up(current)' <=> Up(current)
        BY <2>2
      <4> QED
        BY <2>1 DEF Up, Starting
    <3>3. req[r].op = "stop" /\ req[r].at = "unset" => current # None
      BY <3>1 DEF Turn, Frame, Placed
    <3>4. current # None /\ isRunning[current] => isRunning'[current]
      BY <2>1, <2>2
    <3> QED
      BY <2>1, <2>3, <3>1, <3>2, <3>3, <3>4 DEF Turn
  <2> QED
    BY <2>1, <2>3, <2>4 DEF Sequential, InTurn
<1> QED
  BY <1>1, <1>2 DEF Sequential

LEMMA RowSoundAfterRequestStep ==
  ASSUME Frame, RowIsSound, NEW r \in Request, RequestStep(r) \/ Begin(r)
  PROVE  RowIsSound'
<1>1. row \in [exists : BOOLEAN, running : BOOLEAN]
  BY DEF Frame, TypeOK
<1>2. CASE Begin(r)
  <2>1. UNCHANGED <<run, initFailed>>
        /\ (row' = row \/ row' = [exists |-> FALSE, running |-> FALSE])
    BY <1>2, BeginStep
  <2> QED
    BY <2>1 DEF RowIsSound
<1>3. CASE Mark(r)
  <2>1. UNCHANGED <<run, initFailed>>
        /\ row' = [row EXCEPT !.running = row.exists /\ req[r].at = "mark"]
    BY <1>3, MarkStep DEF Handled
  <2> DEFINE b == row.exists /\ req[r].at = "mark"
  <2>2. row' = [row EXCEPT !.running = b] /\ (b => row.exists)
    BY <2>1
  <2> HIDE DEF b
  <2>3. row'.running => row'.exists
    BY <1>1, <2>2
  <2> QED
    BY <2>1, <2>3 DEF RowIsSound
<1>4. CASE Get(r) \/ Remove(r) \/ Erase(r) \/ Unset(r) \/ CloseChannel(r) \/ Wait(r)
  BY <1>4, GetStep, RemoveStep, EraseStep, UnsetStep, CloseStep, WaitStep
  DEF Handled, manager, RowIsSound
<1>5. CASE Load(r) \/ GetAgain(r)
  <2>1. row' = row /\ initFailed' = initFailed
        /\ (run' = run \/ \E i \in Instance : Calls(i))
    BY <1>5, LoadStep, GetAgainStep DEF manager
  <2> QED
    BY <2>1 DEF Calls, RowIsSound
<1> QED
  BY <1>2, <1>3, <1>4, <1>5 DEF RequestStep

(* Requests neither undo an overtaking nor another request's coming.       *)
LEMMA StillAlone ==
  ASSUME Frame, NEW r \in Request, RequestStep(r) \/ Begin(r), Alone'
  PROVE  /\ Alone /\ Only(r)
         /\ req[r].at # "idle" \/ \A q \in Request : req[q].at = "idle"
<1>1. /\ \A i \in Instance : overtook[i] => overtook'[i]
      /\ initFailed' = initFailed
  BY RequestKeeps
<1>2. CASE Begin(r)
  <2>1. /\ Only(r)
        /\ overlapped' = (overlapped \/ \E q \in Request : req[q].at # "idle")
    BY <1>2, BeginStep DEF Only
  <2> QED
    BY <1>1, <2>1 DEF Alone
<1>3. CASE RequestStep(r)
  <2>1. Only(r) /\ overlapped' = overlapped
    BY <1>3, GetStep, RemoveStep, EraseStep, UnsetStep, CloseStep, WaitStep, MarkStep,
       LoadStep, GetAgainStep DEF RequestStep, Handled, Onward, Only
  <2>2. req[r].at # "idle"
    BY <1>3 DEF RequestStep, Get, Remove, Erase, Unset, CloseChannel, Wait, Load,
                GetAgain, Mark
  <2> QED
    BY <1>1, <2>1, <2>2 DEF Alone
<1> QED
  BY <1>2, <1>3

(* Up does not change while neither the marks nor the Runs do.             *)
LEMMA UpSame ==
  ASSUME UNCHANGED <<run, isRunning>>
  PROVE  \A i \in Nat : Up(i)' <=> Up(i)
BY DEF Up, Starting

LEMMA AgreesSame ==
  ASSUME Frame, UNCHANGED <<row, current, run, isRunning>>
  PROVE  Agrees' <=> Agrees
<1> SUFFICES ASSUME NEW i \in Nat, i = current
             PROVE  Agrees' <=> Agrees
  BY PerpAssumption DEF Frame, TypeOK
<1>1. Up(current)' <=> Up(i)
  BY DEF Up, Starting
<1> QED
  BY <1>1 DEF Agrees

LEMMA TurnAfterBegin ==
  ASSUME Frame, InTurn, Alone, NEW r \in Request, Begin(r),
         \A q \in Request : req[q].at = "idle"
  PROVE  Turn(r)' /\ req'[r].at # "idle"
<1>1. /\ ~req'[r].was /\ req'[r].at \in {"load", "get"}
      /\ req'[r].at = "load" => req'[r].op = "load"
      /\ req'[r].op \in {"start", "stop", "update"} => row'.exists
      /\ req'[r].op # "delete" => row' = row
      /\ UNCHANGED <<current, run, isRunning>>
  BY BeginStep DEF fields
<1>2. req'[r].op # "delete" => Agrees'
  BY <1>1, AgreesSame DEF InTurn
<1> QED
  BY <1>1, <1>2 DEF Turn

(* What a step of the lone request owes the next one.                      *)
Passes(r) == Turn(r)' /\ (req'[r].at = "idle" => Agrees')

LEMMA TurnAfterGet ==
  ASSUME Frame, NEW r \in Request, Turn(r), Get(r)
  PROVE  Passes(r)
<1>1. /\ Frame' /\ req[r].at = "get" /\ UNCHANGED <<row, current, run, isRunning>>
      /\ req'[r].at = AfterGet(req[r].op, current)
      /\ req'[r].at \in {"idle", "load", "remove", "unset"}
      /\ req'[r].at # "idle" => req'[r].op = req[r].op
      /\ req'[r].at = "unset" =>
           req'[r].got = current /\ current # None /\ isRunning[current]
      /\ req'[r].was => Running(current)
  BY GetStep DEF manager, fields
<1>2. req[r].op \in Op
  BY DEF Frame, TypeOK
<1>3. req[r].op # "delete" => Agrees'
  BY <1>1, AgreesSame DEF Turn
<1>4. CASE req'[r].at = "idle"
  <2>1. req[r].op # "delete"
    BY <1>1, <1>4 DEF AfterGet
  <2> QED
    BY <1>3, <1>4, <2>1 DEF Passes, Turn
<1>5. CASE req'[r].at # "idle"
  <2>1. req'[r].was => row'.running
    <3> SUFFICES ASSUME req'[r].was
                 PROVE  row'.running
      OBVIOUS
    <3>1. req'[r].op = "update"
      BY <1>1 DEF Frame, Placed
    <3>2. Agrees /\ Running(current)
      BY <1>1, <1>5, <3>1 DEF Turn
    <3> QED
      BY <1>1, <3>2 DEF Agrees, Running, Up
  <2>2. req'[r].at = "load" => current = None /\ req'[r].op # "load"
    BY <1>1, <1>2, <1>5 DEF AfterGet, Op
  <2>3. req'[r].op \in {"start", "stop", "update"} => row'.exists
    BY <1>1, <1>5 DEF Turn
  <2> QED
    BY <1>1, <1>5, <2>1, <2>2, <2>3 DEF Passes, Turn
<1> QED
  BY <1>4, <1>5

LEMMA TurnAfterRemove ==
  ASSUME Frame, NEW r \in Request, Turn(r), Remove(r) \/ Erase(r)
  PROVE  Passes(r)
<1>1. req[r].at \in {"remove", "erase"} /\ req[r].op # "stop" /\ row' = row
  BY RemoveStep, EraseStep DEF Frame, Placed
<1>2. CASE Remove(r) /\ Running(current)
  <2>1. Goes(r, "unset", current)
    BY <1>2, RemoveStep
  <2> QED
    BY <1>1, <2>1 DEF Goes, Passes, Turn
<1>3. CASE (Remove(r) /\ ~Running(current)) \/ Erase(r)
  <2>1. Goes(r, AfterRemove(r), req[r].got) /\ current' = None
    BY <1>3, RemoveStep, EraseStep
  <2>2. Agrees'
    BY <2>1 DEF Agrees
  <2>3. req'[r].at \in {"idle", "load"}
    BY <2>1 DEF Goes, AfterRemove
  <2> QED
    BY <1>1, <2>1, <2>2, <2>3 DEF Goes, Passes, Turn
<1> QED
  BY <1>2, <1>3

LEMMA TurnAfterStop ==
  ASSUME Frame, Calm, Alone, NEW r \in Request, Turn(r),
         Unset(r) \/ CloseChannel(r) \/ Wait(r)
  PROVE  Passes(r)
<1>1. /\ UNCHANGED <<row, current, run>> /\ req[r].got \in Instance
      /\ req[r].at \in {"unset", "close", "wait"}
  BY UnsetStep, CloseStep, WaitStep DEF manager, Handled
<1>2. ~overtook[req[r].got]
  BY <1>1 DEF Alone
<1>3. req[r].op = "stop" => mu # r
  BY PerpAssumption DEF Frame, Locked
<1>4. CASE Unset(r) /\ isRunning[req[r].got]
  <2>1. Goes(r, "close", req[r].got)
    BY <1>4, UnsetStep
  <2> QED
    BY <1>1, <2>1 DEF Goes, Passes, Turn
<1>5. CASE Unset(r) /\ ~isRunning[req[r].got]
  <2>1. Goes(r, AfterStop(r), req[r].got) /\ req[r].at = "unset"
    BY <1>5, UnsetStep
  <2>2. req[r].op # "stop"
    BY <1>5, <2>1 DEF Turn
  <2>3. req'[r].at \in {"erase", "remove"}
    BY <2>1, <2>2 DEF Goes, AfterStop
  <2> QED
    BY <1>1, <2>1, <2>2, <2>3 DEF Goes, Passes, Turn
<1>6. CASE CloseChannel(r)
  <2>1. req[r].at = "close"
    BY <1>6, CloseStep
  <2>2. ch[req[r].got] \notin closed[req[r].got]
    BY <1>2, <2>1 DEF Calm, ClosesOpen
  <2>3. Goes(r, "wait", req[r].got)
    BY <1>6, <2>2, CloseStep
  <2> QED
    BY <1>1, <2>3 DEF Goes, Passes, Turn
<1>7. CASE Wait(r)
  <2>1. Goes(r, AfterStop(r), req[r].got) /\ req[r].at = "wait" /\ isRunning' = isRunning
    BY <1>7, WaitStep DEF fields
  <2>2. CASE req[r].op = "stop"
    <3>1. req'[r].at = "unmark" /\ req[r].got = current
      BY <1>3, <2>1, <2>2 DEF Goes, AfterStop, Turn
    <3>2. ~Up(current)
      <4>1. Stopping(req[r].got)
        BY <2>1 DEF Stopping
      <4> QED
        BY <1>1, <1>2, <3>1, <4>1 DEF Calm, StopIsAlone, Up
    <3>3. ~Up(current)'
      BY <1>1, <2>1, <3>2 DEF Up, Starting
    <3> QED
      BY <1>1, <2>1, <2>2, <3>1, <3>3 DEF Goes, Passes, Turn
  <2>3. CASE req[r].op # "stop"
    <3>1. req'[r].at \in {"erase", "remove"}
      BY <2>1, <2>3 DEF Goes, AfterStop
    <3> QED
      BY <1>1, <2>1, <2>3, <3>1 DEF Goes, Passes, Turn
  <2> QED
    BY <2>2, <2>3
<1> QED
  BY <1>4, <1>5, <1>6, <1>7

LEMMA TurnAfterMark ==
  ASSUME Frame, NEW r \in Request, Turn(r), Mark(r)
  PROVE  Passes(r)
<1>1. /\ UNCHANGED <<current, run, isRunning>> /\ Goes(r, "idle", req[r].got)
      /\ row' = [row EXCEPT !.running = row.exists /\ req[r].at = "mark"]
      /\ req[r].at \in {"mark", "unmark"}
  BY MarkStep DEF Handled, fields
<1> DEFINE b == row.exists /\ req[r].at = "mark"
<1>2. row' = [row EXCEPT !.running = b] /\ row \in [exists : BOOLEAN, running : BOOLEAN]
      /\ (req[r].at = "unmark" => ~b) /\ (req[r].at = "mark" /\ row.exists => b)
  BY <1>1 DEF Frame, TypeOK
<1> HIDE DEF b
<1>3. row'.running <=> b
  BY <1>2
<1>4. Up(current)' <=> Up(current)
  BY <1>1 DEF Up, Starting
<1>5. /\ req[r].at = "mark" => row.exists /\ (current # None => Up(current))
      /\ req[r].at = "unmark" => (current # None => ~Up(current))
  BY DEF Turn, Frame, Placed
<1>6. Agrees'
  BY <1>1, <1>2, <1>3, <1>4, <1>5 DEF Agrees
<1>7. req'[r].at = "idle"
  BY <1>1 DEF Goes
<1> QED
  BY <1>6, <1>7 DEF Passes, Turn

LEMMA TurnAfterLoad ==
  ASSUME Frame, NEW r \in Request, Turn(r), Load(r)
  PROVE  Passes(r)
<1>1. /\ req[r].at = "load" /\ row' = row /\ isRunning' = isRunning
      /\ req[r].op \in {"start", "update", "load"}
      /\ Goes(r, IF req[r].op = "start" \/ req[r].was THEN "again" ELSE "idle",
              req[r].got)
  BY LoadStep DEF fields
<1>2. Agrees'
  <2>1. CASE UNCHANGED <<made, current, runs, run, overtook, returned>>
    <3>1. current = None => Agrees
      BY DEF Agrees
    <3>2. req[r].op # "load" => current = None
      BY <1>1 DEF Turn
    <3>3. req[r].op = "load" => Agrees
      BY <1>1 DEF Turn
    <3> QED
      BY <1>1, <2>1, <3>1, <3>2, <3>3, AgreesSame
  <2>2. CASE row.running /\ current' = made + 1 /\ Calls(made + 1)
    <3>1. \E g \in RunId : run'[g].of = current' /\ run'[g].at = "called"
      BY <2>2 DEF Calls
    <3>2. Up(current)'
      BY <3>1 DEF Up, Starting, StartUp
    <3> QED
      BY <1>1, <2>2, <3>2 DEF Agrees
  <2>3. CASE /\ ~row.running /\ current' = made + 1 /\ made + 1 \in Instance
             /\ UNCHANGED <<runs, run, overtook, returned>>
    <3>1. made \in Nat /\ made + 1 > made
      BY PerpAssumption DEF Frame, TypeOK
    <3>2. ~isRunning[made + 1]
      BY <2>3, <3>1 DEF Frame, Fresh
    <3>3. \A g \in RunId : run[g].of # made + 1 \/ run[g].at = "unused"
      BY <3>1, Known
    <3>4. ~Up(current)'
      BY <1>1, <2>3, <3>2, <3>3 DEF Up, Starting, StartUp
    <3> QED
      BY <1>1, <2>3, <3>4 DEF Agrees
  <2> QED
    BY <2>1, <2>2, <2>3, LoadStep
<1>3. req'[r].at \in {"again", "idle"}
  BY <1>1 DEF Goes
<1> QED
  BY <1>1, <1>2, <1>3 DEF Goes, Passes, Turn

LEMMA TurnAfterGetAgain ==
  ASSUME Frame, NEW r \in Request, Turn(r), GetAgain(r)
  PROVE  Passes(r)
<1>1. /\ req[r].at = "again" /\ UNCHANGED <<row, current, isRunning>>
      /\ (req[r].op = "start" \/ req[r].was)
  BY GetAgainStep DEF manager, fields, Frame, Placed
<1>2. CASE current = None /\ Goes(r, "idle", req[r].got)
  BY <1>1, <1>2 DEF Goes, Passes, Turn, Agrees
<1>3. CASE /\ current \in Instance /\ Calls(current)
           /\ Goes(r, IF req[r].op = "start" THEN "mark" ELSE "idle", req[r].got)
  <2>1. Up(current)'
    BY <1>1, <1>3 DEF Calls, Up, Starting, StartUp
  <2>2. CASE req[r].op = "start"
    BY <1>1, <1>3, <2>1, <2>2 DEF Goes, Passes, Turn
  <2>3. CASE req[r].op # "start"
    <3>1. row'.running /\ req'[r].at = "idle"
      BY <1>1, <1>3, <2>3 DEF Turn, Goes
    <3> QED
      BY <2>1, <3>1 DEF Passes, Turn, Agrees
  <2> QED
    BY <2>2, <2>3
<1> QED
  BY <1>2, <1>3, GetAgainStep

LEMMA SequentialAfterRequestStep ==
  ASSUME Frame, Calm, Sequential, NEW r \in Request, RequestStep(r) \/ Begin(r)
  PROVE  Sequential'
<1>1. RowIsSound'
  BY RowSoundAfterRequestStep DEF Sequential
<1>2. InTurn'
  <2>1. ASSUME Alone'
        PROVE  /\ Alone /\ Only(r) /\ Passes(r)
               /\ req[r].at # "idle" \/ \A q \in Request : req[q].at = "idle"
    <3>1. Alone /\ Only(r)
          /\ (req[r].at # "idle" \/ \A q \in Request : req[q].at = "idle")
      BY <2>1, StillAlone
    <3>2. Turn(r)
      BY <3>1 DEF Sequential, InTurn
    <3>3. CASE Begin(r)
      <4>1. req[r].at = "idle"
        BY <3>3, BeginStep
      <4> QED
        BY <3>1, <3>3, <4>1, TurnAfterBegin DEF Sequential, Passes
    <3>4. CASE RequestStep(r)
      BY <3>1, <3>2, <3>4, TurnAfterGet, TurnAfterRemove, TurnAfterStop, TurnAfterMark,
         TurnAfterLoad, TurnAfterGetAgain DEF RequestStep
    <3> QED
      BY <3>1, <3>3, <3>4
  <2>2. Only(r)
    <3>1. CASE Begin(r)
      BY <3>1, BeginStep DEF Only
    <3>2. CASE RequestStep(r)
      BY <3>2, GetStep, RemoveStep, EraseStep, UnsetStep, CloseStep, WaitStep, MarkStep,
         LoadStep, GetAgainStep DEF RequestStep, Handled, Onward, Only
    <3> QED
      BY <3>1, <3>2
  <2> QED
    BY <2>1, <2>2, TurnTaken DEF Sequential, Passes
<1> QED
  BY <1>1, <1>2 DEF Sequential

LEMMA StartedSequential ==
  Started => Sequential
<1> SUFFICES ASSUME Started
             PROVE  Sequential
  OBVIOUS
<1>1. /\ \A g \in RunId : run[g].at \in {"unused", "called"}
      /\ \A r \in Request : req[r].at = "idle"
      /\ row.running => row.exists
  BY StartedRuns DEF Started, Unused, Idle
<1>2. Agrees
  <2>1. 1 \in RunId /\ 1 \in Instance /\ ~isRunning[1]
    BY PerpAssumption DEF Started, RunId, Instance
  <2>2. row.running => Up(1)
    BY <2>1, StartedRuns DEF Up, Starting, StartUp
  <2>3. ~row.running => ~Up(1)
    BY <2>1, StartedRuns DEF Up, Starting, StartUp, Unused
  <2>4. current # None => current = 1
    BY DEF Started
  <2> QED
    BY <2>2, <2>3, <2>4 DEF Agrees
<1>3. RowIsSound
  BY <1>1 DEF RowIsSound
<1>4. InTurn
  BY <1>1, <1>2 DEF InTurn, Turn
<1> QED
  BY <1>3, <1>4 DEF Sequential

LEMMA SequentialAgrees ==
  ASSUME Frame, Sequential
  PROVE  RowAgrees
<1> SUFFICES ASSUME current # None, ~overlapped, ~initFailed,
                    \A r \in Request : req[r].at = "idle",
                    \A i \in Instance : ~overtook[i]
             PROVE  row.running = (isRunning[current] \/ Starting(current))
  BY DEF RowAgrees
<1>1. row.running <=> (isRunning[current] \/ Starting(current))
  BY DEF Sequential, InTurn, Alone, Agrees, Up
<1>2. row.running \in BOOLEAN
  BY DEF Frame, TypeOK
<1> QED
  BY <1>1, <1>2

-----------------------------------------------------------------------------
(* All of it, over every step.                                             *)

Order == Frame /\ Calm /\ Removal /\ Sequential /\ RunningIsServed /\ NeverClosesTwice

LEMMA StartedOrder ==
  Started => Order
<1> SUFFICES ASSUME Started
             PROVE  Order
  OBVIOUS
<1>1. RunningIsServed /\ NeverClosesTwice
  BY DEF Started, RunningIsServed, NeverClosesTwice
<1> QED
  BY <1>1, StartedFrame, StartedCalm, StartedRemoval, StartedSequential DEF Order

LEMMA OrderAfterRunStep ==
  ASSUME Order, NEW g \in RunId, RunStep(g) \/ MonitorStep(g)
  PROVE  Order'
<1>1. Frame'
  BY SetRunningStep, MakeChannelStep, LaunchStep, InitGridStep, ClearMarkStep,
     EndCycleStep, TickStep, StopSignalStep, MonitorStepFacts
  DEF RunStep, Order, Framed, Looped, Monitored
<1>2. NeverClosesTwice'
  <2>1. Local(g)
    BY SetRunningStep, MakeChannelStep, LaunchStep, InitGridStep, ClearMarkStep,
       EndCycleStep, TickStep, StopSignalStep, MonitorStepFacts
    DEF RunStep, Order, Framed, Looped, Monitored
  <2> QED
    BY <2>1 DEF Order, NeverClosesTwice, Local
<1> QED
  BY <1>1, <1>2, CalmAfterRunStep, RemovalAfterRunStep, SequentialAfterRunStep,
     ServedAfterRunStep DEF Order

LEMMA OrderAfterRequestStep ==
  ASSUME Order, NEW r \in Request, RequestStep(r) \/ Begin(r)
  PROVE  Order'
<1>1. Frame'
  BY GetStep, RemoveStep, EraseStep, UnsetStep, CloseStep, WaitStep, MarkStep,
     LoadStep, GetAgainStep, BeginStep DEF RequestStep, Order
<1> QED
  BY <1>1, CalmAfterRequestStep, RemovalAfterRequestStep, SequentialAfterRequestStep,
     ServedAfterRequestStep, TwiceAfterRequestStep DEF Order

LEMMA OrderUnchanged ==
  ASSUME Order, UNCHANGED vars
  PROVE  Order'
<1>1. UNCHANGED <<row, current, made, mu, isRunning, ch, closed, wg, runs, run, req,
                  returned, overtook, panicked, initFailed, overlapped, requests,
                  crashes>>
  BY DEF vars, manager, fields, history, counts
<1>2. TypeOK' /\ Fresh' /\ Placed' /\ Locked' /\ Numbered'
  BY <1>1 DEF Order, Frame, TypeOK, Fresh, Placed, Locked, Numbered
<1>3. Room' /\ WgCounts'
  BY <1>1 DEF Order, Frame, Room, WgCounts, Uncalled, Due, Loading, Members
<1>4. Calm'
  BY <1>1 DEF Order, Calm, StopIsAlone, OneStop, ClosesOpen, RunningIsOpen,
              StartingIsOpen, StartingRuns, LateIsAwaited, ToldIsAwaited, Stopped,
              Stopping, Starting, Busy
<1>5. Removal' /\ RunningIsServed' /\ NeverClosesTwice'
  BY <1>1 DEF Order, Removal, RemovedIsStill, RemoverIsSure, Starting, RunningIsServed,
              LiveRun, NeverClosesTwice
<1>6. Sequential'
  BY <1>1 DEF Order, Sequential, RowIsSound, InTurn, Alone, Agrees, Turn, Up, Starting
<1> QED
  BY <1>2, <1>3, <1>4, <1>5, <1>6 DEF Order, Frame

LEMMA OrderStep ==
  Order /\ [Next]_vars => Order'
<1> SUFFICES ASSUME Order, [Next]_vars
             PROVE  Order'
  OBVIOUS
<1>1. CASE \E g \in RunId : RunStep(g) \/ MonitorStep(g)
  BY <1>1, OrderAfterRunStep
<1>2. CASE \E r \in Request : Begin(r) \/ RequestStep(r)
  BY <1>2, OrderAfterRequestStep
<1>3. CASE Crash
  <2>1. Started'
    BY <1>3, CrashStarted DEF Order, Sequential, RowIsSound, RunningRowExists
  <2>2. Started => Order
    BY StartedOrder
  <2> QED
    BY <2>1, <2>2, StartedOrder, PTL
<1>4. CASE UNCHANGED vars
  BY <1>4, OrderUnchanged
<1> QED
  BY <1>1, <1>2, <1>3, <1>4 DEF Next

(* Order is what every state of every run of the system is in.             *)
THEOREM OrderKept == Spec => []Order
<1>1. Init => Order
  BY InitStarted, StartedOrder
<1> QED
  BY <1>1, OrderStep, PTL DEF Spec

(* Every variable keeps to its values, and Done never brings the wait      *)
(* group's counter below zero, where it panics.                            *)
THEOREM TypeCorrect == Spec => []TypeOK
<1>1. Order => TypeOK
  BY DEF Order, Frame
<1> QED
  BY <1>1, OrderKept, PTL

(* Stop waits for the goroutines of its trader: once one has returned, no  *)
(* cycle and no drawdown check is under way, unless it overtook a Run.     *)
THEOREM SilentOnceStoppedAlways == Spec => []SilentOnceStopped
<1>1. Order => SilentOnceStopped
  BY SilenceOfTheStopped DEF Order
<1> QED
  BY <1>1, OrderKept, PTL

(* RemoveTrader and the handlers leave no instance behind that still       *)
(* trades and that nobody can stop.                                        *)
THEOREM RemovedIsSilentAlways == Spec => []RemovedIsSilent
<1>1. Order => RemovedIsSilent
  BY SilenceOfTheRemoved DEF Order
<1> QED
  BY <1>1, OrderKept, PTL

(* However many requests stop the trader at once, no channel is closed a   *)
(* second time, unless a Stop overtook a Run.                              *)
THEOREM NeverClosesTwiceAlways == Spec => []NeverClosesTwice
<1>1. Order => NeverClosesTwice
  BY DEF Order
<1> QED
  BY <1>1, OrderKept, PTL

(* Start turns away only a trader that is being run.                       *)
THEOREM RunningIsServedAlways == Spec => []RunningIsServed
<1>1. Order => RunningIsServed
  BY DEF Order
<1> QED
  BY <1>1, OrderKept, PTL

(* Stop tells the order-sync loop of the trader's only Run.                *)
THEOREM SyncLoopsEndAlways == Spec => []SyncLoopsEnd
<1>1. Order => SyncLoopsEnd
  BY SyncLoopsAreTold DEF Order
<1> QED
  BY <1>1, OrderKept, PTL

(* With one request after the other the row says what the trader does.     *)
THEOREM RowAgreesAlways == Spec => []RowAgrees
<1>1. Order => RowAgrees
  BY SequentialAgrees DEF Order
<1> QED
  BY <1>1, OrderKept, PTL
=============================================================================
