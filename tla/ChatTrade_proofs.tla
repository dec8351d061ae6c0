-------------------------- MODULE ChatTrade_proofs --------------------------
(***************************************************************************)
(* Type correctness of ChatTrade, that a trade is ordered once, and that   *)
(* what is ordered is what was judged, for any number of requests, traders *)
(* and trades, any limits, and any way the world moves.                    *)
(***************************************************************************)
EXTENDS ChatTrade, TLAPS

Busy(r) == thread[r].at # "idle"
Proposing(r) == Busy(r) /\ thread[r].for = "propose"
Confirming(r) == Busy(r) /\ thread[r].for = "confirm"

(* Once a trader has been picked.                                          *)
Picked == {"quote", "judge", "add", "order"}

(* What a request that is under way works on.                              *)
JobOK(r) ==
  /\ Busy(r) => thread[r].id \in 1..made
  /\ Proposing(r) => thread[r].id \notin told /\ thread[r].at \notin {"remove", "order"}
  /\ Confirming(r) => thread[r].id \in told /\ thread[r].at # "add"
  /\ thread[r].at \in Picked => thread[r].on \in Trader

Jobs == \A r \in Thread : JobOK(r)

(* No two requests propose the same trade.                                 *)
Apart == \A q, r \in Thread :
           q # r /\ Proposing(q) /\ Proposing(r) => thread[q].id # thread[r].id

Types == TypeOK /\ Jobs /\ Apart

TradeType == [kind : Kind, qty : Nat, at : 0..LastTime, large : BOOLEAN]

LEMMA Blanks ==
  /\ Idle \in Job /\ Idle.at = "idle" /\ Idle.calm = FALSE
  /\ Blank \in TradeType
  /\ Nobody \in Trader \union {Nobody}
  BY ChatBounds DEF Idle, Job, Blank, TradeType, Kind

(* A job with its step, trader or price set, or no longer calm, is a job.  *)
LEMMA JobFields ==
  ASSUME NEW j \in Job
  PROVE  /\ \A x \in Trader, s \in Picked : [j EXCEPT !.on = x, !.at = s] \in Job
         /\ \A q \in Nat : [j EXCEPT !.at = "judge", !.quote = q] \in Job
         /\ \A s \in Picked \union {"resolve"} : [j EXCEPT !.at = s] \in Job
         /\ [j EXCEPT !.calm = FALSE] \in Job
  BY DEF Job, Picked

LEMMA TypesInit == Init => Types
<1> SUFFICES ASSUME Init PROVE Types
  OBVIOUS
<1>1. TypeOK
  BY ChatBounds, Blanks DEF Init, TypeOK, TradeType, Id
<1>2. Jobs
  BY Blanks DEF Init, Jobs, JobOK, Busy, Proposing, Confirming, Picked
<1>3. Apart
  BY Blanks DEF Init, Apart, Proposing, Busy
<1> QED
  BY <1>1, <1>2, <1>3 DEF Types

(* A request that takes a step becomes a job of its type again, and leaves *)
(* the others alone.                                                       *)
LEMMA StepTypes ==
  ASSUME Types, NEW r \in Thread, Step(r)
  PROVE  TypeOK'
<1> USE DEF Types
<1>1. thread[r] \in Job /\ thread \in [Thread -> Job]
  BY DEF TypeOK
<1>2. JobOK(r)
  BY DEF Jobs
<1>3. price \in Nat
  BY ChatAssumption DEF TypeOK
<1>0. thread[r].id \in Id
  <2>1. Busy(r)
    BY DEF Busy, Step, Resolve, Quote, Judge, Add, Remove, Order, Doing
  <2> QED
    BY <1>2, <2>1, ChatBounds DEF JobOK, TypeOK, Id
<1>4. CASE Resolve(r)
  <2>1. thread' \in [Thread -> Job]
    <3>1. CASE End(r)
      BY <1>1, <3>1, Blanks DEF End
    <3>2. CASE \E x \in running : thread' = [thread EXCEPT ![r] = [@ EXCEPT !.on = x,
                 !.at = IF Trade(r).kind = "open" THEN "quote" ELSE Goal(r)]]
      <4>1. PICK x \in running : thread' = [thread EXCEPT ![r] =
                [thread[r] EXCEPT !.on = x,
                   !.at = IF Trade(r).kind = "open" THEN "quote" ELSE Goal(r)]]
        BY <3>2
      <4>2. /\ x \in Trader
            /\ (IF Trade(r).kind = "open" THEN "quote" ELSE Goal(r)) \in Picked
        BY DEF TypeOK, Goal, Picked
      <4> QED
        BY <1>1, <4>1, <4>2, JobFields
    <3> QED
      BY <1>4, <3>1, <3>2 DEF Resolve
  <2>2. judgedOn' \in [Id -> Trader \union {Nobody}]
    BY <1>4 DEF Resolve, TypeOK
  <2> QED
    BY <1>4, <2>1, <2>2 DEF Resolve, TypeOK, world, book, counts
<1>5. CASE Quote(r)
  <2>1. thread' \in [Thread -> Job]
    BY <1>1, <1>3, <1>5, Blanks, JobFields DEF Quote, End
  <2> QED
    BY <1>5, <2>1 DEF Quote, TypeOK, world, book, notes, counts
<1>6. CASE Judge(r)
  <2>1. thread' \in [Thread -> Job]
    <3>1. End(r) \/ Go(r, Goal(r))
      BY <1>6 DEF Judge
    <3>2. Goal(r) \in Picked
      BY DEF Goal, Picked
    <3>3. CASE End(r)
      BY <1>1, <3>3, Blanks DEF End
    <3>4. CASE Go(r, Goal(r))
      <4>1. [thread[r] EXCEPT !.at = Goal(r)] \in Job
        BY <1>1, <3>2, JobFields
      <4> QED
        BY <1>1, <3>4, <4>1 DEF Go
    <3> QED
      BY <3>1, <3>3, <3>4
  <2>2. trade' \in [Id -> TradeType]
    <3>1. trade' \in {trade, [trade EXCEPT ![thread[r].id].large = TRUE]}
      BY <1>6 DEF Judge
    <3>2. trade \in [Id -> TradeType]
      BY DEF TypeOK, TradeType
    <3>3. \A t \in TradeType : [t EXCEPT !.large = TRUE] \in TradeType
      BY DEF TradeType
    <3> QED
      BY <1>0, <3>1, <3>2, <3>3
  <2> QED
    BY <1>6, <2>1, <2>2 DEF Judge, TypeOK, world, notes, counts, TradeType
<1>7. CASE Add(r)
  <2>1. thread' \in [Thread -> Job]
    BY <1>1, <1>7, Blanks DEF Add, End, TypeOK
  <2>2. pending' \subseteq told' /\ told' \subseteq 1..made /\ contested \subseteq told'
    BY <1>2, <1>7 DEF Add, Kept, TypeOK, Doing, JobOK, Busy
  <2> QED
    BY <1>7, <2>1, <2>2 DEF Add, TypeOK, world, counts
<1>8. CASE Remove(r)
  <2>1. thread' \in [Thread -> Job]
    BY <1>1, <1>8 DEF Remove, Go, Job, TypeOK
  <2> QED
    BY <1>8, <2>1 DEF Remove, TypeOK, world, notes, counts
<1>9. CASE Order(r)
  <2>1. thread' \in [Thread -> Job]
    BY <1>1, <1>9, Blanks DEF Order, End, TypeOK
  <2>2. orders' \in [Id -> Nat]
    <3>1. orders \in [Id -> Nat]
      BY DEF TypeOK
    <3>2. orders' = [orders EXCEPT ![thread[r].id] = orders[thread[r].id] + 1]
      BY <1>9 DEF Order
    <3> QED
      BY <1>0, <3>1, <3>2
  <2> QED
    BY <1>9, <2>1, <2>2 DEF Order, TypeOK, world, book, counts
<1> QED
  BY <1>4, <1>5, <1>6, <1>7, <1>8, <1>9 DEF Step

LEMMA RequestTypes ==
  ASSUME Types, NEW r \in Thread, Propose(r) \/ Confirm(r)
  PROVE  TypeOK'
<1> USE DEF Types
<1>1. thread \in [Thread -> Job]
  BY DEF TypeOK
<1>2. CASE Propose(r)
  <2>1. made + 1 \in Id /\ made' = made + 1 /\ made' \in 0..MaxTrades
    BY <1>2, ChatBounds DEF Propose, TypeOK, Id
  <2>2. thread' \in [Thread -> Job]
    BY <1>1, <1>2, <2>1, Blanks DEF Propose, Job, TypeOK, Idle, Id
  <2>3. PICK kind \in Kind, qty \in Quantity :
          trade' = [trade EXCEPT ![made + 1] =
                      [kind |-> kind, qty |-> qty, at |-> now, large |-> FALSE]]
    BY <1>2 DEF Propose
  <2>4. [kind |-> kind, qty |-> qty, at |-> now, large |-> FALSE] \in TradeType
    BY ChatAssumption DEF TypeOK, TradeType
  <2>5. trade' \in [Id -> TradeType]
    BY <2>3, <2>4 DEF TypeOK, TradeType
  <2>6. told \subseteq 1..made' /\ still' \subseteq 1..made'
    BY <1>2, <2>1 DEF Propose, TypeOK, Id
  <2> QED
    BY <1>2, <2>1, <2>2, <2>5, <2>6 DEF Propose, TypeOK, TradeType, world, counts
<1>3. CASE Confirm(r)
  <2>1. PICK i \in pending, loud \in BOOLEAN :
          /\ contested' = IF Held(i) THEN contested \union {i} ELSE contested
          /\ thread' = [thread EXCEPT ![r] =
               [Idle EXCEPT !.at = "remove", !.for = "confirm", !.id = i,
                            !.loud = loud, !.calm = TRUE]]
    BY <1>3 DEF Confirm
  <2>2. i \in told /\ i \in 0..MaxTrades
    BY ChatBounds DEF TypeOK
  <2>3. thread' \in [Thread -> Job] /\ contested' \subseteq told
    BY <1>1, <2>1, <2>2, Blanks DEF Job, TypeOK, Idle
  <2> QED
    BY <1>3, <2>3 DEF Confirm, TypeOK, world, book, counts
<1> QED
  BY <1>2, <1>3

LEMMA WorldTypes ==
  ASSUME Types, Tick \/ Move \/ HourlyClean \/ Crash
  PROVE  TypeOK'
<1> USE DEF Types
<1>1. CASE Tick
  BY <1>1, ChatBounds DEF Tick, TypeOK, world, book, notes, counts
<1>2. CASE Move
  <2>1. thread' \in [Thread -> Job]
    BY <1>2, JobFields DEF Move, TypeOK
  <2>2. price' \in Price /\ equity' \in [Trader -> Equity] /\ running' \subseteq Trader
    BY <1>2 DEF Move, TypeOK
  <2>3. moves' \in 0..MaxMoves
    BY <1>2, ChatBounds DEF Move, TypeOK
  <2> QED
    BY <1>2, <2>1, <2>2, <2>3 DEF Move, TypeOK, book
<1>3. CASE HourlyClean
  BY <1>3 DEF HourlyClean, Kept, TypeOK, world, notes, counts
<1>4. CASE Crash
  BY <1>4, ChatBounds, Blanks DEF Crash, TypeOK, world, notes
<1> QED
  BY <1>1, <1>2, <1>3, <1>4

-----------------------------------------------------------------------------
(* How the steps of a request change its job.                              *)

Others(r) == \A q \in Thread \ {r} : thread'[q] = thread[q]

LEMMA Put ==
  ASSUME TypeOK, NEW r \in Thread, NEW j, thread' = [thread EXCEPT ![r] = j]
  PROVE  Others(r) /\ thread'[r] = j
  BY DEF TypeOK, Others

LEMMA Gone ==
  ASSUME TypeOK, NEW r \in Thread, NEW s, Go(r, s)
  PROVE  Others(r) /\ thread'[r] = [thread[r] EXCEPT !.at = s]
<1>1. thread' = [thread EXCEPT ![r] = [thread[r] EXCEPT !.at = s]]
  BY DEF Go
<1> QED
  BY <1>1, Put

LEMMA Ended ==
  ASSUME TypeOK, NEW r \in Thread, End(r)
  PROVE  Others(r) /\ thread'[r] = Idle
  BY Put DEF End

(* A step leaves a request idle, or goes on with the same trade.           *)
LEMMA StepKeepsJob ==
  ASSUME Types, NEW r \in Thread, Step(r)
  PROVE  /\ Others(r) /\ Busy(r)
         /\ \/ thread'[r] = Idle
            \/ /\ thread'[r].id = thread[r].id /\ thread'[r].for = thread[r].for
               /\ thread'[r].loud = thread[r].loud /\ thread'[r].calm = thread[r].calm
               /\ thread'[r].at \in Picked \union {"resolve"}
<1>1. thread[r] \in Job /\ thread \in [Thread -> Job]
  BY DEF Types, TypeOK
<1>2. Busy(r)
  BY DEF Busy, Step, Resolve, Quote, Judge, Add, Remove, Order, Doing
<1>3. TypeOK
  BY DEF Types
<1>4. CASE End(r)
  BY <1>2, <1>3, <1>4, Ended
<1>5. ASSUME NEW s \in Picked \union {"resolve"}, Go(r, s)
      PROVE  /\ Others(r)
             /\ thread'[r].id = thread[r].id /\ thread'[r].for = thread[r].for
             /\ thread'[r].loud = thread[r].loud /\ thread'[r].calm = thread[r].calm
             /\ thread'[r].at \in Picked \union {"resolve"}
  <2>1. Others(r) /\ thread'[r] = [thread[r] EXCEPT !.at = s]
    BY <1>3, <1>5, Gone
  <2> QED
    BY <1>1, <2>1 DEF Job
<1>6. Goal(r) \in Picked
  BY DEF Goal, Picked
<1>7. CASE Resolve(r) /\ ~End(r)
  <2>1. PICK x \in running : thread' = [thread EXCEPT ![r] = [thread[r] EXCEPT !.on = x,
               !.at = IF Trade(r).kind = "open" THEN "quote" ELSE Goal(r)]]
    BY <1>7 DEF Resolve
  <2>2. Others(r) /\ thread'[r] = [thread[r] EXCEPT !.on = x,
               !.at = IF Trade(r).kind = "open" THEN "quote" ELSE Goal(r)]
    BY <1>3, <2>1, Put
  <2>3. (IF Trade(r).kind = "open" THEN "quote" ELSE Goal(r)) \in Picked
    BY <1>6 DEF Picked
  <2> QED
    BY <1>1, <1>2, <2>2, <2>3 DEF Job
<1>8. CASE Quote(r) /\ ~End(r)
  <2>1. thread' = [thread EXCEPT ![r] = [thread[r] EXCEPT !.at = "judge", !.quote = price]]
    BY <1>8 DEF Quote
  <2>2. Others(r)
        /\ thread'[r] = [thread[r] EXCEPT !.at = "judge", !.quote = price]
    BY <1>3, <2>1, Put
  <2> QED
    BY <1>1, <1>2, <2>2 DEF Job, Picked
<1>9. CASE Judge(r) \/ Add(r) \/ Remove(r) \/ Order(r)
  <2>1. End(r) \/ Go(r, Goal(r)) \/ Go(r, "resolve")
    BY <1>9 DEF Judge, Add, Remove, Order
  <2> QED
    BY <1>2, <1>4, <1>5, <1>6, <2>1
<1> QED
  BY <1>4, <1>7, <1>8, <1>9 DEF Step

(* A request that goes on has a trader once it needs one, and proposes or  *)
(* orders according to what it is for.                                     *)
LEMMA StepGoesOn ==
  ASSUME Types, NEW r \in Thread, Step(r), thread'[r].at # "idle"
  PROVE  /\ thread'[r].at \in Picked => thread'[r].on \in Trader
         /\ thread[r].for = "propose" => thread'[r].at # "order"
         /\ thread[r].for = "confirm" => thread'[r].at # "add"
<1>1. thread[r] \in Job /\ TypeOK /\ JobOK(r)
  BY DEF Types, Jobs, TypeOK
<1>2. ~End(r)
  BY <1>1, Ended, Blanks
<1>3. CASE Resolve(r)
  <2>1. PICK x \in running : thread' = [thread EXCEPT ![r] = [thread[r] EXCEPT !.on = x,
               !.at = IF Trade(r).kind = "open" THEN "quote" ELSE Goal(r)]]
    BY <1>2, <1>3 DEF Resolve
  <2>2. thread'[r] = [thread[r] EXCEPT !.on = x,
               !.at = IF Trade(r).kind = "open" THEN "quote" ELSE Goal(r)]
    BY <1>1, <2>1, Put
  <2>3. x \in Trader
    BY <1>1 DEF TypeOK
  <2> QED
    BY <1>1, <2>2, <2>3 DEF Job, Goal
<1>4. CASE Quote(r)
  <2>1. thread' = [thread EXCEPT ![r] = [thread[r] EXCEPT !.at = "judge", !.quote = price]]
    BY <1>2, <1>4 DEF Quote
  <2>2. thread'[r] = [thread[r] EXCEPT !.at = "judge", !.quote = price]
    BY <1>1, <2>1, Put
  <2>3. thread[r].on \in Trader
    BY <1>1, <1>4 DEF JobOK, Quote, Doing, Picked
  <2> QED
    BY <1>1, <2>2, <2>3 DEF Job
<1>5. CASE Judge(r)
  <2>1. Go(r, Goal(r))
    BY <1>2, <1>5 DEF Judge
  <2>2. thread'[r] = [thread[r] EXCEPT !.at = Goal(r)]
    BY <1>1, <2>1, Gone
  <2>3. thread[r].on \in Trader
    BY <1>1, <1>5 DEF JobOK, Judge, Doing, Picked
  <2> QED
    BY <1>1, <2>2, <2>3 DEF Job, Goal
<1>6. CASE Remove(r)
  <2>1. thread'[r] = [thread[r] EXCEPT !.at = "resolve"]
    BY <1>1, <1>6, Gone DEF Remove
  <2> QED
    BY <1>1, <2>1 DEF Job, Picked
<1> QED
  BY <1>2, <1>3, <1>4, <1>5, <1>6 DEF Step, Add, Order

LEMMA StepJobs ==
  ASSUME Types, NEW r \in Thread, Step(r)
  PROVE  Jobs' /\ Apart'
<1>1. made' = made
  BY DEF Step, Resolve, Quote, Judge, Add, Remove, Order, book
<1>2. told' = told \/ (Proposing(r) /\ told' = told \union {thread[r].id}
                       /\ thread'[r] = Idle)
  <2>1. CASE Add(r)
    <3>1. thread[r].for \in {"propose", "confirm"} /\ JobOK(r) /\ TypeOK
      BY DEF Types, TypeOK, Job, Jobs
    <3>2. Proposing(r)
      BY <2>1, <3>1 DEF Add, Doing, JobOK, Confirming, Proposing, Busy
    <3> QED
      BY <2>1, <3>1, <3>2, Ended DEF Add
  <2>2. CASE ~Add(r)
    BY <2>2 DEF Step, Resolve, Quote, Judge, Remove, Order, notes
  <2> QED
    BY <2>1, <2>2
<1>3. Others(r) /\ Busy(r)
      /\ \/ thread'[r] = Idle
         \/ /\ thread'[r].id = thread[r].id /\ thread'[r].for = thread[r].for
            /\ thread'[r].at \in Picked \union {"resolve"}
  BY StepKeepsJob
<1>4. JobOK(r)'
  <2>1. CASE thread'[r] = Idle
    BY <2>1, Blanks DEF JobOK, Busy, Proposing, Confirming, Picked
  <2>2. CASE thread'[r] # Idle
    <3>1. told' = told
      BY <1>2, <2>2
    <3>2. JobOK(r)
      BY DEF Types, Jobs
    <3>3. thread'[r].at # "idle"
      BY <1>3, <2>2 DEF Picked
    <3> QED
      BY <1>1, <1>3, <2>2, <3>1, <3>2, <3>3, StepGoesOn
      DEF JobOK, Busy, Proposing, Confirming, Picked
  <2> QED
    BY <2>1, <2>2
<1>5. ASSUME NEW q \in Thread \ {r} PROVE JobOK(q)'
  <2>1. JobOK(q) /\ thread'[q] = thread[q]
    BY <1>3 DEF Types, Jobs, Others
  <2>2. Proposing(q) /\ Proposing(r) => thread[q].id # thread[r].id
    BY DEF Types, Apart
  <2> QED
    BY <1>1, <1>2, <2>1, <2>2 DEF JobOK, Busy, Proposing, Confirming
<1>6. Apart'
  BY <1>3, Blanks DEF Types, Apart, Proposing, Busy, Others
<1> QED
  BY <1>4, <1>5, <1>6 DEF Jobs

(* What a request starts with.                                             *)
LEMMA Proposed ==
  ASSUME TypeOK, NEW r \in Thread, Propose(r)
  PROVE  /\ Others(r) /\ made' = made + 1 /\ told' = told
         /\ thread'[r] = [Idle EXCEPT !.at = "resolve", !.id = made + 1, !.calm = TRUE]
         /\ thread'[r].at = "resolve" /\ thread'[r].id = made + 1
         /\ thread'[r].for = "propose"
<1>1. thread' = [thread EXCEPT ![r] =
                  [Idle EXCEPT !.at = "resolve", !.id = made + 1, !.calm = TRUE]]
  BY DEF Propose
<1>2. /\ Others(r)
      /\ thread'[r] = [Idle EXCEPT !.at = "resolve", !.id = made + 1, !.calm = TRUE]
  BY <1>1, Put
<1> QED
  BY <1>2 DEF Propose, Idle

LEMMA Confirmed ==
  ASSUME TypeOK, NEW r \in Thread, Confirm(r)
  PROVE  \E i \in pending, loud \in BOOLEAN :
           /\ Accepted(i, loud)
           /\ contested' = IF Held(i) THEN contested \union {i} ELSE contested
           /\ Others(r) /\ thread'[r].id = i /\ thread'[r].loud = loud
           /\ thread'[r].at = "remove" /\ thread'[r].for = "confirm"
           /\ thread'[r].calm = TRUE
<1>1. PICK i \in pending, loud \in BOOLEAN :
        /\ Accepted(i, loud)
        /\ contested' = IF Held(i) THEN contested \union {i} ELSE contested
        /\ thread' = [thread EXCEPT ![r] =
             [Idle EXCEPT !.at = "remove", !.for = "confirm", !.id = i,
                          !.loud = loud, !.calm = TRUE]]
  BY DEF Confirm
<1>2. Others(r) /\ thread'[r] = [Idle EXCEPT !.at = "remove", !.for = "confirm",
                                             !.id = i, !.loud = loud, !.calm = TRUE]
  BY <1>1, Put
<1>3. /\ thread'[r].id = i /\ thread'[r].loud = loud
      /\ thread'[r].at = "remove" /\ thread'[r].for = "confirm"
      /\ thread'[r].calm = TRUE
  BY <1>2 DEF Idle
<1> QED
  BY <1>1, <1>2, <1>3

LEMMA RequestJobs ==
  ASSUME Types, NEW r \in Thread, Propose(r) \/ Confirm(r)
  PROVE  Jobs' /\ Apart'
<1>1. CASE Propose(r)
  <2>1. /\ Others(r) /\ made' = made + 1 /\ told' = told /\ made \in Nat
        /\ thread'[r].at = "resolve" /\ thread'[r].id = made + 1
        /\ thread'[r].for = "propose" /\ told \subseteq 1..made
    BY <1>1, Proposed, ChatBounds DEF Types, TypeOK
  <2>2. ASSUME NEW q \in Thread PROVE JobOK(q)'
    <3>1. CASE q = r
      BY <2>1, <3>1 DEF JobOK, Busy, Proposing, Confirming, Picked
    <3>2. CASE q # r
      BY <2>1, <3>2 DEF Types, Jobs, JobOK, Busy, Proposing, Confirming, Others
    <3> QED
      BY <3>1, <3>2
  <2>3. \A q \in Thread : Busy(q) => thread[q].id # made + 1
    BY <2>1 DEF Types, Jobs, JobOK
  <2>4. Apart'
    BY <2>1, <2>3 DEF Types, Apart, Proposing, Busy, Others
  <2> QED
    BY <2>2, <2>4 DEF Jobs
<1>2. CASE Confirm(r)
  <2>1. /\ Others(r) /\ thread'[r].at = "remove" /\ thread'[r].for = "confirm"
        /\ thread'[r].id \in told /\ told \subseteq 1..made
        /\ made' = made /\ told' = told
    BY <1>2, Confirmed DEF Types, TypeOK, Confirm, book
  <2>2. ASSUME NEW q \in Thread PROVE JobOK(q)'
    <3>1. CASE q = r
      BY <2>1, <3>1 DEF JobOK, Busy, Proposing, Confirming, Picked
    <3>2. CASE q # r
      BY <2>1, <3>2 DEF Types, Jobs, JobOK, Busy, Proposing, Confirming, Others
    <3> QED
      BY <3>1, <3>2
  <2>3. Apart'
    BY <2>1 DEF Types, Apart, Proposing, Busy, Others
  <2> QED
    BY <2>2, <2>3 DEF Jobs
<1> QED
  BY <1>1, <1>2

(* When the world moves, every job stays but for its calm, and a crash     *)
(* ends them all.                                                          *)
LEMMA WorldJobs ==
  ASSUME Types, Tick \/ Move \/ HourlyClean \/ Crash
  PROVE  Jobs' /\ Apart'
<1>1. made' = made /\ told' = told
  BY DEF Tick, Move, HourlyClean, Crash, book, notes
<1>2. CASE Tick \/ HourlyClean
  <2>1. thread' = thread
    BY <1>2 DEF Tick, HourlyClean
  <2> QED
    BY <1>1, <2>1 DEF Types, Jobs, Apart, JobOK, Busy, Proposing, Confirming
<1>3. CASE Move
  <2>1. ASSUME NEW q \in Thread
        PROVE  /\ thread'[q].at = thread[q].at /\ thread'[q].for = thread[q].for
               /\ thread'[q].id = thread[q].id /\ thread'[q].on = thread[q].on
    BY <1>3 DEF Move, Types, TypeOK, Job
  <2> QED
    BY <1>1, <2>1 DEF Types, Jobs, Apart, JobOK, Busy, Proposing, Confirming
<1>4. CASE Crash
  <2>1. \A q \in Thread : thread'[q] = Idle
    BY <1>4 DEF Crash
  <2> QED
    BY <2>1, Blanks DEF Jobs, Apart, JobOK, Busy, Proposing, Confirming, Picked
<1> QED
  BY <1>2, <1>3, <1>4

LEMMA TypesNext == Types /\ [Next]_vars => Types'
<1> SUFFICES ASSUME Types, [Next]_vars PROVE Types'
  OBVIOUS
<1>1. CASE \E r \in Thread : Step(r)
  BY <1>1, StepTypes, StepJobs DEF Types
<1>2. CASE \E r \in Thread : Propose(r) \/ Confirm(r)
  BY <1>2, RequestTypes, RequestJobs DEF Types
<1>3. CASE Tick \/ Move \/ HourlyClean \/ Crash
  BY <1>3, WorldTypes, WorldJobs DEF Types
<1>4. CASE UNCHANGED vars
  BY <1>4 DEF Types, TypeOK, Jobs, Apart, JobOK, Busy, Proposing, Confirming, vars,
     world, book, notes, counts
<1> QED
  BY <1>1, <1>2, <1>3, <1>4 DEF Next

(* Every variable keeps to its values: what is pending was shown to the    *)
(* user, and what two confirmations held had been shown too.               *)
THEOREM TypeCorrect == Spec => []TypeOK
<1>1. Types => TypeOK
  BY DEF Types
<1> QED
  BY <1>1, TypesInit, TypesNext, PTL DEF Spec

-----------------------------------------------------------------------------
(* A trade is ordered once.                                                *)

Holding(r, i) == Confirming(r) /\ thread[r].id = i

(* A trade that was not looked up twice is held by one confirmation at     *)
(* most, is no longer pending once that one has removed it, and once it    *)
(* has been ordered is neither held nor pending.                           *)
Single(i) ==
  i \notin contested =>
    /\ orders[i] <= 1
    /\ orders[i] > 0 => /\ i \in told \ pending
                        /\ \A r \in Thread : ~Holding(r, i)
    /\ \A q, r \in Thread : Holding(q, i) /\ Holding(r, i) => q = r
    /\ \A r \in Thread : Holding(r, i) /\ thread[r].at # "remove" => i \notin pending

Singly == \A i \in Id : Single(i)

(* A step of a request keeps the holders apart.                            *)
LEMMA StepSingle ==
  ASSUME Types, Singly, NEW r \in Thread, Step(r), NEW i \in Id
  PROVE  Single(i)'
<1>1. /\ Others(r) /\ Busy(r)
      /\ \/ thread'[r] = Idle
         \/ /\ thread'[r].id = thread[r].id /\ thread'[r].for = thread[r].for
            /\ thread'[r].at \in Picked \union {"resolve"}
  BY StepKeepsJob
<1>2. JobOK(r) /\ Single(i) /\ TypeOK /\ thread[r] \in Job
  BY DEF Types, TypeOK, Jobs, Singly
<1>3. \A q \in Thread : Holding(q, i)' => Holding(q, i)
  BY <1>1, Blanks DEF Holding, Confirming, Busy, Others
<1>4. \A q \in Thread : Holding(q, i)' /\ q # r => thread'[q].at = thread[q].at
  BY <1>1 DEF Others
<1>5. contested' = contested
  BY DEF Step, Resolve, Quote, Judge, Add, Remove, Order, notes
<1>6. CASE Order(r)
  <2>1. /\ pending' = pending /\ told' = told /\ thread'[r] = Idle
        /\ orders' = [orders EXCEPT ![thread[r].id] = orders[thread[r].id] + 1]
    BY <1>2, <1>6, Ended DEF Order, book
  <2>2. Holding(r, thread[r].id) /\ thread[r].at = "order" /\ thread[r].id \in told
    BY <1>2, <1>6 DEF Order, Doing, JobOK, Busy, Proposing, Confirming, Holding, Job
  <2>3. CASE i = thread[r].id
    <3>1. ASSUME i \notin contested
          PROVE  /\ orders[i] = 0 /\ i \notin pending
                 /\ \A q \in Thread : Holding(q, i) => q = r
      BY <1>2, <2>2, <2>3, <3>1 DEF Single, TypeOK
    <3>2. ~Holding(r, i)'
      BY <2>1, Blanks DEF Holding, Confirming, Busy
    <3>3. i \notin contested => orders'[i] = 1
      BY <1>2, <2>1, <2>3, <3>1 DEF TypeOK
    <3> QED
      BY <1>3, <1>5, <2>1, <2>2, <2>3, <3>1, <3>2, <3>3 DEF Single
  <2>4. CASE i # thread[r].id
    <3>1. orders'[i] = orders[i]
      BY <1>2, <2>1, <2>4 DEF TypeOK
    <3>2. \A q \in Thread : Holding(q, i)' => q # r
      BY <2>1, Blanks DEF Holding, Confirming, Busy
    <3> QED
      BY <1>2, <1>3, <1>4, <1>5, <2>1, <3>1, <3>2 DEF Single
  <2> QED
    BY <2>3, <2>4
<1>7. CASE Add(r)
  <2>1. /\ orders' = orders /\ told' = told \union {thread[r].id}
        /\ pending' \subseteq pending \union {thread[r].id} /\ thread'[r] = Idle
    BY <1>2, <1>7, Ended DEF Add, Kept
  <2>2. Proposing(r) /\ thread[r].id \notin told
    BY <1>2, <1>7 DEF Add, Doing, JobOK, Busy, Proposing, Confirming, Job
  <2>3. \A q \in Thread : Holding(q, i) => i \in told
    BY DEF Types, Jobs, JobOK, Holding
  <2>4. \A q \in Thread : Holding(q, i)' => q # r
    BY <2>1, Blanks DEF Holding, Confirming, Busy
  <2> QED
    BY <1>2, <1>3, <1>4, <1>5, <2>1, <2>2, <2>3, <2>4 DEF Single
<1>8. CASE Remove(r)
  <2>1. orders' = orders /\ told' = told /\ pending' = pending \ {thread[r].id}
    BY <1>8 DEF Remove, notes
  <2>2. Holding(r, i)' => i \notin pending'
    BY <1>1, <2>1, Blanks DEF Holding, Confirming, Busy
  <2> QED
    BY <1>2, <1>3, <1>4, <1>5, <2>1, <2>2 DEF Single
<1>9. CASE Resolve(r) \/ Quote(r) \/ Judge(r)
  <2>1. orders' = orders /\ told' = told /\ pending' = pending /\ thread[r].at # "remove"
    BY <1>9 DEF Resolve, Quote, Judge, Doing, book, notes
  <2> QED
    BY <1>2, <1>3, <1>4, <1>5, <2>1 DEF Single
<1> QED
  BY <1>6, <1>7, <1>8, <1>9 DEF Step

(* A confirmation that is alone holds a trade nobody held or ordered.      *)
LEMMA ConfirmSingle ==
  ASSUME Types, Singly, NEW r \in Thread, Confirm(r), NEW i \in Id
  PROVE  Single(i)'
<1>1. PICK j \in pending, loud \in BOOLEAN :
        /\ contested' = IF Held(j) THEN contested \union {j} ELSE contested
        /\ Others(r) /\ thread'[r].id = j /\ thread'[r].at = "remove"
  BY Confirmed DEF Types
<1>2. /\ orders' = orders /\ told' = told /\ pending' = pending
      /\ thread[r].at = "idle"
  BY DEF Confirm, Doing, book
<1>3. Single(i) /\ ~Holding(r, i)
  BY <1>2 DEF Singly, Holding, Confirming, Busy
<1>4. \A q \in Thread : q # r => (Holding(q, i)' <=> Holding(q, i))
  BY <1>1 DEF Holding, Confirming, Busy, Others
<1>5. CASE i # j
  <2>1. ~Holding(r, i)'
    BY <1>1, <1>5 DEF Holding
  <2>2. i \notin contested' => i \notin contested
    BY <1>1
  <2> QED
    BY <1>1, <1>2, <1>3, <1>4, <2>1, <2>2 DEF Single, Others
<1>6. CASE i = j
  <2>1. i \notin contested' => i \notin contested /\ ~Held(i)
    BY <1>1, <1>6
  <2>2. \A q \in Thread : i \notin contested' => ~Holding(q, i)
    BY <1>1, <1>3, <1>6, <2>1 DEF Single, Held, Holding
  <2> QED
    BY <1>1, <1>2, <1>3, <1>4, <1>6, <2>1, <2>2 DEF Single
<1> QED
  BY <1>5, <1>6

LEMMA SinglyNext == Types /\ Singly /\ [Next]_vars => Singly'
<1> SUFFICES ASSUME Types, Singly, [Next]_vars, NEW i \in Id PROVE Single(i)'
  BY DEF Singly
<1>1. CASE \E r \in Thread : Step(r)
  BY <1>1, StepSingle
<1>2. CASE \E r \in Thread : Confirm(r)
  BY <1>2, ConfirmSingle
<1>3. Single(i)
  BY DEF Singly
<1>4. CASE \E r \in Thread : Propose(r)
  <2>1. PICK r \in Thread : Propose(r)
    BY <1>4
  <2>2. Others(r) /\ thread'[r].for = "propose"
    BY <2>1, Proposed DEF Types
  <2>3. orders' = orders /\ told' = told /\ pending' = pending /\ contested' = contested
    BY <2>1 DEF Propose
  <2>4. \A q \in Thread : Holding(q, i)' => Holding(q, i) /\ thread'[q].at = thread[q].at
    BY <2>2 DEF Holding, Confirming, Busy, Others
  <2> QED
    BY <1>3, <2>3, <2>4 DEF Single
<1>5. CASE Tick \/ Move \/ HourlyClean \/ UNCHANGED vars
  <2>1. \A q \in Thread : Holding(q, i)' => Holding(q, i) /\ thread'[q].at = thread[q].at
    <3>1. ASSUME Move, NEW q \in Thread
          PROVE  /\ thread'[q].at = thread[q].at /\ thread'[q].for = thread[q].for
                 /\ thread'[q].id = thread[q].id
      BY <3>1 DEF Move, Types, TypeOK, Job
    <3> QED
      BY <1>5, <3>1 DEF Tick, HourlyClean, vars, Holding, Confirming, Busy
  <2>2. /\ orders' = orders /\ told' = told /\ contested' = contested
        /\ pending' \subseteq pending
    BY <1>5 DEF Tick, Move, HourlyClean, Kept, vars, book, notes
  <2> QED
    BY <1>3, <2>1, <2>2 DEF Single
<1>6. CASE Crash
  <2>1. \A q \in Thread : ~Holding(q, i)'
    BY <1>6, Blanks DEF Crash, Holding, Confirming, Busy
  <2> QED
    BY <1>3, <1>6, <2>1 DEF Single, Crash, notes
<1> QED
  BY <1>1, <1>2, <1>4, <1>5, <1>6 DEF Next

(* A confirmed trade is ordered once, from however many requests and       *)
(* restarts, unless two confirmations looked it up before either removed   *)
(* it.                                                                     *)
THEOREM OrderedOnceAlways == Spec => []OrderedOnce
<1>1. Init => Singly
  BY Blanks DEF Init, Singly, Single, Holding, Confirming, Busy
<1>2. Types /\ Singly => OrderedOnce
  BY DEF Singly, Single, OrderedOnce
<1> QED
  BY <1>1, <1>2, TypesInit, TypesNext, SinglyNext, PTL DEF Spec

-----------------------------------------------------------------------------
(* What is ordered is what was judged.                                     *)

(* What a step of a request leaves alone: the world, and of every trade    *)
(* but the one it proposes, the kind, the quantity and a flag once set.    *)
SameTrade(i) ==
  /\ trade'[i].kind = trade[i].kind /\ trade'[i].qty = trade[i].qty
  /\ trade[i].large => trade'[i].large

LEMMA StepKeepsTrades ==
  ASSUME Types, NEW r \in Thread, Step(r)
  PROVE  /\ UNCHANGED <<world, made, still>>
         /\ \A i \in Id : SameTrade(i)
<1>1. UNCHANGED <<world, made, still>>
  BY DEF Step, Resolve, Quote, Judge, Add, Remove, Order, world, book, notes
<1>2. trade' \in {trade, [trade EXCEPT ![thread[r].id].large = TRUE]}
  BY DEF Step, Resolve, Quote, Judge, Add, Remove, Order, book
<1>3. trade \in [Id -> TradeType]
  BY DEF Types, TypeOK, TradeType
<1>4. ASSUME NEW i \in Id PROVE SameTrade(i)
  <2>1. trade[i] \in TradeType
    BY <1>3
  <2>2. trade'[i] \in {trade[i], [trade[i] EXCEPT !.large = TRUE]}
    BY <1>2, <1>3
  <2> QED
    BY <2>1, <2>2 DEF SameTrade, TradeType
<1> QED
  BY <1>1, <1>4

LEMMA RequestKeepsTrades ==
  ASSUME Types, NEW r \in Thread, Propose(r) \/ Confirm(r)
  PROVE  /\ UNCHANGED <<world, judgedOn, told>> /\ still \subseteq still'
         /\ \A i \in 1..made : SameTrade(i) /\ (i \in still' => i \in still)
<1>1. UNCHANGED <<world, judgedOn, told>> /\ still \subseteq still'
  BY DEF Propose, Confirm
<1>2. made \in Nat /\ trade \in [Id -> TradeType] /\ 1..made \subseteq Id
  BY ChatBounds DEF Types, TypeOK, TradeType, Id
<1>3. ASSUME NEW i \in 1..made PROVE SameTrade(i) /\ (i \in still' => i \in still)
  <2>1. i # made + 1
    BY <1>2
  <2>2. trade'[i] = trade[i] /\ (i \in still' => i \in still)
    BY <1>2, <2>1 DEF Propose, Confirm, book
  <2> QED
    BY <2>2 DEF SameTrade
<1> QED
  BY <1>1, <1>3

(* A request that is calm knows the world as it is: its trader runs, the   *)
(* price it read is the price, and an order about to be sent fits.         *)
KnowsWorld(r) ==
  thread[r].calm =>
    /\ thread[r].at \in Picked => thread[r].on \in running
    /\ thread[r].at = "judge" => thread[r].quote = price
    /\ thread[r].at = "order" /\ Trade(r).kind = "open"
         => Fits(Value(r), equity[thread[r].on])

KnowWorld == \A r \in Thread : KnowsWorld(r)

(* Where a job may go, and what it then knows.                             *)
LEMMA StepKnows ==
  ASSUME Types, NEW r \in Thread, Step(r), KnowsWorld(r)
  PROVE  KnowsWorld(r)'
<1>1. thread[r] \in Job /\ TypeOK /\ JobOK(r) /\ Busy(r)
  BY StepKeepsJob DEF Types, Jobs, TypeOK
<1>2. thread[r].id \in Id
  BY <1>1, ChatBounds DEF JobOK, TypeOK, Id
<1>3. UNCHANGED <<price, equity, running>> /\ SameTrade(thread[r].id)
  BY <1>2, StepKeepsTrades DEF world
<1>4. CASE End(r)
  BY <1>1, <1>4, Ended, Blanks DEF KnowsWorld
<1>5. CASE Resolve(r) /\ ~End(r)
  <2>1. PICK x \in running : thread' = [thread EXCEPT ![r] = [thread[r] EXCEPT !.on = x,
               !.at = IF Trade(r).kind = "open" THEN "quote" ELSE Goal(r)]]
    BY <1>5 DEF Resolve
  <2>2. thread'[r] = [thread[r] EXCEPT !.on = x,
               !.at = IF Trade(r).kind = "open" THEN "quote" ELSE Goal(r)]
    BY <1>1, <2>1, Put
  <2>3. /\ thread'[r].on = x /\ thread'[r].id = thread[r].id
        /\ thread'[r].at = IF Trade(r).kind = "open" THEN "quote" ELSE Goal(r)
    BY <1>1, <2>2 DEF Job
  <2>4. thread'[r].at # "judge" /\ (thread'[r].at = "order" => Trade(r).kind # "open")
    BY <2>3 DEF Goal
  <2> QED
    BY <1>3, <2>3, <2>4 DEF KnowsWorld, Trade, SameTrade
<1>6. CASE Quote(r) /\ ~End(r)
  <2>1. thread' = [thread EXCEPT ![r] = [thread[r] EXCEPT !.at = "judge", !.quote = price]]
    BY <1>6 DEF Quote
  <2>2. thread'[r] = [thread[r] EXCEPT !.at = "judge", !.quote = price]
    BY <1>1, <2>1, Put
  <2>3. /\ thread'[r].on = thread[r].on /\ thread'[r].calm = thread[r].calm
        /\ thread'[r].at = "judge" /\ thread'[r].quote = price
    BY <1>1, <2>2 DEF Job
  <2> QED
    BY <1>3, <1>6, <2>3 DEF KnowsWorld, Quote, Doing, Picked
<1>7. CASE Judge(r) /\ ~End(r)
  <2>1. Go(r, Goal(r)) /\ Fits(Trade(r).qty * thread[r].quote, equity[thread[r].on])
    BY <1>7 DEF Judge
  <2>2. thread'[r] = [thread[r] EXCEPT !.at = Goal(r)]
    BY <1>1, <2>1, Gone
  <2>3. /\ thread'[r].on = thread[r].on /\ thread'[r].calm = thread[r].calm
        /\ thread'[r].id = thread[r].id /\ thread'[r].at = Goal(r)
    BY <1>1, <2>2 DEF Job
  <2>4. thread[r].calm => thread[r].on \in running /\ thread[r].quote = price
    BY <1>7 DEF KnowsWorld, Judge, Doing, Picked
  <2>5. thread[r].calm => Fits(Value(r), equity[thread[r].on])
    BY <2>1, <2>4 DEF Value
  <2>6. Value(r)' = Value(r)
    BY <1>3, <2>3 DEF Value, Trade, SameTrade
  <2> QED
    BY <1>3, <2>3, <2>4, <2>5, <2>6 DEF KnowsWorld, Goal
<1>8. CASE Remove(r)
  <2>1. thread'[r] = [thread[r] EXCEPT !.at = "resolve"]
    BY <1>1, <1>8, Gone DEF Remove
  <2>2. thread'[r].at = "resolve"
    BY <1>1, <2>1 DEF Job
  <2> QED
    BY <2>2 DEF KnowsWorld, Picked
<1> QED
  BY <1>4, <1>5, <1>6, <1>7, <1>8 DEF Step, Add, Order

LEMMA KnowWorldNext == Types /\ KnowWorld /\ [Next]_vars => KnowWorld'
<1> SUFFICES ASSUME Types, KnowWorld, [Next]_vars, NEW q \in Thread PROVE KnowsWorld(q)'
  BY DEF KnowWorld
<1>1. KnowsWorld(q) /\ JobOK(q) /\ thread[q] \in Job
  BY DEF KnowWorld, Types, Jobs, TypeOK
<1>2. ASSUME UNCHANGED <<world, thread>>, Busy(q) => SameTrade(thread[q].id)
      PROVE  KnowsWorld(q)'
  BY <1>1, <1>2 DEF KnowsWorld, world, Value, Trade, SameTrade, Picked, Busy
<1>3. CASE \E r \in Thread : Step(r)
  <2>1. PICK r \in Thread : Step(r)
    BY <1>3
  <2>2. CASE q = r
    BY <1>1, <2>1, <2>2, StepKnows
  <2>3. CASE q # r
    <3>1. thread'[q] = thread[q] /\ UNCHANGED world
      BY <2>1, <2>3, StepKeepsJob, StepKeepsTrades DEF Others
    <3>2. Busy(q) => thread[q].id \in Id
      BY <1>1, ChatBounds DEF JobOK, Types, TypeOK, Id
    <3>3. Busy(q) => SameTrade(thread[q].id)
      BY <2>1, <3>2, StepKeepsTrades
    <3> QED
      BY <1>1, <3>1, <3>3 DEF KnowsWorld, world, Value, Trade, SameTrade, Picked, Busy
  <2> QED
    BY <2>2, <2>3
<1>4. CASE \E r \in Thread : Propose(r) \/ Confirm(r)
  <2>1. PICK r \in Thread : Propose(r) \/ Confirm(r)
    BY <1>4
  <2>2. CASE q = r
    <3>1. thread'[q].at \in {"resolve", "remove"}
      BY <2>1, <2>2, Proposed, Confirmed DEF Types
    <3> QED
      BY <3>1 DEF KnowsWorld, Picked
  <2>3. CASE q # r
    <3>1. thread'[q] = thread[q] /\ UNCHANGED world
      <4>1. Others(r)
        BY <2>1, Proposed, Confirmed DEF Types
      <4> QED
        BY <2>1, <2>3, <4>1, RequestKeepsTrades DEF Others
    <3>2. Busy(q) => SameTrade(thread[q].id)
      BY <1>1, <2>1, RequestKeepsTrades DEF JobOK
    <3> QED
      BY <1>1, <3>1, <3>2 DEF KnowsWorld, world, Value, Trade, SameTrade, Picked, Busy
  <2> QED
    BY <2>2, <2>3
<1>5. CASE Tick \/ HourlyClean \/ UNCHANGED vars
  BY <1>2, <1>5 DEF Tick, HourlyClean, vars, book, SameTrade
<1>6. CASE Move
  <2>1. thread'[q].calm = FALSE
    BY <1>1, <1>6 DEF Move, Job
  <2> QED
    BY <2>1 DEF KnowsWorld
<1>7. CASE Crash
  BY <1>7, Blanks DEF Crash, KnowsWorld
<1> QED
  BY <1>3, <1>4, <1>5, <1>6, <1>7 DEF Next

(* An order goes to a trader that runs and keeps to that trader's equity   *)
(* and the hard cap, if the world has not moved since it was confirmed.    *)
THEOREM OrdersFitAlways == Spec => OrdersFit
<1>1. Init => KnowWorld
  BY Blanks DEF Init, KnowWorld, KnowsWorld
<1>2. KnowWorld =>
        \A r \in Thread : Ordering(r) /\ thread[r].calm =>
          /\ thread[r].on \in running
          /\ Trade(r).kind = "open" => Fits(Value(r), equity[thread[r].on])
  BY DEF KnowWorld, KnowsWorld, Ordering, Picked
<1> QED
  BY <1>1, <1>2, TypesInit, TypesNext, KnowWorldNext, PTL DEF Spec, OrdersFit

-----------------------------------------------------------------------------
(* A plain confirmation is for a small trade.                              *)

(* The trade is not large on the trader it was judged on, as the world is; *)
(* and if it is, its flag says so.                                         *)
Small(i) == ~IsLarge(trade[i].qty * price, equity[judgedOn[i]])
Flagged(i) == trade[i].kind = "open" /\ ~trade[i].large => Small(i)

(* What a request knows of a trade proposed since the world last moved.    *)
KnowsSize(r) ==
  thread[r].id \in still =>
    /\ Proposing(r) =>
         /\ thread[r].at \in Picked => thread[r].on = judgedOn[thread[r].id]
         /\ thread[r].at = "judge" => thread[r].quote = price
         /\ thread[r].at = "add" => Flagged(thread[r].id)
    /\ Confirming(r) /\ ~thread[r].loud /\ Trade(r).kind = "open" => Small(thread[r].id)

KnowSizes ==
  /\ \A i \in still \cap told : Flagged(i)
  /\ \A r \in Thread : KnowsSize(r)

(* The trader a trade was judged on is set by the request that proposes it.*)
LEMMA StepKeepsJudge ==
  ASSUME Types, NEW r \in Thread, Step(r), NEW i \in Id,
         Proposing(r) => thread[r].id # i
  PROVE  /\ judgedOn'[i] = judgedOn[i]
         /\ Small(i) => Small(i)'
         /\ Flagged(i) => Flagged(i)'
<1>1. UNCHANGED <<price, equity>> /\ SameTrade(i)
  BY StepKeepsTrades DEF world
<1>2. judgedOn'[i] = judgedOn[i]
  <2>1. CASE Resolve(r)
    <3>1. judgedOn' = judgedOn \/ \E x \in running :
             judgedOn' = IF thread[r].for = "propose"
                         THEN [judgedOn EXCEPT ![thread[r].id] = x] ELSE judgedOn
      BY <2>1 DEF Resolve
    <3>2. thread[r].for = "propose" => thread[r].id # i
      BY <2>1 DEF Resolve, Doing, Proposing, Busy
    <3>3. judgedOn \in [Id -> Trader \union {Nobody}]
      BY DEF Types, TypeOK
    <3> QED
      BY <3>1, <3>2, <3>3
  <2>2. CASE ~Resolve(r)
    BY <2>2 DEF Step, Quote, Judge, Add, Remove, Order, notes
  <2> QED
    BY <2>1, <2>2
<1>3. Small(i) => Small(i)'
  BY <1>1, <1>2 DEF Small, SameTrade
<1> QED
  BY <1>1, <1>2, <1>3 DEF Flagged, SameTrade

LEMMA StepKnowsSize ==
  ASSUME Types, NEW r \in Thread, Step(r), KnowsSize(r)
  PROVE  KnowsSize(r)'
<1>1. thread[r] \in Job /\ TypeOK /\ JobOK(r)
  BY DEF Types, Jobs, TypeOK
<1>2. /\ Busy(r)
      /\ \/ thread'[r] = Idle
         \/ /\ thread'[r].id = thread[r].id /\ thread'[r].for = thread[r].for
            /\ thread'[r].loud = thread[r].loud
            /\ thread'[r].at \in Picked \union {"resolve"}
  BY StepKeepsJob
<1>3. PICK i \in Id : i = thread[r].id
  BY <1>1, <1>2, ChatBounds DEF JobOK, TypeOK, Id
<1>4. UNCHANGED <<price, equity, still>> /\ SameTrade(i)
  BY StepKeepsTrades DEF world
<1>5. CASE thread'[r] = Idle
  BY <1>5, Blanks DEF KnowsSize, Proposing, Confirming, Busy
<1>6. CASE thread'[r] # Idle /\ thread[r].for = "confirm"
  <2>1. ~Proposing(r) /\ Confirming(r)
    BY <1>2, <1>6 DEF Proposing, Confirming
  <2>2. i \in still /\ ~thread[r].loud /\ trade[i].kind = "open" => Small(i)'
    <3>1. Small(i) => Small(i)'
      BY <2>1, StepKeepsJudge
    <3> QED
      BY <1>3, <2>1, <3>1 DEF KnowsSize, Trade
  <2>3. thread'[r].id = i /\ thread'[r].for = "confirm" /\ thread'[r].loud = thread[r].loud
    BY <1>2, <1>3, <1>6
  <2> QED
    BY <1>4, <2>2, <2>3 DEF KnowsSize, Proposing, Trade, SameTrade
<1>7. CASE thread'[r] # Idle /\ thread[r].for = "propose"
  <2>0. /\ Proposing(r) /\ thread'[r].id = i /\ thread'[r].for = "propose"
        /\ thread'[r].at \notin {"order", "remove"}
    <3>1. thread'[r].at # "idle"
      BY <1>2, <1>7 DEF Picked
    <3> QED
      BY <1>2, <1>3, <1>7, <3>1, StepGoesOn DEF Proposing, Picked
  <2>1. ~End(r)
    BY <1>1, <1>7, Ended
  <2>2. SUFFICES ASSUME i \in still
                 PROVE  /\ thread'[r].at \in Picked => thread'[r].on = judgedOn'[i]
                        /\ thread'[r].at = "judge" => thread'[r].quote = price
                        /\ thread'[r].at = "add" => Flagged(i)'
    BY <1>4, <2>0 DEF KnowsSize, Confirming, Flagged, Small
  <2>3. /\ thread[r].at \in Picked => thread[r].on = judgedOn[i]
        /\ thread[r].at = "judge" => thread[r].quote = price
    BY <1>3, <2>0, <2>2 DEF KnowsSize
  <2>4. CASE Resolve(r)
    <3>1. PICK x \in running :
            /\ thread' = [thread EXCEPT ![r] = [thread[r] EXCEPT !.on = x,
                 !.at = IF Trade(r).kind = "open" THEN "quote" ELSE Goal(r)]]
            /\ judgedOn' = IF thread[r].for = "propose"
                           THEN [judgedOn EXCEPT ![i] = x] ELSE judgedOn
      BY <1>3, <2>1, <2>4 DEF Resolve
    <3>2. thread'[r] = [thread[r] EXCEPT !.on = x,
                 !.at = IF Trade(r).kind = "open" THEN "quote" ELSE Goal(r)]
      BY <1>1, <3>1, Put
    <3>3. /\ thread'[r].on = x
          /\ thread'[r].at = IF Trade(r).kind = "open" THEN "quote" ELSE Goal(r)
      BY <1>1, <3>2 DEF Job
    <3>4. judgedOn'[i] = x
      BY <1>1, <1>3, <1>7, <3>1 DEF TypeOK
    <3>5. thread'[r].at # "judge" /\ (thread'[r].at = "add" => Trade(r).kind # "open")
      BY <3>3 DEF Goal
    <3>6. Trade(r).kind # "open" => Flagged(i)'
      BY <1>3, <1>4 DEF Trade, SameTrade, Flagged
    <3> QED
      BY <3>3, <3>4, <3>5, <3>6
  <2>5. CASE Quote(r)
    <3>1. thread' = [thread EXCEPT ![r] = [thread[r] EXCEPT !.at = "judge", !.quote = price]]
      BY <2>1, <2>5 DEF Quote
    <3>2. thread'[r] = [thread[r] EXCEPT !.at = "judge", !.quote = price]
      BY <1>1, <3>1, Put
    <3>3. thread'[r].on = thread[r].on /\ thread'[r].at = "judge" /\ thread'[r].quote = price
      BY <1>1, <3>2 DEF Job
    <3>4. thread[r].at \in Picked /\ judgedOn' = judgedOn
      BY <2>5 DEF Quote, Doing, Picked, notes
    <3> QED
      BY <2>3, <3>3, <3>4
  <2>6. CASE Judge(r)
    <3>1. /\ Go(r, "add") /\ thread[r].at = "judge" /\ judgedOn' = judgedOn
          /\ trade' = IF IsLarge(trade[i].qty * thread[r].quote, equity[thread[r].on])
                      THEN [trade EXCEPT ![i].large = TRUE] ELSE trade
      BY <1>3, <1>7, <2>1, <2>6 DEF Judge, Goal, Doing, Trade, notes
    <3>2. thread[r].on = judgedOn[i] /\ thread[r].quote = price
      BY <2>3, <3>1 DEF Picked
    <3>3. thread'[r] = [thread[r] EXCEPT !.at = "add"]
      BY <1>1, <3>1, Gone
    <3>4. thread'[r].on = thread[r].on /\ thread'[r].at = "add"
      BY <1>1, <3>3 DEF Job
    <3>5. Small(i) => Small(i)'
      BY <1>4, <3>1 DEF Small, SameTrade
    <3>6. ~Small(i) => trade'[i].large
      <4>1. trade \in [Id -> TradeType]
        BY <1>1 DEF TypeOK, TradeType
      <4>2. ~Small(i) => trade' = [trade EXCEPT ![i] = [trade[i] EXCEPT !.large = TRUE]]
        BY <3>1, <3>2 DEF Small
      <4>3. [trade[i] EXCEPT !.large = TRUE].large
        BY <1>3, <4>1 DEF TradeType
      <4> QED
        BY <1>3, <4>1, <4>2, <4>3
    <3> QED
      BY <3>1, <3>2, <3>4, <3>5, <3>6 DEF Flagged
  <2> QED
    BY <1>1, <2>0, <2>1, <2>4, <2>5, <2>6 DEF Step, Add, Remove, Order, Doing, JobOK
<1> QED
  BY <1>1, <1>5, <1>6, <1>7 DEF Job

(* What a trade and the world keep, its judgement keeps.                   *)
LEMMA KeepsFlag ==
  ASSUME NEW i, SameTrade(i), UNCHANGED <<price, equity, judgedOn>>
  PROVE  (Small(i) => Small(i)') /\ (Flagged(i) => Flagged(i)')
  BY DEF Small, Flagged, SameTrade

(* A request that did not move keeps what it knows of a trade that kept    *)
(* its judgement.                                                          *)
LEMMA KeepsSize ==
  ASSUME NEW q, NEW i, i = thread[q].id, KnowsSize(q), thread'[q] = thread[q],
         SameTrade(i), price' = price, judgedOn'[i] = judgedOn[i],
         i \in still' => i \in still,
         Small(i) => Small(i)', Flagged(i) => Flagged(i)'
  PROVE  KnowsSize(q)'
<1>1. thread'[q].id = i
  OBVIOUS
<1>2. (Proposing(q)' <=> Proposing(q)) /\ (Confirming(q)' <=> Confirming(q))
  BY DEF Proposing, Confirming, Busy
<1>3. Trade(q).kind = trade[i].kind /\ Trade(q)'.kind = trade[i].kind
  BY <1>1 DEF Trade, SameTrade
<1> QED
  BY <1>1, <1>2, <1>3 DEF KnowsSize

LEMMA StepKnowSizes ==
  ASSUME Types, KnowSizes, NEW r \in Thread, Step(r)
  PROVE  KnowSizes'
<1>1. TypeOK /\ JobOK(r) /\ thread[r] \in Job /\ Busy(r) /\ Others(r)
  BY StepKeepsJob DEF Types, Jobs, TypeOK
<1>2. UNCHANGED <<price, equity, still>>
  BY StepKeepsTrades DEF world
<1>3. told \subseteq Id
  BY <1>1, ChatBounds DEF TypeOK, Id
<1>4. ASSUME NEW i \in still' \cap told' PROVE Flagged(i)'
  <2>1. CASE i \in told
    <3>1. Proposing(r) => thread[r].id # i
      BY <1>1, <2>1 DEF JobOK
    <3>2. Flagged(i)
      BY <1>2, <2>1 DEF KnowSizes
    <3> QED
      BY <1>3, <2>1, <3>1, <3>2, StepKeepsJudge
  <2>2. CASE i \notin told
    <3>1. Add(r) /\ i = thread[r].id
      BY <2>2 DEF Step, Resolve, Quote, Judge, Add, Remove, Order, notes
    <3>2. Proposing(r) /\ thread[r].at = "add"
      BY <1>1, <3>1 DEF Add, Doing, JobOK, Proposing, Confirming, Busy, Job
    <3>3. Flagged(i)
      BY <1>2, <3>1, <3>2 DEF KnowSizes, KnowsSize
    <3>4. SameTrade(i) /\ UNCHANGED <<price, equity, judgedOn>>
      BY <3>1 DEF Add, SameTrade, world
    <3> QED
      BY <3>3, <3>4, KeepsFlag
  <2> QED
    BY <2>1, <2>2
<1>5. ASSUME NEW q \in Thread PROVE KnowsSize(q)'
  <2>1. CASE q = r
    BY <2>1, StepKnowsSize DEF KnowSizes
  <2>2. CASE q # r /\ Busy(q)
    <3>1. JobOK(q) /\ thread[q] \in Job /\ thread'[q] = thread[q]
      BY <1>1, <2>2 DEF Types, Jobs, TypeOK, Others
    <3>2. PICK i \in Id : i = thread[q].id
      BY <1>1, <2>2, <3>1, ChatBounds DEF JobOK, TypeOK, Id
    <3>3. Proposing(r) => thread[r].id # i
      <4>1. CASE thread[q].for = "propose"
        BY <2>2, <3>2, <4>1 DEF Types, Apart, Proposing
      <4>2. CASE thread[q].for = "confirm"
        BY <1>1, <2>2, <3>1, <3>2, <4>2 DEF JobOK, Confirming
      <4> QED
        BY <3>1, <4>1, <4>2 DEF Job
    <3>4. SameTrade(i)
      BY StepKeepsTrades
    <3>5. /\ judgedOn'[i] = judgedOn[i]
          /\ Small(i) => Small(i)'
          /\ Flagged(i) => Flagged(i)'
      BY <3>3, StepKeepsJudge
    <3>6. KnowsSize(q)
      BY DEF KnowSizes
    <3> QED
      BY <1>2, <3>1, <3>2, <3>4, <3>5, <3>6, KeepsSize
  <2>3. CASE q # r /\ ~Busy(q)
    BY <1>1, <2>3 DEF Others, KnowsSize, Proposing, Confirming, Busy
  <2> QED
    BY <2>1, <2>2, <2>3
<1> QED
  BY <1>4, <1>5 DEF KnowSizes

LEMMA RequestKnowSizes ==
  ASSUME Types, KnowSizes, NEW r \in Thread, Propose(r) \/ Confirm(r)
  PROVE  KnowSizes'
<1>1. /\ UNCHANGED <<price, equity, judgedOn, told>>
      /\ \A i \in 1..made : SameTrade(i) /\ (i \in still' => i \in still)
  BY RequestKeepsTrades DEF world
<1>2. TypeOK /\ told \subseteq 1..made
  BY DEF Types, TypeOK
<1>3. Others(r)
  BY <1>2, Proposed, Confirmed
<1>4. ASSUME NEW i \in still' \cap told' PROVE Flagged(i)'
  BY <1>1, <1>2, KeepsFlag DEF KnowSizes
<1>5. ASSUME NEW q \in Thread PROVE KnowsSize(q)'
  <2>1. CASE q # r /\ Busy(q)
    <3>1. PICK i \in 1..made : i = thread[q].id
      BY <2>1 DEF Types, Jobs, JobOK
    <3>2. thread'[q] = thread[q] /\ KnowsSize(q)
      BY <1>3, <2>1 DEF Others, KnowSizes
    <3>3. (Small(i) => Small(i)') /\ (Flagged(i) => Flagged(i)')
      BY <1>1, KeepsFlag
    <3> QED
      BY <1>1, <3>1, <3>2, <3>3, KeepsSize
  <2>2. CASE q # r /\ ~Busy(q)
    BY <1>3, <2>2 DEF Others, KnowsSize, Proposing, Confirming, Busy
  <2>3. CASE q = r /\ Propose(r)
    <3>1. thread'[r].at = "resolve" /\ thread'[r].for = "propose"
      BY <1>2, <2>3, Proposed
    <3> QED
      BY <2>3, <3>1 DEF KnowsSize, Picked, Confirming
  <2>4. CASE q = r /\ Confirm(r)
    <3>1. PICK i \in pending, loud \in BOOLEAN :
            /\ Accepted(i, loud)
            /\ thread'[r].id = i /\ thread'[r].loud = loud
            /\ thread'[r].for = "confirm"
      BY <1>2, <2>4, Confirmed
    <3>2. i \in told /\ i \in 1..made
      BY <1>2 DEF TypeOK
    <3>3. SameTrade(i) /\ (i \in still' => i \in still)
      BY <1>1, <3>2
    <3>4. ~loud /\ trade[i].kind = "open" /\ i \in still => Small(i)
      BY <3>1, <3>2 DEF KnowSizes, Flagged, Accepted
    <3>5. Small(i) => Small(i)'
      BY <1>1, <3>3, KeepsFlag
    <3> QED
      BY <2>4, <3>1, <3>3, <3>4, <3>5 DEF KnowsSize, Proposing, Trade, SameTrade
  <2> QED
    BY <2>1, <2>2, <2>3, <2>4
<1> QED
  BY <1>4, <1>5 DEF KnowSizes

LEMMA KnowSizesNext == Types /\ KnowSizes /\ [Next]_vars => KnowSizes'
<1> SUFFICES ASSUME Types, KnowSizes, [Next]_vars PROVE KnowSizes'
  OBVIOUS
<1>1. CASE \E r \in Thread : Step(r)
  BY <1>1, StepKnowSizes
<1>2. CASE \E r \in Thread : Propose(r) \/ Confirm(r)
  BY <1>2, RequestKnowSizes
<1>3. CASE Tick \/ HourlyClean \/ UNCHANGED vars
  <2>1. UNCHANGED <<price, equity, trade, thread, told, judgedOn, still>>
    BY <1>3 DEF Tick, HourlyClean, vars, world, book, notes
  <2> QED
    BY <2>1 DEF KnowSizes, KnowsSize, Flagged, Small, Proposing, Confirming, Busy, Trade
<1>4. CASE Move
  <2>1. still' = {}
    BY <1>4 DEF Move
  <2> QED
    BY <2>1 DEF KnowSizes, KnowsSize
<1>5. CASE Crash
  <2>1. UNCHANGED <<price, equity, trade, told, judgedOn, still>>
        /\ \A q \in Thread : thread'[q] = Idle
    BY <1>5 DEF Crash, world, notes
  <2> QED
    BY <2>1, Blanks DEF KnowSizes, KnowsSize, Flagged, Small, Proposing, Confirming, Busy
<1> QED
  BY <1>1, <1>2, <1>3, <1>4, <1>5 DEF Next

(* An order sent on a plain confirmation is not a large one, if the world  *)
(* has not moved since it was proposed and the trader is the one it was    *)
(* judged on then.                                                         *)
THEOREM PlainIsSmallAlways == Spec => PlainIsSmall
<1>1. Init => KnowSizes
  BY Blanks DEF Init, KnowSizes, KnowsSize, Proposing, Confirming, Busy
<1>2. Types /\ KnowSizes =>
        \A r \in Thread :
          /\ Ordering(r) /\ ~thread[r].loud /\ Trade(r).kind = "open"
          /\ thread[r].id \in still /\ thread[r].on = judgedOn[thread[r].id]
          => ~IsLarge(Value(r), equity[thread[r].on])
  <2> SUFFICES ASSUME Types, KnowSizes, NEW r \in Thread, Ordering(r), ~thread[r].loud,
                      Trade(r).kind = "open", thread[r].id \in still,
                      thread[r].on = judgedOn[thread[r].id]
               PROVE  ~IsLarge(Value(r), equity[thread[r].on])
    OBVIOUS
  <2>1. Confirming(r)
    BY DEF Ordering, Types, TypeOK, Jobs, JobOK, Job, Proposing, Confirming, Busy
  <2> QED
    BY <2>1 DEF KnowSizes, KnowsSize, Small, Value, Trade
<1> QED
  BY <1>1, <1>2, TypesInit, TypesNext, KnowSizesNext, PTL DEF Spec, PlainIsSmall
=============================================================================
