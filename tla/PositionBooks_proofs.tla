------------------------ MODULE PositionBooks_proofs ------------------------
(***************************************************************************)
(* Type correctness of PositionBooks for any symbols, goroutines, lots and *)
(* faults; that one goroutine leaves no hole in what it asks for by id;    *)
(* and, for one goroutine, that a trade is posted at most once, that a     *)
(* symbol and side never have two open rows, that the trades of a symbol   *)
(* are posted in the order of their times, that the rows implement module  *)
(* Book, and that they hold what the exchange holds when all is posted.    *)
(***************************************************************************)
EXTENDS PositionBooks, FiniteSetTheorems, WellFoundedInduction, TLAPS

Stored == {"fill", "find", "read", "write"}
Posting == {"read", "write"}

Worker(ids, n) ==
  [pc : Pc, todo : Seq(ids), latest : 0..LastTime, failed : BOOLEAN,
   act : Act, row : 0..n, seen : Nat]

(* A trade is recorded before its fill and its position are; and a         *)
(* position that is changed is one that exists.                            *)
RecordedFirst ==
  \A l \in Loop : loop[l].pc \in Stored /\ loop[l].todo # <<>> => Cur(l) \in orders
RowExists ==
  \A l \in Loop : loop[l].pc \in Posting =>
    /\ loop[l].act # "none"
    /\ loop[l].act # "create" => loop[l].row \in DOMAIN rows

Types == TypeOK /\ RecordedFirst /\ RowExists

AskTypes == now \in Time /\ ask \in [Loop -> AskRecord(DOMAIN history)]
-----------------------------------------------------------------------------
(* Of some numbers up to a bound one is the largest.                       *)
Below == OpToRel(<, Nat)

LEMMA BelowIs == \A x, y \in Nat : x < y => <<x, y>> \in Below
  BY DEF Below, OpToRel

LEMMA Largest ==
  ASSUME NEW n \in Nat, NEW I \in SUBSET (1..n), I # {}
  PROVE  \E i \in I : \A j \in I : j <= i
<1> DEFINE T == {n - i : i \in I}
<1>1. \A i \in I : i \in Nat /\ n - i \in Nat
  OBVIOUS
<1>2. T \subseteq Nat /\ T # {}
  BY <1>1
<1>3. IsWellFoundedOn(Below, Nat)
  BY NatLessThanWellFounded DEF Below
<1>4. PICK t \in T : \A y \in T : ~(<<y, t>> \in Below)
  BY <1>2, <1>3, WFMin
<1>5. PICK i \in I : t = n - i
  BY <1>4
<1>6. ASSUME NEW j \in I PROVE j <= i
  <2>1. n - j \in T
    OBVIOUS
  <2>2. ~(n - j < n - i)
    BY <1>1, <1>4, <1>5, <2>1, BelowIs
  <2> QED
    BY <1>1, <2>2
<1> QED
  BY <1>6

LEMMA MaxIs ==
  ASSUME NEW n \in Nat, NEW I \in SUBSET (1..n), I # {}
  PROVE  Max(I) \in I /\ \A j \in I : j <= Max(I)
  BY Largest DEF Max

(* GetOpenPositionBySymbol finds an open row whenever there is one.        *)
LEMMA OpenRowIs ==
  ASSUME TypeOK, NEW sym, NEW side
  PROVE  /\ OpenRows(sym, side) \subseteq DOMAIN rows
         /\ OpenRows(sym, side) = {} => OpenRow(sym, side) = 0
         /\ OpenRows(sym, side) # {} => OpenRow(sym, side) \in OpenRows(sym, side)
<1> DEFINE R == OpenRows(sym, side)
<1>1. R \subseteq DOMAIN rows
  BY DEF OpenRows
<1>2. R = {} => OpenRow(sym, side) = 0
  BY DEF OpenRow
<1>3. ASSUME R # {} PROVE OpenRow(sym, side) \in R
  <2> DEFINE I == {rows[r].time : r \in R}
             Newest(r) == \A q \in R : rows[q].time <= rows[r].time
  <2>1. \A r \in R : rows[r].time \in 1..LastTime
    <3>1. rows \in Seq(Row)
      BY DEF TypeOK
    <3>2. \A r \in DOMAIN rows : rows[r] \in Row
      BY <3>1
    <3>3. \A r \in DOMAIN rows : rows[r].time \in 1..LastTime
      BY <3>2 DEF Row, Time
    <3> QED
      BY <1>1, <3>3
  <2> HIDE DEF R
  <2>2. PICK r \in R : Newest(r)
    <3>1. I \in SUBSET (1..LastTime) /\ I # {}
      BY <1>3, <2>1
    <3>2. PICK i \in I : \A j \in I : j <= i
      BY <3>1, Largest, BookBounds
    <3> QED
      BY <3>2
  <2> USE DEF R
  <2>3. OpenRow(sym, side) = CHOOSE q \in R : Newest(q)
    BY <1>3 DEF OpenRow
  <2> HIDE DEF Newest, R
  <2> QED
    BY <2>2, <2>3
<1> QED
  BY <1>1, <1>2, <1>3
-----------------------------------------------------------------------------
(* What TypeOK says of one trade, one row, one goroutine.                  *)
LEMMA Parts ==
  ASSUME TypeOK
  PROVE  /\ \A i \in DOMAIN history : history[i] \in TradeRecord /\ i \in Id
         /\ \A r \in DOMAIN rows : rows[r] \in Row
         /\ \A l \in Loop : loop[l] \in Worker(DOMAIN history, Len(rows))
         /\ DOMAIN history = 1..Len(history) /\ Len(history) \in Nat
         /\ DOMAIN rows = 1..Len(rows) /\ Len(rows) \in Nat
<1>1. /\ history \in Seq(TradeRecord) /\ Len(history) <= MaxTrades
      /\ rows \in Seq(Row)
      /\ loop \in [Loop -> Worker(DOMAIN history, Len(rows))]
  BY DEF TypeOK, Worker
<1>2. \A i \in DOMAIN history : history[i] \in TradeRecord /\ i \in Id
  BY <1>1, BookBounds DEF Id
<1> QED
  BY <1>1, <1>2

LEMMA HeadTail ==
  ASSUME NEW S, NEW q \in Seq(S), q # <<>>
  PROVE  Head(q) \in S /\ Tail(q) \in Seq(S)
  OBVIOUS

LEMMA AtCur ==
  ASSUME TypeOK, NEW l \in Loop, loop[l].todo # <<>>
  PROVE  /\ Cur(l) \in DOMAIN history /\ Cur(l) \in Id
         /\ CurTrade(l) \in TradeRecord
         /\ Tail(loop[l].todo) \in Seq(DOMAIN history)
<1>1. loop[l].todo \in Seq(DOMAIN history)
  BY Parts DEF Worker
<1>2. Cur(l) \in DOMAIN history /\ Tail(loop[l].todo) \in Seq(DOMAIN history)
  BY <1>1, HeadTail DEF Cur
<1> QED
  BY <1>2, Parts DEF CurTrade

LEMMA WorkerGrows ==
  ASSUME NEW ids, NEW more, ids \subseteq more, NEW n \in Nat, NEW k \in Nat, n <= k
  PROVE  Worker(ids, n) \subseteq Worker(more, k)
<1>1. Seq(ids) \subseteq Seq(more)
  OBVIOUS
<1>2. 0..n \subseteq 0..k
  OBVIOUS
<1> QED
  BY <1>1, <1>2 DEF Worker

(* One goroutine steps to w, and the tables only grow.                     *)
LEMMA WorkerSteps ==
  ASSUME Types, NEW l \in Loop, UNCHANGED history,
         orders \subseteq orders', rows' \in Seq(Row), Len(rows) <= Len(rows'),
         NEW w \in Worker(DOMAIN history, Len(rows')),
         loop' = [loop EXCEPT ![l] = w],
         w.pc \in Stored /\ w.todo # <<>> => Head(w.todo) \in orders',
         w.pc \in Posting => /\ w.act # "none"
                             /\ w.act # "create" => w.row \in DOMAIN rows'
  PROVE  /\ loop' \in [Loop -> Worker(DOMAIN history', Len(rows'))]
         /\ RecordedFirst' /\ RowExists'
<1>1. /\ rows \in Seq(Row) /\ Len(rows) \in Nat /\ Len(rows') \in Nat
      /\ DOMAIN rows = 1..Len(rows) /\ DOMAIN rows' = 1..Len(rows')
  BY DEF Types, TypeOK
<1>2. Worker(DOMAIN history, Len(rows)) \subseteq Worker(DOMAIN history, Len(rows'))
  BY <1>1, WorkerGrows
<1>3. loop \in [Loop -> Worker(DOMAIN history, Len(rows))]
  BY DEF Types, TypeOK, Worker
<1>4. loop' \in [Loop -> Worker(DOMAIN history', Len(rows'))]
  BY <1>2, <1>3
<1>5. \A k \in Loop : loop'[k] = IF k = l THEN w ELSE loop[k]
  BY <1>3
<1>6. RecordedFirst'
  <2> SUFFICES ASSUME NEW k \in Loop, loop'[k].pc \in Stored, loop'[k].todo # <<>>
               PROVE  Head(loop'[k].todo) \in orders'
    BY DEF RecordedFirst, Cur
  <2>1. CASE k = l
    BY <1>5, <2>1
  <2>2. CASE k # l
    BY <1>5, <2>2 DEF Types, RecordedFirst, Cur
  <2> QED
    BY <2>1, <2>2
<1>7. RowExists'
  <2> SUFFICES ASSUME NEW k \in Loop, loop'[k].pc \in Posting
               PROVE  /\ loop'[k].act # "none"
                      /\ loop'[k].act # "create" => loop'[k].row \in DOMAIN rows'
    BY DEF RowExists
  <2>1. CASE k = l
    BY <1>5, <2>1
  <2>2. CASE k # l
    BY <1>1, <1>5, <2>2 DEF Types, RowExists
  <2> QED
    BY <2>1, <2>2
<1> QED
  BY <1>4, <1>6, <1>7

LEMMA GotoSteps ==
  ASSUME Types, NEW l \in Loop, NEW s \in Pc, Goto(l, s)
  PROVE  LET w == [loop[l] EXCEPT !.pc = s] IN
         /\ w \in Worker(DOMAIN history, Len(rows))
         /\ loop' = [loop EXCEPT ![l] = w]
         /\ w.pc = s /\ w.todo = loop[l].todo /\ w.act = loop[l].act
         /\ w.row = loop[l].row /\ w.seen = loop[l].seen
         /\ w.latest = loop[l].latest /\ w.failed = loop[l].failed
<1>1. loop[l] \in Worker(DOMAIN history, Len(rows))
  BY Parts DEF Types
<1> QED
  BY <1>1 DEF Goto, Worker

LEMMA NextTradeSteps ==
  ASSUME Types, NEW l \in Loop, loop[l].todo # <<>>, NextTrade(l)
  PROVE  LET w == [loop[l] EXCEPT !.pc = "check", !.todo = Tail(loop[l].todo),
                                  !.act = "none", !.row = 0, !.seen = 0] IN
         /\ w \in Worker(DOMAIN history, Len(rows))
         /\ loop' = [loop EXCEPT ![l] = w]
         /\ w.pc = "check" /\ w.todo = Tail(loop[l].todo)
         /\ w.latest = loop[l].latest /\ w.failed = loop[l].failed
<1>1. loop[l] \in Worker(DOMAIN history, Len(rows))
  BY Parts DEF Types
<1>2. Tail(loop[l].todo) \in Seq(DOMAIN history)
  BY AtCur DEF Types
<1>3. Len(rows) \in Nat /\ 0 \in 0..Len(rows)
  BY Parts DEF Types
<1> QED
  BY <1>1, <1>2, <1>3 DEF NextTrade, Worker, Pc, Act
-----------------------------------------------------------------------------
(* Quantities stay natural numbers.                                        *)
LEMMA RoundedNat == ASSUME NEW q \in Nat PROVE Rounded(q) \in Nat
<1>1. Grain \in Nat \ {0} /\ 2 * Grain \in Nat \ {0}
  BY BookAssumption
<1> DEFINE n == 2 * q + Grain
           d == 2 * Grain
<1>2. n \in Nat /\ d \in Nat \ {0}
  BY <1>1
<1> HIDE DEF n, d
<1>3. n \div d \in Nat
  BY <1>2
<1>4. (n \div d) * Grain \in Nat
  BY <1>1, <1>3
<1> QED
  BY <1>4 DEF Rounded, n, d

LEMMA WrittenRow ==
  ASSUME NEW row \in Row, NEW seen \in Nat, NEW qty \in Nat,
         NEW act \in {"add", "reduce", "close"}
  PROVE  /\ Written(act, row, seen, qty) \in Row
         /\ Written(act, row, seen, qty).sym = row.sym
         /\ Written(act, row, seen, qty).side = row.side
         /\ Written(act, row, seen, qty).status \in {row.status, "CLOSED"}
<1>1. /\ Closed(row) \in Row /\ Closed(row).sym = row.sym
      /\ Closed(row).side = row.side /\ Closed(row).status = "CLOSED"
  BY DEF Closed, Row
<1>2. \A k \in Nat :
        /\ [row EXCEPT !.qty = k] \in Row /\ [row EXCEPT !.qty = k].sym = row.sym
        /\ [row EXCEPT !.qty = k].side = row.side
        /\ [row EXCEPT !.qty = k].status = row.status
  BY DEF Row
<1>3. CASE act = "add"
  <2>1. Rounded(seen + qty) \in Nat
    BY RoundedNat
  <2>2. Written(act, row, seen, qty) = [row EXCEPT !.qty = Rounded(seen + qty)]
    BY <1>3 DEF Written, Added
  <2> QED
    BY <1>2, <2>1, <2>2
<1>4. CASE act = "reduce"
  <2> DEFINE left == IF qty < seen THEN Rounded(seen - qty) ELSE 0
  <2>1. left \in Nat
    BY RoundedNat
  <2>2. Written(act, row, seen, qty) = Reduced(row, seen, qty)
    BY <1>4 DEF Written
  <2>3. Reduced(row, seen, qty) =
          IF left <= Grain THEN Closed(row) ELSE [row EXCEPT !.qty = left]
    BY DEF Reduced
  <2> HIDE DEF left
  <2> QED
    BY <1>1, <1>2, <2>1, <2>2, <2>3
<1>5. CASE act = "close"
  BY <1>1, <1>5 DEF Written
<1> QED
  BY <1>3, <1>4, <1>5

LEMMA TradeQty ==
  ASSUME NEW t \in TradeRecord
  PROVE  t.qty \in Nat /\ NewRow(t) \in Row
  BY BookAssumption DEF TradeRecord, NewRow, Row

LEMMA InsertedRows ==
  ASSUME TypeOK, NEW t \in TradeRecord
  PROVE  /\ Inserted(t) \in Seq(Row) /\ Len(rows) <= Len(Inserted(t))
         /\ SamePosition(t) = {} => Inserted(t) = Append(rows, NewRow(t))
         /\ SamePosition(t) # {} =>
              /\ DOMAIN Inserted(t) = DOMAIN rows
              /\ \A r \in DOMAIN rows : /\ Inserted(t)[r].sym = rows[r].sym
                                        /\ Inserted(t)[r].side = rows[r].side
                                        /\ Inserted(t)[r].status = rows[r].status
<1>1. /\ \A r \in DOMAIN rows : rows[r] \in Row
      /\ DOMAIN rows = 1..Len(rows) /\ Len(rows) \in Nat /\ rows \in Seq(Row)
  BY Parts DEF TypeOK
<1>2. CASE SamePosition(t) = {}
  <2>1. Inserted(t) = Append(rows, NewRow(t))
    BY <1>2 DEF Inserted
  <2> QED
    BY <1>1, <1>2, <2>1, TradeQty
<1>3. CASE SamePosition(t) # {}
  <2> DEFINE open == {r \in SamePosition(t) : rows[r].status = "OPEN"}
             after(r) == IF r \in open THEN Added(rows[r], rows[r].qty, t.qty) ELSE rows[r]
  <2>1. Inserted(t) = [r \in DOMAIN rows |-> after(r)]
    BY <1>3 DEF Inserted
  <2>2. ASSUME NEW r \in DOMAIN rows
        PROVE  /\ after(r) \in Row /\ after(r).sym = rows[r].sym
               /\ after(r).side = rows[r].side /\ after(r).status = rows[r].status
    <3>1. rows[r] \in Row /\ rows[r].qty \in Nat /\ t.qty \in Nat
      BY <1>1, TradeQty DEF Row
    <3>2. Rounded(rows[r].qty + t.qty) \in Nat
      BY <3>1, RoundedNat
    <3> QED
      BY <3>1, <3>2 DEF Added, Row
  <2> HIDE DEF after
  <2>3. Inserted(t) \in [1..Len(rows) -> Row]
    BY <1>1, <2>1, <2>2
  <2>4. Inserted(t) \in Seq(Row) /\ Len(Inserted(t)) = Len(rows)
    BY <1>1, <2>3
  <2>5. DOMAIN Inserted(t) = DOMAIN rows /\ \A r \in DOMAIN rows : Inserted(t)[r] = after(r)
    BY <2>1
  <2>6. \A r \in DOMAIN rows : /\ Inserted(t)[r].sym = rows[r].sym
                               /\ Inserted(t)[r].side = rows[r].side
                               /\ Inserted(t)[r].status = rows[r].status
    BY <2>2, <2>5
  <2>7. Len(rows) <= Len(Inserted(t))
    BY <1>1, <2>4
  <2> QED
    BY <1>3, <2>4, <2>5, <2>6, <2>7
<1> QED
  BY <1>2, <1>3
-----------------------------------------------------------------------------
LEMMA IdleWorker ==
  ASSUME NEW ids, NEW n \in Nat PROVE Idle \in Worker(ids, n)
<1>1. <<>> \in Seq(ids) /\ 0 \in 0..n /\ 0 \in 0..LastTime
  BY BookBounds
<1>2. ASSUME NEW q \in Seq(ids)
      PROVE  [pc |-> "idle", todo |-> q, latest |-> 0, failed |-> FALSE,
              act |-> "none", row |-> 0, seen |-> 0] \in Worker(ids, n)
  BY <1>1 DEF Worker, Pc, Act
<1> QED
  BY <1>1, <1>2 DEF Idle

LEMMA NoAskTypes ==
  ASSUME NEW ids
  PROVE  /\ NoAsk \in AskRecord(ids)
         /\ NoAsk.got = {}
  BY BookBounds DEF NoAsk, AskRecord, Buffer

LEMMA AskGrows ==
  ASSUME NEW ids, NEW more, ids \subseteq more
  PROVE  AskRecord(ids) \subseteq AskRecord(more)
  BY DEF AskRecord

LEMMA TypesInit == Init => Types
<1> SUFFICES ASSUME Init PROVE Types
  OBVIOUS
<1>1. \A ids : \A n \in Nat : Idle \in Worker(ids, n)
  BY IdleWorker
<1>0. /\ history = <<>> /\ rows = <<>> /\ Len(rows) \in Nat
      /\ loop = [l \in Loop |-> Idle]
  BY DEF Init
<1>4. loop \in [Loop -> Worker(DOMAIN history, Len(rows))]
  BY <1>0, <1>1
<1>2. TypeOK
  <2>0. \A S : <<>> \in Seq(S)
    OBVIOUS
  <2>1. history \in Seq(TradeRecord) /\ rows \in Seq(Row) /\ Len(history) = 0
    BY <1>0, <2>0
  <2>2. account \in [Place -> Nat] /\ posts \in [Id -> Nat] /\ mode \in Mode
    BY DEF Init
  <2>3. /\ orders = {} /\ fills = {} /\ lastSync \in 0..LastTime
        /\ crashes \in 0..MaxCrashes /\ failures \in 0..MaxFailures
    BY BookBounds DEF Init
  <2>4. now \in Time /\ ask \in [Loop -> AskRecord(DOMAIN history)]
    BY NoAskTypes, BookBounds DEF Init, Time
  <2> QED
    BY <1>4, <2>1, <2>2, <2>3, <2>4, BookBounds DEF TypeOK, Worker
<1>3. RecordedFirst /\ RowExists
  BY <1>0 DEF RecordedFirst, RowExists, Idle, Stored, Posting
<1> QED
  BY <1>2, <1>3 DEF Types

LEMMA AskTypesKept ==
  ASSUME TypeOK
  PROVE  AskTypes /\ (UNCHANGED <<history, askVars>> => AskTypes')
  BY DEF TypeOK, AskTypes, askVars

LEMMA FailsTypes ==
  ASSUME TypeOK, Fails \/ UNCHANGED failures
  PROVE  failures' \in 0..MaxFailures
  BY BookBounds DEF TypeOK, Fails

(* What a step of one goroutine leaves to show.                            *)
LEMMA StepTypes ==
  ASSUME Types, NEW l \in Loop, UNCHANGED <<mode, history, account, crashes>>,
         orders \subseteq orders', orders' \subseteq DOMAIN history,
         fills' \subseteq orders', rows' \in Seq(Row), Len(rows) <= Len(rows'),
         NEW w \in Worker(DOMAIN history, Len(rows')),
         loop' = [loop EXCEPT ![l] = w],
         w.pc \in Stored /\ w.todo # <<>> => Head(w.todo) \in orders',
         w.pc \in Posting => /\ w.act # "none"
                             /\ w.act # "create" => w.row \in DOMAIN rows',
         lastSync' \in 0..LastTime, posts' \in [Id -> Nat],
         failures' \in 0..MaxFailures, AskTypes'
  PROVE  Types'
<1>1. /\ loop' \in [Loop -> Worker(DOMAIN history', Len(rows'))]
      /\ RecordedFirst' /\ RowExists'
  BY WorkerSteps
<1>2. TypeOK'
  BY <1>1 DEF Types, TypeOK, Worker, AskTypes
<1> QED
  BY <1>1, <1>2 DEF Types

(* The same for a step that writes nothing but the place it stands at.     *)
LEMMA QuietTypes ==
  ASSUME Types, NEW l \in Loop, Fails \/ UNCHANGED failures,
         UNCHANGED <<mode, history, account, dbVars, posts, crashes>>,
         NEW w \in Worker(DOMAIN history, Len(rows)),
         loop' = [loop EXCEPT ![l] = w],
         w.pc \in Stored /\ w.todo # <<>> => Head(w.todo) \in orders,
         w.pc \in Posting => /\ w.act # "none"
                             /\ w.act # "create" => w.row \in DOMAIN rows,
         lastSync' \in 0..LastTime, AskTypes'
  PROVE  Types'
<1>1. /\ UNCHANGED <<orders, fills, rows>>
      /\ orders \subseteq DOMAIN history /\ fills \subseteq orders
      /\ rows \in Seq(Row) /\ Len(rows) <= Len(rows) /\ posts \in [Id -> Nat]
  BY DEF dbVars, Types, TypeOK
<1>2. failures' \in 0..MaxFailures
  BY FailsTypes DEF Types
<1> QED
  BY <1>1, <1>2, StepTypes

(* A step that ends the work on a trade.                                   *)
LEMMA NextTradeTypes ==
  ASSUME Types, NEW l \in Loop, loop[l].todo # <<>>, NextTrade(l),
         UNCHANGED <<mode, history, account, crashes, lastSync, askVars>>,
         Fails \/ UNCHANGED failures,
         UNCHANGED <<orders, fills>>,
         rows' \in Seq(Row), Len(rows) <= Len(rows'), posts' \in [Id -> Nat]
  PROVE  Types'
<1> DEFINE w == [loop[l] EXCEPT !.pc = "check", !.todo = Tail(loop[l].todo),
                                !.act = "none", !.row = 0, !.seen = 0]
<1>1. /\ w \in Worker(DOMAIN history, Len(rows))
      /\ loop' = [loop EXCEPT ![l] = w]
      /\ w.pc = "check"
  BY NextTradeSteps
<1> HIDE DEF w
<1>2. w \in Worker(DOMAIN history, Len(rows'))
  BY <1>1, WorkerGrows, Parts DEF Types
<1>3. failures' \in 0..MaxFailures
  BY FailsTypes DEF Types
<1>4. /\ orders \subseteq DOMAIN history /\ fills \subseteq orders
      /\ lastSync \in 0..LastTime /\ AskTypes'
  BY AskTypesKept DEF Types, TypeOK
<1> QED
  BY <1>1, <1>2, <1>3, <1>4, StepTypes DEF Stored, Posting
LEMMA Grown ==
  ASSUME NEW S, NEW q \in Seq(S), NEW x \in S
  PROVE  /\ Append(q, x) \in Seq(S) /\ Len(Append(q, x)) = Len(q) + 1
         /\ DOMAIN q \subseteq DOMAIN Append(q, x)
         /\ \A i \in DOMAIN q : Append(q, x)[i] = q[i]
         /\ Append(q, x)[Len(q) + 1] = x
         /\ DOMAIN Append(q, x) = DOMAIN q \union {Len(q) + 1}
  OBVIOUS

LEMMA TypesExchange == ASSUME Types, Exchange PROVE Types'
<1>1. PICK sym \in Symbol, side \in Side, kind \in Kind, even \in BOOLEAN,
           qty \in Lot : Execute(sym, side, kind, even, qty)
  BY DEF Exchange
<1> DEFINE t == [sym |-> sym, side |-> side, kind |-> kind, even |-> even,
                 qty |-> qty, time |-> now]
           p == <<sym, side>>
<1>2. /\ Len(history) < MaxTrades /\ history' = Append(history, t)
      /\ account' = [account EXCEPT ![p] = IF kind = "open" THEN @ + qty ELSE @ - qty]
      /\ kind = "close" => qty <= account[p]
      /\ UNCHANGED <<mode, orders, fills, rows, lastSync, loop, posts, crashes, failures, now, ask>>
  BY <1>1 DEF Execute, dbVars, faultVars, askVars
<1>3. t \in TradeRecord
  BY DEF TradeRecord, Types, TypeOK
<1>4. /\ history' \in Seq(TradeRecord) /\ Len(history') = Len(history) + 1
      /\ DOMAIN history \subseteq DOMAIN history'
  BY <1>2, <1>3, Grown DEF Types, TypeOK
<1>5. account' \in [Place -> Nat]
  <2>1. p \in Place /\ qty \in Nat /\ account \in [Place -> Nat]
    BY BookAssumption DEF Place, Types, TypeOK
  <2>2. (IF kind = "open" THEN account[p] + qty ELSE account[p] - qty) \in Nat
    BY <1>2, <2>1 DEF Kind
  <2> QED
    BY <1>2, <2>1, <2>2
<1>6. loop \in [Loop -> Worker(DOMAIN history', Len(rows))]
  <2>1. Worker(DOMAIN history, Len(rows)) \subseteq Worker(DOMAIN history', Len(rows))
    BY <1>4, WorkerGrows, Parts DEF Types
  <2> QED
    BY <2>1 DEF Types, TypeOK, Worker
<1>7. Len(history') <= MaxTrades
  BY <1>2, <1>4, BookBounds, Parts DEF Types
<1>10. ask \in [Loop -> AskRecord(DOMAIN history')]
  BY <1>4, AskGrows DEF Types, TypeOK
<1>8. TypeOK'
  BY <1>2, <1>4, <1>5, <1>6, <1>7, <1>10 DEF Types, TypeOK, Worker
<1>9. RecordedFirst' /\ RowExists'
  BY <1>2 DEF Types, RecordedFirst, RowExists, Cur
<1> QED
  BY <1>8, <1>9 DEF Types

LEMMA TypesTick == ASSUME Types, Tick PROVE Types'
<1>1. /\ UNCHANGED <<mode, history, account, orders, fills, rows, lastSync, loop,
                     posts, crashes, failures, ask>>
      /\ now' \in Time
  BY BookBounds DEF Tick, dbVars, faultVars, Types, TypeOK, Time
<1> QED
  BY <1>1 DEF Types, TypeOK, RecordedFirst, RowExists, Cur

(* What a sync fetches is in the order of the times, each trade once.      *)
LEMMA ByTimeLists ==
  ASSUME Types, NEW got \in SUBSET (DOMAIN history), got # {}, NEW todo \in ByTime(got)
  PROVE  /\ todo \in Seq(got) /\ todo \in Seq(DOMAIN history) /\ todo # <<>>
         /\ todo[Len(todo)] \in got
         /\ history[todo[Len(todo)]].time \in 0..LastTime
<1>0. got \subseteq 1..Len(history) /\ IsFiniteSet(1..Len(history))
  BY Parts, FS_Interval DEF Types
<1>1. IsFiniteSet(got)
  BY <1>0, FS_Subset
<1>2. Cardinality(got) \in Nat \ {0}
  BY <1>1, FS_CardinalityType, FS_EmptySet
<1>3. todo \in [1..Cardinality(got) -> got]
  BY DEF ByTime
<1>4. todo \in Seq(got) /\ Len(todo) = Cardinality(got)
  BY <1>2, <1>3
<1>5. todo[Len(todo)] \in got
  BY <1>2, <1>3, <1>4
<1>6. history[todo[Len(todo)]] \in TradeRecord
  BY <1>5, Parts DEF Types
<1>7. todo \in Seq(DOMAIN history) /\ todo # <<>>
  BY <1>2, <1>4
<1> QED
  BY <1>4, <1>5, <1>6, <1>7, BookBounds DEF TradeRecord, Time

(* Where a step of a sync that asks leads to: a list of trades to handle,  *)
(* taken from the answers, or nothing to handle yet.                       *)
Fetches(l, w) ==
  \/ w = loop[l] /\ w.pc = "ask"
  \/ w.pc \in {"ask", "idle"} /\ w.todo = <<>>
  \/ /\ w.pc = "check"
     /\ \E got \in SUBSET (DOMAIN history) :
          /\ w.todo \in ByTime(got) /\ got # {}
          /\ \/ mode = "incremental" /\ loop[l].pc = "ask" /\ got = ask[l].got
             \/ mode # "incremental" /\ got = OfLastDay

LEMMA TakesIs ==
  ASSUME Types, NEW l \in Loop, NEW got \in SUBSET (DOMAIN history), got # {},
         NEW failed \in BOOLEAN, Takes(l, got, failed)
  PROVE  \E w \in Worker(DOMAIN history, Len(rows)) :
           /\ loop' = [loop EXCEPT ![l] = w]
           /\ w.pc = "check" /\ w.todo \in ByTime(got)
<1> DEFINE W(todo) == [Idle EXCEPT !.pc = "check", !.todo = todo,
                         !.latest = history[todo[Len(todo)]].time, !.failed = failed]
<1>1. PICK todo \in ByTime(got) : loop' = [loop EXCEPT ![l] = W(todo)]
  BY DEF Takes
<1>2. /\ todo \in Seq(DOMAIN history)
      /\ history[todo[Len(todo)]].time \in 0..LastTime
  BY <1>1, ByTimeLists
<1>3. 0 \in 0..Len(rows)
  BY Parts DEF Types
<1>4. W(todo) \in Worker(DOMAIN history, Len(rows))
  BY <1>2, <1>3 DEF Idle, Worker, Pc, Act
<1>5. W(todo).pc = "check" /\ W(todo).todo = todo
  BY DEF Idle
<1> HIDE DEF W
<1> QED
  BY <1>1, <1>4, <1>5

LEMMA FetchIs ==
  ASSUME Types, NEW l \in Loop, Fetch(l)
  PROVE  \E w \in Worker(DOMAIN history, Len(rows)) :
           loop' = [loop EXCEPT ![l] = w] /\ Fetches(l, w)
<1>0. /\ Idle \in Worker(DOMAIN history, Len(rows))
      /\ [Idle EXCEPT !.pc = "ask"] \in Worker(DOMAIN history, Len(rows))
      /\ Idle.pc = "idle" /\ Idle.todo = <<>>
      /\ [Idle EXCEPT !.pc = "ask"].pc = "ask" /\ [Idle EXCEPT !.pc = "ask"].todo = <<>>
  <2>1. Idle \in Worker(DOMAIN history, Len(rows))
    BY IdleWorker, Parts DEF Types
  <2>2. [Idle EXCEPT !.pc = "ask"] \in Worker(DOMAIN history, Len(rows))
    BY <2>1 DEF Worker, Pc
  <2> QED
    BY <2>1, <2>2 DEF Idle
<1>1. CASE \E asked \in SUBSET Traded : Begin(l, asked)
  <2>1. loop' = [loop EXCEPT ![l] = [Idle EXCEPT !.pc = "ask"]]
    BY <1>1 DEF Begin
  <2> QED
    BY <1>0, <2>1 DEF Fetches
<1>2. CASE AskSymbol(l)
  <2>1. /\ loop[l] \in Worker(DOMAIN history, Len(rows)) /\ loop[l].pc = "ask"
        /\ loop' = [loop EXCEPT ![l] = loop[l]]
    <3>1. loop \in [Loop -> Worker(DOMAIN history, Len(rows))]
      BY DEF Types, TypeOK, Worker
    <3> QED
      BY <1>2, <3>1 DEF AskSymbol
  <2> QED
    BY <2>1 DEF Fetches
<1>3. CASE Arrange(l)
  <2>1. /\ mode = "incremental" /\ loop[l].pc = "ask"
        /\ IF ask[l].got = {} THEN loop' = [loop EXCEPT ![l] = Idle]
           ELSE Takes(l, ask[l].got, ask[l].failed)
    BY <1>3 DEF Arrange
  <2>2. ask[l].got \in SUBSET (DOMAIN history) /\ ask[l].failed \in BOOLEAN
    BY DEF Types, TypeOK, AskRecord
  <2>3. CASE ask[l].got = {}
    BY <1>0, <2>1, <2>3 DEF Fetches
  <2>4. CASE ask[l].got # {}
    <3>1. PICK w \in Worker(DOMAIN history, Len(rows)) :
            /\ loop' = [loop EXCEPT ![l] = w]
            /\ w.pc = "check" /\ w.todo \in ByTime(ask[l].got)
      BY <2>1, <2>2, <2>4, TakesIs
    <3> QED
      BY <2>1, <2>2, <2>4, <3>1 DEF Fetches
  <2> QED
    BY <2>3, <2>4
<1>4. CASE FetchDay(l)
  <2>1. /\ mode # "incremental" /\ OfLastDay # {} /\ Takes(l, OfLastDay, FALSE)
        /\ OfLastDay \in SUBSET (DOMAIN history)
    BY <1>4 DEF FetchDay, OfLastDay
  <2>2. PICK w \in Worker(DOMAIN history, Len(rows)) :
          /\ loop' = [loop EXCEPT ![l] = w]
          /\ w.pc = "check" /\ w.todo \in ByTime(OfLastDay)
    BY <2>1, TakesIs
  <2> QED
    BY <2>1, <2>2 DEF Fetches
<1> QED
  BY <1>1, <1>2, <1>3, <1>4 DEF Fetch

(* What a step that asks leaves alone.                                     *)
LEMMA FetchLeaves ==
  ASSUME NEW l \in Loop, Fetch(l)
  PROVE  /\ UNCHANGED <<mode, history, account, orders, fills, rows, posts, crashes,
                        lastSync, now>>
         /\ Fails \/ UNCHANGED failures
<1>1. CASE \E asked \in SUBSET Traded : Begin(l, asked)
  BY <1>1 DEF Begin, dbVars
<1>2. CASE AskSymbol(l) \/ Arrange(l) \/ FetchDay(l)
  BY <1>2 DEF AskSymbol, Arrange, FetchDay, dbVars, faultVars, askVars
<1> QED
  BY <1>1, <1>2 DEF Fetch

LEMMA LastIds ==
  ASSUME TypeOK
  PROVE  /\ \A sym \in Symbol : MaxTradeId(sym) \in 0..MaxTrades
         /\ fills # {} => LastFillTime \in Time
         /\ DayAgo \in 0..LastTime
         /\ SyncFrom \in 0..(LastTime + Buffer)
<1>1. /\ fills \in SUBSET (1..Len(history)) /\ Len(history) \in Nat
      /\ Len(history) <= MaxTrades /\ MaxTrades \in Nat
  BY Parts, BookBounds DEF TypeOK
<1>2. ASSUME NEW sym \in Symbol PROVE MaxTradeId(sym) \in 0..MaxTrades
  <2> DEFINE ids == {i \in fills : history[i].sym = sym}
  <2>1. CASE ids = {}
    BY <1>1, <2>1 DEF MaxTradeId
  <2>2. CASE ids # {}
    <3>1. MaxTradeId(sym) = Max(ids)
      BY <2>2 DEF MaxTradeId
    <3>2. ids \in SUBSET (1..Len(history))
      BY <1>1
    <3> HIDE DEF ids
    <3>3. Max(ids) \in 1..Len(history)
      BY <1>1, <2>2, <3>2, MaxIs
    <3> QED
      BY <1>1, <3>1, <3>3
  <2> QED
    BY <2>1, <2>2
<1>3. ASSUME fills # {} PROVE LastFillTime \in Time
  <2> DEFINE times == {history[i].time : i \in fills}
  <2>0. \A i \in fills : history[i].time \in 1..LastTime
    BY Parts DEF TypeOK, TradeRecord, Time
  <2>1. times \in SUBSET (1..LastTime) /\ times # {} /\ LastTime \in Nat
    BY <1>3, <2>0, BookBounds
  <2>2. Max(times) \in times
    BY <2>1, MaxIs
  <2> QED
    BY <2>1, <2>2 DEF LastFillTime, Time
<1>4. DayAgo \in 0..LastTime
  BY BookAssumption, BookBounds DEF DayAgo, TypeOK, Time
<1>5. SyncFrom \in 0..(LastTime + Buffer)
  BY <1>3, <1>4, BookBounds DEF SyncFrom, TypeOK, Time, Buffer
<1> QED
  BY <1>2, <1>3, <1>4, <1>5

LEMMA FetchAsks ==
  ASSUME Types, NEW l \in Loop, Fetch(l)
  PROVE  ask' \in [Loop -> AskRecord(DOMAIN history)]
<1>0. ask \in [Loop -> AskRecord(DOMAIN history)] /\ TypeOK
  BY DEF Types, TypeOK
<1>1. ASSUME NEW asked \in SUBSET Traded, Begin(l, asked)
      PROVE  ask' \in [Loop -> AskRecord(DOMAIN history)]
  <2>1. PICK lost \in {"none", "time", "ids", "recent"} :
          ask' = [ask EXCEPT ![l] =
            [NoAsk EXCEPT !.from = IF lost = "time" THEN DayAgo ELSE SyncFrom,
                          !.ids = [s \in Symbol |-> IF lost = "ids" THEN 0
                                                    ELSE MaxTradeId(s)],
                          !.left = asked]]
    BY <1>1 DEF Begin
  <2>2. asked \in SUBSET Symbol
    BY <1>0, Parts DEF Traded, TradeRecord
  <2>3. (IF lost = "time" THEN DayAgo ELSE SyncFrom) \in 0..(LastTime + Buffer)
    BY <1>0, LastIds, BookBounds DEF Buffer
  <2>4. [s \in Symbol |-> IF lost = "ids" THEN 0 ELSE MaxTradeId(s)]
          \in [Symbol -> 0..MaxTrades]
    BY <1>0, LastIds, BookBounds
  <2>5. ASSUME NEW f \in 0..(LastTime + Buffer), NEW m \in [Symbol -> 0..MaxTrades]
        PROVE  [NoAsk EXCEPT !.from = f, !.ids = m, !.left = asked]
                 \in AskRecord(DOMAIN history)
    BY <2>2, NoAskTypes DEF AskRecord
  <2> QED
    BY <1>0, <2>1, <2>3, <2>4, <2>5
<1>2. CASE AskSymbol(l)
  <2>1. PICK sym \in ask[l].left :
          \/ ask' = [ask EXCEPT ![l] =
               [ask[l] EXCEPT !.left = ask[l].left \ {sym},
                              !.got = ask[l].got \union Answer(ask[l], sym)]]
          \/ ask' = [ask EXCEPT ![l] =
               [ask[l] EXCEPT !.left = ask[l].left \ {sym}, !.failed = TRUE]]
    BY <1>2 DEF AskSymbol
  <2>2. Answer(ask[l], sym) \subseteq DOMAIN history
    BY DEF Answer, FirstPage
  <2>3. ask[l] \in AskRecord(DOMAIN history)
    BY <1>0
  <2>4. /\ [ask[l] EXCEPT !.left = ask[l].left \ {sym},
                          !.got = ask[l].got \union Answer(ask[l], sym)]
              \in AskRecord(DOMAIN history)
        /\ [ask[l] EXCEPT !.left = ask[l].left \ {sym}, !.failed = TRUE]
              \in AskRecord(DOMAIN history)
    BY <2>2, <2>3 DEF AskRecord
  <2> QED
    BY <1>0, <2>1, <2>4
<1>3. CASE Arrange(l)
  BY <1>0, <1>3, NoAskTypes DEF Arrange
<1>4. CASE FetchDay(l)
  BY <1>0, <1>4 DEF FetchDay, askVars
<1> QED
  BY <1>1, <1>2, <1>3, <1>4 DEF Fetch

LEMMA TypesFetch == ASSUME Types, NEW l \in Loop, Fetch(l) PROVE Types'
<1>1. PICK w \in Worker(DOMAIN history, Len(rows)) :
        loop' = [loop EXCEPT ![l] = w] /\ Fetches(l, w)
  BY FetchIs
<1>2. /\ UNCHANGED <<mode, history, account, dbVars, posts, crashes, lastSync, now>>
      /\ Fails \/ UNCHANGED failures
  BY FetchLeaves DEF dbVars
<1>3. lastSync' \in 0..LastTime /\ AskTypes'
  BY <1>2, FetchAsks DEF Types, TypeOK, AskTypes
<1>4. /\ w.pc \in Stored /\ w.todo # <<>> => Head(w.todo) \in orders
      /\ w.pc \in Posting => /\ w.act # "none"
                             /\ w.act # "create" => w.row \in DOMAIN rows
  BY <1>1 DEF Fetches, Stored, Posting, Types, RecordedFirst, RowExists, Cur
<1> QED
  BY <1>1, <1>2, <1>3, <1>4, QuietTypes
LEMMA TypesCheck == ASSUME Types, NEW l \in Loop, Check(l) PROVE Types'
<1>1. /\ loop[l].todo # <<>>
      /\ Fails \/ UNCHANGED failures
      /\ NextTrade(l) \/ Goto(l, "order")
      /\ UNCHANGED <<mode, history, account, dbVars, lastSync, posts, crashes, askVars>>
  BY DEF Check, At
<1>2. lastSync' \in 0..LastTime /\ AskTypes'
  BY <1>1, AskTypesKept DEF Types, TypeOK
<1>3. \E w \in Worker(DOMAIN history, Len(rows)) :
        loop' = [loop EXCEPT ![l] = w] /\ w.pc \in {"check", "order"}
  <2>1. CASE NextTrade(l)
    BY <1>1, <2>1, NextTradeSteps
  <2>2. CASE Goto(l, "order")
    BY <2>2, GotoSteps DEF Pc
  <2> QED
    BY <1>1, <2>1, <2>2
<1> QED
  BY <1>1, <1>2, <1>3, QuietTypes DEF Stored, Posting

LEMMA TypesCreateOrder == ASSUME Types, NEW l \in Loop, CreateOrder(l) PROVE Types'
<1>1. loop[l].todo # <<>> /\ UNCHANGED <<mode, history, account, fills, rows, lastSync,
                                         posts, crashes, askVars>>
  BY DEF CreateOrder, At
<1>2. /\ rows \in Seq(Row) /\ Len(rows) <= Len(rows) /\ posts \in [Id -> Nat]
      /\ orders \subseteq DOMAIN history /\ fills \subseteq orders
      /\ lastSync \in 0..LastTime /\ AskTypes'
  BY <1>1, AskTypesKept DEF Types, TypeOK
<1>3. CASE orders' = orders \union {Cur(l)} /\ Goto(l, "fill") /\ UNCHANGED failures
  <2>1. /\ orders \subseteq orders' /\ Cur(l) \in orders'
        /\ orders' \subseteq DOMAIN history /\ fills \subseteq orders'
    BY <1>1, <1>2, <1>3, AtCur DEF Types
  <2>2. PICK w \in Worker(DOMAIN history, Len(rows)) :
          /\ loop' = [loop EXCEPT ![l] = w] /\ w.pc = "fill" /\ w.todo = loop[l].todo
    BY <1>3, GotoSteps DEF Pc
  <2>3. failures' \in 0..MaxFailures
    BY <1>3, FailsTypes DEF Types
  <2>4. w.pc \notin Posting /\ Head(w.todo) \in orders'
    BY <2>1, <2>2 DEF Posting, Cur
  <2> QED
    BY <1>1, <1>2, <2>1, <2>2, <2>3, <2>4, StepTypes
<1>4. CASE Fails /\ NextTrade(l) /\ UNCHANGED orders
  BY <1>1, <1>2, <1>4, NextTradeTypes
<1> QED
  BY <1>3, <1>4 DEF CreateOrder

LEMMA TypesCreateFill == ASSUME Types, NEW l \in Loop, CreateFill(l) PROVE Types'
<1>1. /\ loop[l].pc = "fill" /\ loop[l].todo # <<>>
      /\ Fails \/ UNCHANGED failures
      /\ fills' = fills \union {Cur(l)} \/ UNCHANGED fills
      /\ Goto(l, "find")
      /\ UNCHANGED <<mode, history, account, orders, rows, lastSync, posts, crashes, askVars>>
  BY DEF CreateFill, At
<1>2. /\ rows \in Seq(Row) /\ Len(rows) <= Len(rows) /\ posts \in [Id -> Nat]
      /\ orders \subseteq DOMAIN history /\ fills \subseteq orders
      /\ lastSync \in 0..LastTime /\ AskTypes'
  BY <1>1, AskTypesKept DEF Types, TypeOK
<1>3. Cur(l) \in orders
  BY <1>1 DEF Types, RecordedFirst, Stored
<1>4. PICK w \in Worker(DOMAIN history, Len(rows)) :
        /\ loop' = [loop EXCEPT ![l] = w] /\ w.pc = "find" /\ w.todo = loop[l].todo
  BY <1>1, GotoSteps DEF Pc
<1>5. failures' \in 0..MaxFailures
  BY <1>1, FailsTypes DEF Types
<1>6. w.pc \notin Posting /\ Head(w.todo) \in orders /\ fills' \subseteq orders
  BY <1>1, <1>2, <1>3, <1>4 DEF Posting, Cur
<1> QED
  BY <1>1, <1>2, <1>4, <1>5, <1>6, StepTypes

(* l goes on to s with the trade and a row to change or to create.         *)
Stands(l, w, s) ==
  /\ w \in Worker(DOMAIN history, Len(rows))
  /\ loop' = [loop EXCEPT ![l] = w]
  /\ w.pc = s /\ w.todo = loop[l].todo /\ w.act # "none"
  /\ w.latest = loop[l].latest /\ w.failed = loop[l].failed
  /\ w.act # "create" => w.row \in DOMAIN rows

(* What Find leaves a goroutine with.                                      *)
LEMMA FindIs ==
  ASSUME Types, NEW l \in Loop, Find(l)
  PROVE  LET t == CurTrade(l) IN
         /\ loop[l].pc = "find" /\ loop[l].todo # <<>>
         /\ Fails \/ UNCHANGED failures
         /\ UNCHANGED <<mode, history, account, dbVars, lastSync, posts, crashes, askVars>>
         /\ \/ NextTrade(l)
            \/ \E w : /\ Stands(l, w, "read")
                      /\ w.act = "create" => OpenRows(t.sym, t.side) = {}
<1> DEFINE t == CurTrade(l)
           r == OpenRow(t.sym, t.side)
           held == IF r = 0 THEN 0 ELSE rows[r].qty
           act == IF OrderAction(t) = "open"
                  THEN IF r = 0 THEN "create" ELSE "add"
                  ELSE IF IsPartial(t, held) THEN "reduce" ELSE "close"
           w == [loop[l] EXCEPT !.pc = "read", !.act = act, !.row = r, !.seen = held]
<1>1. /\ loop[l].pc = "find" /\ loop[l].todo # <<>>
      /\ Fails \/ UNCHANGED failures
      /\ UNCHANGED <<mode, history, account, dbVars, lastSync, posts, crashes, askVars>>
      /\ \/ NextTrade(l)
         \/ /\ ~(r = 0 /\ OrderAction(t) = "close")
            /\ loop' = [loop EXCEPT ![l] = w]
  BY DEF Find, At
<1>2. /\ OpenRows(t.sym, t.side) \subseteq DOMAIN rows
      /\ OpenRows(t.sym, t.side) = {} => r = 0
      /\ OpenRows(t.sym, t.side) # {} => r \in OpenRows(t.sym, t.side)
  BY OpenRowIs DEF Types
<1>3. /\ DOMAIN rows = 1..Len(rows) /\ Len(rows) \in Nat
      /\ \A k \in DOMAIN rows : rows[k].qty \in Nat
  BY Parts DEF Types, Row
<1>4. /\ r \in 0..Len(rows) /\ (r # 0 => r \in DOMAIN rows)
      /\ (r = 0 <=> OpenRows(t.sym, t.side) = {})
  BY <1>2, <1>3
<1>5. held \in Nat
  BY <1>3, <1>4
<1>6. act \in {"create", "add", "reduce", "close"} /\ act \in Act /\ act # "none"
      /\ (act = "create" => r = 0)
  BY DEF Act
<1>7. OrderAction(t) \in {"open", "close"}
  BY <1>1, AtCur DEF OrderAction, TradeRecord, Kind, Types
<1>8. ~(r = 0 /\ OrderAction(t) = "close") => (act # "create" => r # 0)
  BY <1>7
<1> HIDE DEF act, held, r, t
<1>9. /\ w \in Worker(DOMAIN history, Len(rows))
      /\ w.pc = "read" /\ w.todo = loop[l].todo /\ w.act = act /\ w.row = r
      /\ w.latest = loop[l].latest /\ w.failed = loop[l].failed
  <2>1. loop[l] \in Worker(DOMAIN history, Len(rows))
    BY Parts DEF Types
  <2> QED
    BY <1>4, <1>5, <1>6, <2>1 DEF Worker, Pc
<1> HIDE DEF w
<1>10. CASE NextTrade(l)
  BY <1>1, <1>10
<1>11. CASE ~NextTrade(l)
  <2>1. Stands(l, w, "read")
    BY <1>1, <1>4, <1>6, <1>8, <1>9, <1>11 DEF Stands
  <2>2. w.act = "create" => OpenRows(t.sym, t.side) = {}
    BY <1>4, <1>6, <1>9
  <2> QED
    BY <1>1, <2>1, <2>2 DEF t
<1> QED
  BY <1>10, <1>11
LEMMA TypesFind == ASSUME Types, NEW l \in Loop, Find(l) PROVE Types'
<1>1. /\ loop[l].pc = "find" /\ loop[l].todo # <<>>
      /\ Fails \/ UNCHANGED failures
      /\ UNCHANGED <<mode, history, account, dbVars, lastSync, posts, crashes, askVars>>
  BY FindIs
<1>2. /\ lastSync' \in 0..LastTime /\ AskTypes'
      /\ Cur(l) \in orders
  BY <1>1, AskTypesKept DEF Types, TypeOK, RecordedFirst, Stored
<1>3. \E w \in Worker(DOMAIN history, Len(rows)) :
        /\ loop' = [loop EXCEPT ![l] = w]
        /\ \/ w.pc = "check"
           \/ /\ w.pc = "read" /\ w.todo = loop[l].todo /\ w.act # "none"
              /\ w.act # "create" => w.row \in DOMAIN rows
  <2>1. CASE NextTrade(l)
    BY <1>1, <2>1, NextTradeSteps
  <2>2. CASE ~NextTrade(l)
    BY <2>2, FindIs DEF Stands
  <2> QED
    BY <2>1, <2>2
<1> QED
  BY <1>1, <1>2, <1>3, QuietTypes DEF Stored, Posting, Cur

(* What Read leaves a goroutine with.                                      *)
LEMMA ReadIs ==
  ASSUME Types, NEW l \in Loop, Read(l)
  PROVE  /\ loop[l].pc = "read" /\ loop[l].todo # <<>>
         /\ Fails \/ UNCHANGED failures
         /\ UNCHANGED <<mode, history, account, dbVars, lastSync, posts, crashes, askVars>>
         /\ \/ NextTrade(l)
            \/ \E w : /\ Stands(l, w, "write")
                      /\ w.act = "create" => loop[l].act = "create"
<1> DEFINE same == SamePosition(CurTrade(l))
           open == {r \in same : rows[r].status = "OPEN"}
           Reread(r, act) == [loop[l] EXCEPT !.pc = "write", !.act = act, !.row = r,
                                             !.seen = rows[r].qty]
<1>1. /\ loop[l].pc = "read" /\ loop[l].todo # <<>>
      /\ Fails \/ UNCHANGED failures
      /\ UNCHANGED <<mode, history, account, dbVars, lastSync, posts, crashes, askVars>>
      /\ \/ /\ loop[l].act # "create"
            /\ loop' = [loop EXCEPT ![l] = Reread(loop[l].row, loop[l].act)]
         \/ \E r \in open : loop' = [loop EXCEPT ![l] = Reread(r, "add")]
         \/ NextTrade(l)
         \/ loop[l].act = "create" /\ Goto(l, "write")
  BY DEF Read, At
<1>2. /\ open \subseteq DOMAIN rows
      /\ DOMAIN rows = 1..Len(rows) /\ Len(rows) \in Nat
      /\ \A k \in DOMAIN rows : rows[k].qty \in Nat
  BY Parts DEF Types, Row, SamePosition
<1>3. /\ loop[l] \in Worker(DOMAIN history, Len(rows))
      /\ loop[l].act # "none"
      /\ loop[l].act # "create" => loop[l].row \in DOMAIN rows
  BY <1>1, Parts DEF Types, RowExists, Posting
<1>4. ASSUME NEW r \in DOMAIN rows, NEW act \in Act
      PROVE  /\ Reread(r, act) \in Worker(DOMAIN history, Len(rows))
             /\ Reread(r, act).pc = "write" /\ Reread(r, act).todo = loop[l].todo
             /\ Reread(r, act).act = act /\ Reread(r, act).row = r
             /\ Reread(r, act).latest = loop[l].latest
             /\ Reread(r, act).failed = loop[l].failed
  <2> DEFINE k == rows[r].qty
  <2>1. k \in Nat /\ r \in 0..Len(rows) /\ "write" \in Pc
    BY <1>2 DEF Pc
  <2> HIDE DEF k
  <2>2. Reread(r, act) = [loop[l] EXCEPT !.pc = "write", !.act = act, !.row = r, !.seen = k]
    BY DEF k
  <2> HIDE DEF Reread
  <2> QED
    BY <1>3, <2>1, <2>2 DEF Worker
<1> HIDE DEF Reread
<1>5. CASE /\ loop[l].act # "create"
           /\ loop' = [loop EXCEPT ![l] = Reread(loop[l].row, loop[l].act)]
  <2>1. loop[l].act \in Act /\ loop[l].row \in DOMAIN rows
    BY <1>3, <1>5 DEF Worker
  <2>2. /\ Stands(l, Reread(loop[l].row, loop[l].act), "write")
        /\ Reread(loop[l].row, loop[l].act).act # "create"
    BY <1>3, <1>4, <1>5, <2>1 DEF Stands
  <2> QED
    BY <1>1, <2>2
<1>6. CASE \E r \in open : loop' = [loop EXCEPT ![l] = Reread(r, "add")]
  <2>1. "add" \in Act
    BY DEF Act
  <2>2. PICK r \in DOMAIN rows : loop' = [loop EXCEPT ![l] = Reread(r, "add")]
    BY <1>2, <1>6
  <2>3. Stands(l, Reread(r, "add"), "write") /\ Reread(r, "add").act = "add"
    BY <1>4, <2>1, <2>2 DEF Stands
  <2> QED
    BY <1>1, <2>3
<1>7. CASE NextTrade(l)
  BY <1>1, <1>7
<1>8. CASE loop[l].act = "create" /\ Goto(l, "write")
  <2>1. PICK w \in Worker(DOMAIN history, Len(rows)) :
          /\ loop' = [loop EXCEPT ![l] = w] /\ w.pc = "write"
          /\ w.todo = loop[l].todo /\ w.act = loop[l].act
          /\ w.latest = loop[l].latest /\ w.failed = loop[l].failed
    BY <1>8, GotoSteps DEF Pc
  <2>2. Stands(l, w, "write")
    BY <1>8, <2>1 DEF Stands
  <2> QED
    BY <1>1, <1>8, <2>2
<1> QED
  BY <1>1, <1>5, <1>6, <1>7, <1>8

LEMMA TypesRead == ASSUME Types, NEW l \in Loop, Read(l) PROVE Types'
<1>1. /\ loop[l].pc = "read" /\ loop[l].todo # <<>>
      /\ Fails \/ UNCHANGED failures
      /\ UNCHANGED <<mode, history, account, dbVars, lastSync, posts, crashes, askVars>>
  BY ReadIs
<1>2. /\ lastSync' \in 0..LastTime /\ AskTypes'
      /\ Cur(l) \in orders
  BY <1>1, AskTypesKept DEF Types, TypeOK, RecordedFirst, Stored
<1>3. \E w \in Worker(DOMAIN history, Len(rows)) :
        /\ loop' = [loop EXCEPT ![l] = w]
        /\ \/ w.pc = "check"
           \/ /\ w.pc = "write" /\ w.todo = loop[l].todo /\ w.act # "none"
              /\ w.act # "create" => w.row \in DOMAIN rows
  <2>1. CASE NextTrade(l)
    BY <1>1, <2>1, NextTradeSteps
  <2>2. CASE ~NextTrade(l)
    BY <2>2, ReadIs DEF Stands
  <2> QED
    BY <2>1, <2>2
<1> QED
  BY <1>1, <1>2, <1>3, QuietTypes DEF Stored, Posting, Cur
(* What Write does to the rows.                                            *)
LEMMA WriteIs ==
  ASSUME Types, NEW l \in Loop, Write(l)
  PROVE  LET t == CurTrade(l) IN
         /\ loop[l].pc = "write" /\ loop[l].todo # <<>> /\ NextTrade(l)
         /\ Fails \/ UNCHANGED failures
         /\ UNCHANGED <<mode, history, account, orders, fills, lastSync, crashes, askVars>>
         /\ \/ UNCHANGED rows
            \/ /\ loop[l].act = "create" /\ SamePosition(t) = {}
               /\ rows' = Append(rows, NewRow(t))
            \/ /\ rows' \in Seq(Row) /\ DOMAIN rows' = DOMAIN rows
               /\ \A r \in DOMAIN rows :
                    /\ rows'[r].sym = rows[r].sym /\ rows'[r].side = rows[r].side
                    /\ rows'[r].status \in {rows[r].status, "CLOSED"}
         /\ rows' \in Seq(Row) /\ Len(rows) <= Len(rows')
         /\ \/ UNCHANGED posts
            \/ posts' = [posts EXCEPT ![Cur(l)] = @ + 1]
<1> DEFINE t == CurTrade(l)
           act == loop[l].act
           k == loop[l].row
           changed == [rows EXCEPT ![k] = Written(act, @, loop[l].seen, t.qty)]
           after == IF act = "create" THEN Inserted(t) ELSE changed
<1>1. /\ loop[l].pc = "write" /\ loop[l].todo # <<>> /\ NextTrade(l)
      /\ Fails \/ UNCHANGED failures
      /\ UNCHANGED <<mode, history, account, orders, fills, lastSync, crashes, askVars>>
      /\ rows' = after \/ UNCHANGED rows
      /\ UNCHANGED posts \/ posts' = [posts EXCEPT ![Cur(l)] = @ + 1]
  BY DEF Write, At
<1>2. rows \in Seq(Row) /\ Len(rows) \in Nat /\ Len(rows) <= Len(rows)
      /\ \A r \in DOMAIN rows : rows[r] \in Row
  BY Parts DEF Types, TypeOK
<1>3. t \in TradeRecord
  BY <1>1, AtCur DEF Types
<1>4. /\ act \in Act \ {"none"} /\ loop[l].seen \in Nat
      /\ act # "create" => k \in DOMAIN rows
  BY <1>1, Parts DEF Types, RowExists, Posting, Worker
<1>5. CASE UNCHANGED rows
  BY <1>1, <1>2, <1>5
<1>6. CASE rows' = after /\ act = "create"
  <2>1. rows' = Inserted(t)
    BY <1>6
  <2> HIDE DEF t, after
  <2>2. /\ rows' \in Seq(Row) /\ Len(rows) <= Len(rows')
        /\ SamePosition(t) = {} => rows' = Append(rows, NewRow(t))
        /\ SamePosition(t) # {} =>
             /\ DOMAIN rows' = DOMAIN rows
             /\ \A r \in DOMAIN rows :
                    /\ rows'[r].sym = rows[r].sym /\ rows'[r].side = rows[r].side
                    /\ rows'[r].status \in {rows[r].status, "CLOSED"}
    BY <1>3, <2>1, InsertedRows DEF Types
  <2> QED
    BY <1>1, <1>6, <2>2 DEF t
<1>7. CASE rows' = after /\ act # "create"
  <2>1. act \in {"add", "reduce", "close"} /\ k \in DOMAIN rows /\ t.qty \in Nat
    BY <1>3, <1>4, <1>7, TradeQty DEF Act
  <2> DEFINE new == Written(act, rows[k], loop[l].seen, t.qty)
  <2>2. /\ new \in Row /\ new.sym = rows[k].sym /\ new.side = rows[k].side
        /\ new.status \in {rows[k].status, "CLOSED"}
    <3> DEFINE q == t.qty
               seen == loop[l].seen
               row == rows[k]
    <3>1. row \in Row /\ seen \in Nat /\ q \in Nat
      BY <1>2, <1>4, <2>1
    <3>2. new = Written(act, row, seen, q)
      OBVIOUS
    <3>0. act \in {"add", "reduce", "close"}
      BY <2>1
    <3> HIDE DEF new, act, q, seen, row
    <3>3. /\ new \in Row /\ new.sym = row.sym /\ new.side = row.side
          /\ new.status \in {row.status, "CLOSED"}
      BY <3>0, <3>1, <3>2, WrittenRow
    <3> QED
      BY <3>3 DEF row
  <2>3. rows' = [rows EXCEPT ![k] = new]
    BY <1>7
  <2>0. DOMAIN rows = 1..Len(rows) /\ rows \in [1..Len(rows) -> Row]
    BY <1>2
  <2> HIDE DEF new, t, after, act, k
  <2>4. rows' \in Seq(Row) /\ DOMAIN rows' = DOMAIN rows /\ Len(rows') = Len(rows)
    <3>1. rows' \in [1..Len(rows) -> Row]
      BY <2>0, <2>1, <2>2, <2>3
    <3>2. rows' \in Seq(Row) /\ Len(rows') = Len(rows)
      BY <1>2, <3>1
    <3> QED
      BY <2>0, <3>1, <3>2
  <2>5. \A r \in DOMAIN rows : rows'[r] = IF r = k THEN new ELSE rows[r]
    BY <2>3
  <2>6. \A r \in DOMAIN rows :
          /\ rows'[r].sym = rows[r].sym /\ rows'[r].side = rows[r].side
          /\ rows'[r].status \in {rows[r].status, "CLOSED"}
    BY <2>2, <2>5
  <2>7. Len(rows) <= Len(rows')
    BY <1>2, <2>4
  <2> QED
    BY <1>1, <2>4, <2>6, <2>7 DEF t
<1> QED
  BY <1>1, <1>5, <1>6, <1>7

LEMMA TypesWrite == ASSUME Types, NEW l \in Loop, Write(l) PROVE Types'
<1>1. /\ loop[l].todo # <<>> /\ NextTrade(l)
      /\ Fails \/ UNCHANGED failures
      /\ UNCHANGED <<mode, history, account, orders, fills, lastSync, crashes, askVars>>
      /\ rows' \in Seq(Row) /\ Len(rows) <= Len(rows')
      /\ UNCHANGED posts \/ posts' = [posts EXCEPT ![Cur(l)] = @ + 1]
  BY WriteIs
<1>2. posts' \in [Id -> Nat]
  <2>1. posts \in [Id -> Nat] /\ Cur(l) \in Id
    BY <1>1, AtCur DEF Types, TypeOK
  <2> QED
    BY <1>1, <2>1
<1> QED
  BY <1>1, <1>2, NextTradeTypes

LEMMA TypesFinish == ASSUME Types, NEW l \in Loop, Finish(l) PROVE Types'
<1>1. /\ loop' = [loop EXCEPT ![l] = Idle]
      /\ UNCHANGED <<mode, history, account, dbVars, posts, crashes, failures, askVars>>
      /\ lastSync' \in {loop[l].latest, lastSync}
  BY DEF Finish, faultVars
<1>2. loop[l].latest \in 0..LastTime /\ lastSync \in 0..LastTime /\ AskTypes'
  BY <1>1, Parts, AskTypesKept DEF Worker, Types, TypeOK
<1>3. Idle \in Worker(DOMAIN history, Len(rows))
  BY IdleWorker, Parts DEF Types
<1>4. Idle.pc = "idle"
  BY DEF Idle
<1> HIDE DEF Idle
<1> QED
  BY <1>1, <1>2, <1>3, <1>4, QuietTypes DEF Stored, Posting

LEMMA TypesCrash == ASSUME Types, Crash PROVE Types'
<1>1. /\ crashes' = crashes + 1 /\ crashes < MaxCrashes
      /\ loop' = [l \in Loop |-> Idle] /\ lastSync' = 0
      /\ UNCHANGED <<mode, history, account, orders, fills, rows, posts, failures, now>>
      /\ ask' = [l \in Loop |-> NoAsk]
  BY DEF Crash, dbVars
<1>2. crashes' \in 0..MaxCrashes /\ lastSync' \in 0..LastTime
  BY <1>1, BookBounds DEF Types, TypeOK
<1>3. Idle \in Worker(DOMAIN history, Len(rows))
  BY IdleWorker, Parts DEF Types
<1>4. loop' \in [Loop -> Worker(DOMAIN history', Len(rows'))]
  BY <1>1, <1>3
<1>5. TypeOK'
  BY <1>1, <1>2, <1>4, NoAskTypes DEF Types, TypeOK, Worker
<1>6. RecordedFirst' /\ RowExists'
  BY <1>1 DEF RecordedFirst, RowExists, Idle, Stored, Posting
<1> QED
  BY <1>5, <1>6 DEF Types

LEMMA TypesNext == Types /\ [Next]_vars => Types'
<1> SUFFICES ASSUME Types, [Next]_vars PROVE Types'
  OBVIOUS
<1>1. CASE UNCHANGED vars
  BY <1>1 DEF vars, dbVars, faultVars, askVars, Types, TypeOK, RecordedFirst, RowExists, Cur
<1>2. CASE Exchange
  BY <1>2, TypesExchange
<1>5. CASE Tick
  BY <1>5, TypesTick
<1>3. CASE Crash
  BY <1>3, TypesCrash
<1>4. CASE \E l \in Loop : Sync(l)
  BY <1>4, TypesFetch, TypesCheck, TypesCreateOrder, TypesCreateFill, TypesFind,
     TypesRead, TypesWrite, TypesFinish DEF Sync
<1> QED
  BY <1>1, <1>2, <1>3, <1>4, <1>5 DEF Next

(* Every variable keeps to its type, for any number of goroutines on the   *)
(* account, any lots and any faults: a position is changed only where      *)
(* there is one, and a fill is stored only after its order.                *)
THEOREM TypeCorrect == Spec => []TypeOK
<1>1. Types => TypeOK
  BY DEF Types
<1> QED
  BY <1>1, TypesInit, TypesNext, PTL DEF Spec
-----------------------------------------------------------------------------
(* One goroutine.                                                          *)
LEMMA Alone ==
  ASSUME Cardinality(Loop) = 1, NEW l \in Loop, NEW k \in Loop
  PROVE  k = l
  BY FS_Singleton, BookAssumption

LEMMA GotoMoves ==
  ASSUME Types, NEW l \in Loop, NEW s \in Pc, Goto(l, s)
  PROVE  loop'[l].pc = s /\ loop'[l].todo = loop[l].todo /\ loop'[l].act = loop[l].act
<1>1. loop \in [Loop -> Worker(DOMAIN history, Len(rows))]
  BY DEF Types, TypeOK, Worker
<1> DEFINE w == [loop[l] EXCEPT !.pc = s]
<1>2. /\ loop' = [loop EXCEPT ![l] = w]
      /\ w.pc = s /\ w.todo = loop[l].todo /\ w.act = loop[l].act
  BY GotoSteps
<1> HIDE DEF w
<1> QED
  BY <1>1, <1>2

LEMMA NextTradeMoves ==
  ASSUME Types, NEW l \in Loop, loop[l].todo # <<>>, NextTrade(l)
  PROVE  loop'[l].pc = "check" /\ loop'[l].todo = Tail(loop[l].todo)
<1>1. loop \in [Loop -> Worker(DOMAIN history, Len(rows))]
  BY DEF Types, TypeOK, Worker
<1>2. PICK w : /\ loop' = [loop EXCEPT ![l] = w]
               /\ w.pc = "check" /\ w.todo = Tail(loop[l].todo)
  BY NextTradeSteps
<1> QED
  BY <1>1, <1>2

LEMMA FetchMoves ==
  ASSUME Types, NEW l \in Loop, Fetch(l)
  PROVE  Fetches(l, loop'[l])
<1>1. loop \in [Loop -> Worker(DOMAIN history, Len(rows))]
  BY DEF Types, TypeOK, Worker
<1>2. PICK w \in Worker(DOMAIN history, Len(rows)) :
        loop' = [loop EXCEPT ![l] = w] /\ Fetches(l, w)
  BY FetchIs
<1> QED
  BY <1>1, <1>2

LEMMA CrashMoves ==
  ASSUME NEW l \in Loop, Crash \/ Finish(l), Types
  PROVE  loop'[l].pc = "idle" /\ loop'[l].todo = <<>>
<1>1. loop \in [Loop -> Worker(DOMAIN history, Len(rows))]
  BY DEF Types, TypeOK, Worker
<1>2. loop'[l] = Idle
  BY <1>1 DEF Crash, Finish
<1> QED
  BY <1>2 DEF Idle

(* A failure is never forgotten.                                           *)
LEMMA FailureStays ==
  ASSUME Types, [Next]_vars, failures' = 0
  PROVE  failures = 0 /\ ~Fails
<1>1. failures \in Nat
  BY BookBounds DEF Types, TypeOK
<1>2. ~Fails
  BY <1>1 DEF Fails
<1>3. UNCHANGED failures
  <2>1. CASE UNCHANGED vars
    BY <2>1 DEF vars, faultVars
  <2>2. CASE Exchange \/ Tick
    BY <2>2 DEF Exchange, Execute, Tick, faultVars
  <2>3. CASE Crash
    BY <2>3 DEF Crash
  <2>4. ASSUME NEW l \in Loop, Fetch(l) \/ Finish(l) PROVE UNCHANGED failures
    BY <1>2, <2>4, FetchLeaves DEF Finish, faultVars
  <2>5. ASSUME NEW l \in Loop, Check(l) \/ CreateOrder(l) \/ CreateFill(l) \/ Write(l)
        PROVE  UNCHANGED failures
    BY <1>2, <2>5 DEF Check, CreateOrder, CreateFill, Write
  <2>6. ASSUME NEW l \in Loop, Find(l) \/ Read(l) PROVE UNCHANGED failures
    BY <1>2, <2>6, FindIs, ReadIs
  <2> QED
    BY <2>1, <2>2, <2>3, <2>4, <2>5, <2>6 DEF Next, Sync
<1> QED
  BY <1>2, <1>3
-----------------------------------------------------------------------------
(* While nothing fails, what is posted has an order row, and what is on    *)
(* its way to be posted has not been.                                      *)
PostedHasOrder == \A i \in Id : posts[i] <= 1 /\ (posts[i] > 0 => i \in orders)
OnItsWay ==
  \A l \in Loop : loop[l].todo # <<>> =>
    /\ loop[l].pc = "order" => Cur(l) \notin orders
    /\ loop[l].pc \in Stored => posts[Cur(l)] = 0
PostedOnce == failures = 0 => PostedHasOrder /\ OnItsWay

LEMMA PostedOnceInit == Init => PostedOnce
<1> SUFFICES ASSUME Init PROVE PostedHasOrder /\ OnItsWay
  BY DEF PostedOnce
<1>1. \A i \in Id : posts[i] = 0
  BY DEF Init
<1>2. \A l \in Loop : loop[l].todo = <<>>
  <2>1. Idle.todo = <<>>
    BY DEF Idle
  <2>2. \A l \in Loop : loop[l] = Idle
    BY DEF Init
  <2> QED
    BY <2>1, <2>2
<1> QED
  BY <1>1, <1>2 DEF PostedHasOrder, OnItsWay

LEMMA PostedOnceNext ==
  ASSUME Cardinality(Loop) = 1, Types, PostedOnce, [Next]_vars
  PROVE  PostedOnce'
<1> SUFFICES ASSUME failures' = 0 PROVE PostedHasOrder' /\ OnItsWay'
  BY DEF PostedOnce
<1>0. /\ failures = 0 /\ ~Fails /\ PostedHasOrder /\ OnItsWay
  BY FailureStays DEF PostedOnce
<1>1. CASE UNCHANGED vars
  BY <1>0, <1>1 DEF vars, dbVars, PostedHasOrder, OnItsWay, Cur
<1>2. CASE Exchange
  BY <1>0, <1>2 DEF Exchange, Execute, dbVars, PostedHasOrder, OnItsWay, Cur
<1>5. CASE Tick
  BY <1>0, <1>5 DEF Tick, dbVars, PostedHasOrder, OnItsWay, Cur
<1>3. CASE Crash
  <2>1. PostedHasOrder'
    BY <1>0, <1>3 DEF Crash, dbVars, PostedHasOrder
  <2>2. OnItsWay'
    BY <1>3, CrashMoves DEF OnItsWay
  <2> QED
    BY <2>1, <2>2
<1>4. ASSUME NEW l \in Loop, Sync(l) PROVE PostedHasOrder' /\ OnItsWay'
  <2>0. OnItsWay' <=>
          (loop'[l].todo # <<>> =>
             /\ loop'[l].pc = "order" => Head(loop'[l].todo) \notin orders'
             /\ loop'[l].pc \in Stored => posts'[Head(loop'[l].todo)] = 0)
    BY Alone DEF OnItsWay, Cur
  <2>1. CASE Fetch(l)
    <3>1. /\ UNCHANGED <<orders, posts>>
          /\ loop'[l].pc \in {"ask", "idle", "check"}
      BY <2>1, FetchMoves, FetchLeaves DEF Fetches
    <3> QED
      BY <1>0, <2>0, <3>1 DEF Stored, PostedHasOrder
  <2>2. CASE Finish(l)
    <3>1. UNCHANGED <<orders, posts>> /\ loop'[l].pc = "idle"
      BY <2>2, CrashMoves DEF Finish, dbVars
    <3> QED
      BY <1>0, <2>0, <3>1 DEF Stored, PostedHasOrder
  <2>3. CASE Check(l)
    <3>1. /\ UNCHANGED <<orders, posts>> /\ loop[l].todo # <<>>
          /\ \/ NextTrade(l)
             \/ Goto(l, "order") /\ Cur(l) \notin orders
      BY <1>0, <2>3 DEF Check, At, dbVars
    <3>2. \/ loop'[l].pc = "check"
          \/ loop'[l].pc = "order" /\ Head(loop'[l].todo) \notin orders
      BY <3>1, NextTradeMoves, GotoMoves DEF Pc, Cur
    <3> QED
      BY <1>0, <2>0, <3>1, <3>2 DEF Stored, PostedHasOrder
  <2>4. CASE CreateOrder(l)
    <3>1. /\ orders' = orders \union {Cur(l)} /\ UNCHANGED posts /\ Goto(l, "fill")
          /\ loop[l].pc = "order" /\ loop[l].todo # <<>>
      BY <1>0, <2>4 DEF CreateOrder, At
    <3>2. Cur(l) \in Id /\ posts[Cur(l)] \in Nat /\ Cur(l) \notin orders
      BY <1>0, <3>1, AtCur DEF Types, TypeOK, OnItsWay
    <3>3. posts[Cur(l)] = 0
      BY <1>0, <3>2 DEF PostedHasOrder
    <3>4. loop'[l].pc = "fill" /\ Head(loop'[l].todo) = Cur(l)
      BY <3>1, GotoMoves DEF Pc, Cur
    <3> QED
      BY <1>0, <2>0, <3>1, <3>3, <3>4 DEF PostedHasOrder
  <2>5. CASE CreateFill(l)
    <3>1. /\ UNCHANGED <<orders, posts>> /\ Goto(l, "find")
          /\ loop[l].pc = "fill" /\ loop[l].todo # <<>>
      BY <2>5 DEF CreateFill, At
    <3>2. loop'[l].pc = "find" /\ Head(loop'[l].todo) = Cur(l)
      BY <3>1, GotoMoves DEF Pc, Cur
    <3>3. posts[Cur(l)] = 0
      BY <1>0, <3>1 DEF OnItsWay, Stored
    <3> QED
      BY <1>0, <2>0, <3>1, <3>2, <3>3 DEF PostedHasOrder
  <2>6. CASE Find(l) \/ Read(l)
    <3>1. /\ UNCHANGED <<orders, posts>> /\ loop[l].todo # <<>>
          /\ loop[l].pc \in Stored
      BY <2>6, FindIs, ReadIs DEF dbVars, Stored
    <3>2. posts[Cur(l)] = 0
      BY <1>0, <3>1 DEF OnItsWay
    <3>3. CASE NextTrade(l)
      <4>1. loop'[l].pc = "check"
        BY <3>1, <3>3, NextTradeMoves
      <4> QED
        BY <1>0, <2>0, <3>1, <4>1 DEF PostedHasOrder, Stored
    <3>4. CASE ~NextTrade(l)
      <4>1. \E w, s : Stands(l, w, s) /\ s \in Posting
        BY <2>6, <3>4, FindIs, ReadIs DEF Posting
      <4>2. loop'[l].pc \in Posting /\ Head(loop'[l].todo) = Cur(l)
        BY <4>1 DEF Stands, Cur, Types, TypeOK
      <4> QED
        BY <1>0, <2>0, <3>1, <3>2, <4>2 DEF PostedHasOrder, Posting
    <3> QED
      BY <3>3, <3>4
  <2>7. CASE Write(l)
    <3>1. /\ UNCHANGED orders /\ loop[l].todo # <<>> /\ NextTrade(l)
          /\ loop[l].pc \in Stored
          /\ UNCHANGED posts \/ posts' = [posts EXCEPT ![Cur(l)] = @ + 1]
      BY <2>7, WriteIs DEF Stored
    <3>2. /\ posts \in [Id -> Nat] /\ Cur(l) \in Id /\ Cur(l) \in orders
          /\ posts[Cur(l)] = 0
      BY <1>0, <3>1, AtCur DEF OnItsWay, Types, TypeOK, RecordedFirst
    <3>3. loop'[l].pc = "check"
      BY <3>1, NextTradeMoves
    <3>4. PostedHasOrder'
      BY <1>0, <3>1, <3>2 DEF PostedHasOrder
    <3> QED
      BY <2>0, <3>3, <3>4 DEF Stored
  <2> QED
    BY <1>4, <2>1, <2>2, <2>3, <2>4, <2>5, <2>6, <2>7 DEF Sync
<1> QED
  BY <1>1, <1>2, <1>3, <1>4, <1>5 DEF Next

(* order_sync.go, position_builder.go: one goroutine posts no trade to the *)
(* positions twice, however often a sync is cut off and begun again and    *)
(* whatever the exchange answers, for any number of trades and symbols.    *)
THEOREM OneLoopPostsOnceAlways == Spec => []OneLoopPostsOnce
<1> DEFINE Inv == Types /\ (Cardinality(Loop) = 1 => PostedOnce)
<1>1. Init => Inv
  BY TypesInit, PostedOnceInit
<1>2. Inv /\ [Next]_vars => Inv'
  BY TypesNext, PostedOnceNext
<1>3. Inv => OneLoopPostsOnce
  BY DEF OneLoopPostsOnce, PostedOnce, PostedHasOrder
<1> HIDE DEF Inv
<1> QED
  BY <1>1, <1>2, <1>3, PTL DEF Spec
-----------------------------------------------------------------------------
(* Two open rows of a symbol and side are the same row, and a row about to *)
(* be created has none beside it.                                          *)
RowsUnique ==
  \A r, q \in DOMAIN rows :
    /\ rows[r].status = "OPEN" /\ rows[q].status = "OPEN"
    /\ rows[r].sym = rows[q].sym /\ rows[r].side = rows[q].side
    => r = q
CreatesAlone ==
  \A l \in Loop :
    loop[l].todo # <<>> /\ loop[l].pc \in Posting /\ loop[l].act = "create" =>
      OpenRows(CurTrade(l).sym, CurTrade(l).side) = {}
Unique == RowsUnique /\ CreatesAlone

LEMMA UniqueInit == Init => Unique
<1> SUFFICES ASSUME Init PROVE Unique
  OBVIOUS
<1>1. rows = <<>>
  BY DEF Init
<1>2. \A sym, side : OpenRows(sym, side) = {}
  BY <1>1 DEF OpenRows
<1> QED
  BY <1>1, <1>2 DEF Unique, RowsUnique, CreatesAlone

(* The trade a goroutine works on stays what it is.                        *)
LEMMA UniqueKept ==
  ASSUME Unique, UNCHANGED rows,
         \A l \in Loop :
           \/ loop'[l].todo = <<>>
           \/ loop'[l].pc \notin Posting
           \/ loop'[l].act # "create"
           \/ OpenRows(CurTrade(l).sym, CurTrade(l).side)' = {}
  PROVE  Unique'
  BY DEF Unique, RowsUnique, CreatesAlone

LEMMA UniqueNext ==
  ASSUME Cardinality(Loop) = 1, Types, Unique, [Next]_vars
  PROVE  Unique'
<1>1. CASE UNCHANGED vars
  BY <1>1 DEF vars, dbVars, Unique, RowsUnique, CreatesAlone, OpenRows, CurTrade, Cur
<1>5. CASE Tick
  BY <1>5 DEF Tick, dbVars, Unique, RowsUnique, CreatesAlone, OpenRows, CurTrade, Cur
<1>2. CASE Exchange
  <2>1. /\ \E t : history' = Append(history, t)
        /\ UNCHANGED <<rows, loop>>
    BY <1>2 DEF Exchange, Execute, dbVars
  <2>2. PICK t : history' = Append(history, t)
    BY <2>1
  <2>3. history \in Seq(TradeRecord)
    BY DEF Types, TypeOK
  <2>4. \A i \in DOMAIN history : history'[i] = history[i]
    BY <2>2, <2>3
  <2>5. ASSUME NEW l \in Loop, loop[l].todo # <<>> PROVE CurTrade(l)' = CurTrade(l)
    BY <2>1, <2>4, <2>5, AtCur DEF CurTrade, Cur, Types
  <2> QED
    BY <2>1, <2>5 DEF Unique, RowsUnique, CreatesAlone, OpenRows
<1>3. CASE Crash
  <2>1. UNCHANGED rows
    BY <1>3 DEF Crash, dbVars
  <2> QED
    BY <1>3, <2>1, CrashMoves, UniqueKept
<1>4. ASSUME NEW l \in Loop, Sync(l) PROVE Unique'
  <2>1. CASE Fetch(l)
    <3>1. UNCHANGED rows /\ loop'[l].pc \in {"ask", "idle", "check"}
      BY <2>1, FetchMoves, FetchLeaves DEF Fetches
    <3> QED
      BY <3>1, Alone, UniqueKept DEF Posting
  <2>2. CASE Finish(l)
    <3>1. UNCHANGED rows
      BY <2>2 DEF Finish, dbVars
    <3> QED
      BY <2>2, <3>1, Alone, CrashMoves, UniqueKept
  <2>3. CASE Check(l) \/ CreateOrder(l) \/ CreateFill(l)
    <3>1. /\ UNCHANGED rows /\ loop[l].todo # <<>>
          /\ NextTrade(l) \/ (\E s \in {"order", "fill", "find"} : Goto(l, s))
      BY <2>3 DEF Check, CreateOrder, CreateFill, At, dbVars
    <3>2. loop'[l].pc \notin Posting
      BY <3>1, NextTradeMoves, GotoMoves DEF Pc, Posting
    <3> QED
      BY <3>1, <3>2, Alone, UniqueKept
  <2>4. CASE Find(l) \/ Read(l)
    <3>1. /\ UNCHANGED <<rows, history>> /\ loop[l].todo # <<>>
          /\ Find(l) => loop[l].pc = "find"
          /\ Read(l) => loop[l].pc = "read"
      BY <2>4, FindIs, ReadIs DEF dbVars
    <3>2. CASE NextTrade(l)
      <4>1. loop'[l].pc \notin Posting
        BY <3>1, <3>2, NextTradeMoves DEF Posting
      <4> QED
        BY <3>1, <4>1, Alone, UniqueKept
    <3>3. CASE ~NextTrade(l)
      <4> DEFINE t == CurTrade(l)
      <4>1. PICK w, s : /\ Stands(l, w, s)
                        /\ w.act = "create" => \/ OpenRows(t.sym, t.side) = {}
                                               \/ Read(l) /\ loop[l].act = "create"
        BY <2>4, <3>3, FindIs, ReadIs
      <4>2. w.act = "create" => OpenRows(t.sym, t.side) = {}
        BY <3>1, <4>1 DEF Unique, CreatesAlone, Posting
      <4>3. loop'[l] = w /\ w.todo = loop[l].todo
        BY <4>1 DEF Stands, Types, TypeOK
      <4>4. CurTrade(l)' = t
        BY <3>1, <4>3 DEF CurTrade, Cur
      <4>5. OpenRows(CurTrade(l).sym, CurTrade(l).side)' = OpenRows(t.sym, t.side)
        BY <3>1, <4>4 DEF OpenRows
      <4> HIDE DEF t
      <4> QED
        BY <3>1, <4>2, <4>3, <4>5, Alone, UniqueKept
    <3> QED
      BY <3>2, <3>3
  <2>5. CASE Write(l)
    <3> DEFINE t == CurTrade(l)
    <3>1. /\ loop[l].pc = "write" /\ loop[l].todo # <<>> /\ NextTrade(l)
      BY <2>5, WriteIs
    <3>2. loop'[l].pc \notin Posting
      BY <3>1, NextTradeMoves DEF Posting
    <3>3. CreatesAlone'
      BY <3>2, Alone DEF CreatesAlone
    <3>4. rows \in Seq(Row) /\ t \in TradeRecord
      BY <3>1, AtCur DEF Types, TypeOK
    <3>5. CASE UNCHANGED rows
      BY <3>3, <3>5 DEF Unique, RowsUnique
    <3>6. CASE loop[l].act = "create" /\ rows' = Append(rows, NewRow(t))
      <4> DEFINE n == Len(rows) + 1
                 new == NewRow(t)
      <4>1. OpenRows(t.sym, t.side) = {}
        BY <3>1, <3>6 DEF Unique, CreatesAlone, Posting
      <4>2. /\ DOMAIN rows' = DOMAIN rows \union {n}
            /\ \A r \in DOMAIN rows : rows'[r] = rows[r]
            /\ rows'[n] = new
        BY <3>4, <3>6, TradeQty, Grown
      <4>3. \A r \in DOMAIN rows :
              ~(rows[r].status = "OPEN" /\ rows[r].sym = new.sym /\ rows[r].side = new.side)
        BY <4>1 DEF OpenRows, NewRow
      <4> HIDE DEF n, new
      <4>4. RowsUnique'
        BY <4>2, <4>3 DEF Unique, RowsUnique
      <4> QED
        BY <3>3, <4>4 DEF Unique
    <3>7. CASE /\ DOMAIN rows' = DOMAIN rows
               /\ \A r \in DOMAIN rows :
                    /\ rows'[r].sym = rows[r].sym /\ rows'[r].side = rows[r].side
                    /\ rows'[r].status \in {rows[r].status, "CLOSED"}
      BY <3>3, <3>7 DEF Unique, RowsUnique
    <3> QED
      BY <2>5, <3>5, <3>6, <3>7, WriteIs
  <2> QED
    BY <1>4, <2>1, <2>2, <2>3, <2>4, <2>5 DEF Sync
<1> QED
  BY <1>1, <1>2, <1>3, <1>4, <1>5 DEF Next

LEMMA AtMostOne ==
  ASSUME NEW S, \A x, y \in S : x = y
  PROVE  Cardinality(S) <= 1
<1>1. CASE S = {}
  BY <1>1, FS_EmptySet
<1>2. CASE S # {}
  <2>1. PICK x : S = {x}
    BY <1>2
  <2> QED
    BY <2>1, FS_Singleton
<1> QED
  BY <1>1, <1>2

(* position_builder.go handleOpen: with one goroutine on the account a     *)
(* symbol and side never have two open positions, whatever statement fails *)
(* and wherever the process dies.                                          *)
THEOREM OneOpenRowAlways == Spec => []OneOpenRow
<1> DEFINE Inv == Types /\ (Cardinality(Loop) = 1 => Unique)
<1>1. Init => Inv
  BY TypesInit, UniqueInit
<1>2. Inv /\ [Next]_vars => Inv'
  BY TypesNext, UniqueNext
<1>3. Inv => OneOpenRow
  <2> SUFFICES ASSUME Inv, Cardinality(Loop) = 1, NEW p \in Place
               PROVE  Cardinality(OpenRows(p[1], p[2])) <= 1
    BY DEF OneOpenRow
  <2>1. \A r, q \in OpenRows(p[1], p[2]) : r = q
    BY DEF OpenRows, Unique, RowsUnique
  <2> QED
    BY <2>1, AtMostOne
<1> HIDE DEF Inv
<1> QED
  BY <1>1, <1>2, <1>3, PTL DEF Spec
-----------------------------------------------------------------------------
(* The order of the postings. What a sync has still to handle is sorted by *)
(* time, nothing of a symbol that is posted is later than what may still   *)
(* be, and where a sync asks for everything it misses nothing.             *)
TimesGrow ==
  \A i, j \in DOMAIN history : i < j => history[i].time <= history[j].time
Coming(l) == {loop[l].todo[a] : a \in DOMAIN loop[l].todo}
Behind(j, k) ==
  posts[j] > 0 /\ history[j].sym = history[k].sym => history[j].time <= history[k].time

PostedHasFill ==
  /\ \A j \in Id : posts[j] > 0 => j \in fills
  /\ \A l \in Loop :
       loop[l].todo # <<>> /\ loop[l].pc \in {"find", "read", "write"} => Cur(l) \in fills
TodoSorted ==
  \A l \in Loop : \A a, b \in DOMAIN loop[l].todo :
    a <= b => history[loop[l].todo[a]].time <= history[loop[l].todo[b]].time
TodoAfter ==
  \A l \in Loop : \A j \in DOMAIN history :
    /\ \A k \in Coming(l) \ orders : Behind(j, k)
    /\ loop[l].todo # <<>> /\ loop[l].pc \in Stored => Behind(j, Cur(l))
WindowAfter ==
  mode # "incremental" =>
    \A k \in OfLastDay \ orders :
      /\ \A j \in DOMAIN history : Behind(j, k)
      /\ \A l \in Loop :
           k \in Coming(l) \/ \A i \in Coming(l) : history[i].time <= history[k].time

AskAfter ==
  \A l \in Loop : loop[l].pc = "ask" =>
    \A j \in fills :
      /\ ask[l].ids[history[j].sym] \in fills
      /\ history[ask[l].ids[history[j].sym]].sym = history[j].sym
      /\ j <= ask[l].ids[history[j].sym]
      /\ \A i \in ask[l].got : history[i].sym = history[j].sym => j < i

Ordered == failures = 0 => PostedHasFill /\ TodoAfter /\ WindowAfter /\ AskAfter
Sorted == TimesGrow /\ TodoSorted

LEMMA ComingIs ==
  ASSUME TypeOK, NEW l \in Loop
  PROVE  /\ Coming(l) \subseteq DOMAIN history
         /\ loop[l].todo # <<>> => Cur(l) \in Coming(l)
         /\ loop[l].todo = <<>> => Coming(l) = {}
<1> DEFINE q == loop[l].todo
<1>1. q \in Seq(DOMAIN history)
  BY Parts DEF Worker
<1>2. Coming(l) = {q[a] : a \in DOMAIN q} /\ Cur(l) = Head(q)
  BY DEF Coming, Cur
<1> HIDE DEF q
<1>3. ASSUME NEW S, NEW s \in Seq(S)
      PROVE  /\ {s[a] : a \in DOMAIN s} \subseteq S
             /\ s # <<>> => Head(s) \in {s[a] : a \in DOMAIN s}
             /\ s = <<>> => {s[a] : a \in DOMAIN s} = {}
  OBVIOUS
<1>4. /\ Coming(l) \subseteq DOMAIN history
      /\ q # <<>> => Cur(l) \in Coming(l)
      /\ q = <<>> => Coming(l) = {}
  BY <1>1, <1>2, <1>3
<1> QED
  BY <1>4 DEF q

LEMMA TailOf ==
  ASSUME NEW S, NEW q \in Seq(S), q # <<>>
  PROVE  /\ \A a \in DOMAIN Tail(q) : a \in Nat /\ a + 1 \in DOMAIN q /\ Tail(q)[a] = q[a + 1]
         /\ 1 \in DOMAIN q /\ Head(q) = q[1]
         /\ \A b \in DOMAIN q : b = 1 \/ (b - 1 \in DOMAIN Tail(q) /\ Tail(q)[b - 1] = q[b])
         /\ \A b \in DOMAIN q : b \in Nat /\ 1 <= b
  OBVIOUS

(* With the next trade the list loses its head, the earliest of it.        *)
LEMMA NextTradeComing ==
  ASSUME Types, TodoSorted, NEW l \in Loop, loop[l].todo # <<>>, NextTrade(l)
  PROVE  /\ Coming(l)' \subseteq Coming(l)
         /\ \A k \in Coming(l) : k = Cur(l) \/ k \in Coming(l)'
         /\ \A k \in Coming(l) : history[Cur(l)].time <= history[k].time
<1> DEFINE q == loop[l].todo
<1>1. q \in Seq(DOMAIN history) /\ q # <<>>
  BY Parts DEF Worker, Types
<1>2. Coming(l) = {q[a] : a \in DOMAIN q} /\ Cur(l) = Head(q)
  BY DEF Coming, Cur
<1>3. Coming(l)' = {Tail(q)[a] : a \in DOMAIN Tail(q)}
  BY NextTradeMoves DEF Coming
<1>4. \A a, b \in DOMAIN q : a <= b => history[q[a]].time <= history[q[b]].time
  BY DEF TodoSorted
<1> HIDE DEF q
<1>5. /\ \A a \in DOMAIN Tail(q) : a \in Nat /\ a + 1 \in DOMAIN q /\ Tail(q)[a] = q[a + 1]
      /\ 1 \in DOMAIN q /\ Head(q) = q[1]
      /\ \A b \in DOMAIN q : b = 1 \/ (b - 1 \in DOMAIN Tail(q) /\ Tail(q)[b - 1] = q[b])
      /\ \A b \in DOMAIN q : b \in Nat /\ 1 <= b
  BY <1>1, TailOf
<1>6. Coming(l)' \subseteq Coming(l)
  BY <1>2, <1>3, <1>5
<1>7. ASSUME NEW k \in Coming(l) PROVE k = Cur(l) \/ k \in Coming(l)'
  <2>1. PICK b \in DOMAIN q : k = q[b]
    BY <1>2
  <2>2. CASE b = 1
    BY <1>2, <1>5, <2>1, <2>2
  <2>3. CASE b # 1
    <3>1. b - 1 \in DOMAIN Tail(q) /\ Tail(q)[b - 1] = k
      BY <1>5, <2>1, <2>3
    <3> QED
      BY <1>3, <3>1
  <2> QED
    BY <2>2, <2>3
<1>8. \A k \in Coming(l) : history[Cur(l)].time <= history[k].time
  BY <1>2, <1>4, <1>5
<1> QED
  BY <1>6, <1>7, <1>8

(* No trade is of a time to come, and where no two trades of the exchange  *)
(* carry the same time they are all different.                             *)
Past == \A i \in DOMAIN history : history[i].time <= now
Strict ==
  "tie" \notin Env =>
    \A i, j \in DOMAIN history : i < j => history[i].time < history[j].time

LEMMA HistoryStays ==
  ASSUME Types, [Next]_vars
  PROVE  /\ Exchange \/ UNCHANGED history
         /\ Tick \/ UNCHANGED now
<1>1. CASE UNCHANGED vars
  BY <1>1 DEF vars, askVars
<1>2. CASE Crash \/ Exchange \/ Tick
  BY <1>2 DEF Crash, Exchange, Execute, Tick, askVars
<1>3. ASSUME NEW l \in Loop, Find(l) \/ Read(l) \/ Write(l)
      PROVE  UNCHANGED <<history, now>>
  BY <1>3, FindIs, ReadIs, WriteIs DEF askVars
<1>4. ASSUME NEW l \in Loop,
             Fetch(l) \/ Check(l) \/ CreateOrder(l) \/ CreateFill(l) \/ Finish(l)
      PROVE  UNCHANGED <<history, now>>
  BY <1>4, FetchLeaves DEF Check, CreateOrder, CreateFill, Finish, askVars
<1> QED
  BY <1>1, <1>2, <1>3, <1>4 DEF Next, Sync

LEMMA TradeAppended ==
  ASSUME Types, Exchange
  PROVE  \E t \in TradeRecord : history' = Append(history, t)
<1>1. PICK sym \in Symbol, side \in Side, kind \in Kind, even \in BOOLEAN,
           qty \in Lot : Execute(sym, side, kind, even, qty)
  BY DEF Exchange
<1> DEFINE t == [sym |-> sym, side |-> side, kind |-> kind, even |-> even,
                 qty |-> qty, time |-> now]
<1>2. history' = Append(history, t)
  BY <1>1 DEF Execute
<1>3. t \in TradeRecord
  BY DEF TradeRecord, Types, TypeOK
<1> QED
  BY <1>2, <1>3

LEMMA PastInit == Init => Past /\ Strict
  BY DEF Init, Past, Strict

(* A trade the exchange adds is the latest.                                *)
LEMMA NewIsLatest ==
  ASSUME Types, TimesGrow, Past, Exchange
  PROVE  \E t \in TradeRecord :
           /\ history' = Append(history, t) /\ t.time = now
           /\ \A i \in DOMAIN history : /\ history[i].time <= t.time
                                        /\ "tie" \notin Env => history[i].time < t.time
<1>1. PICK sym \in Symbol, side \in Side, kind \in Kind, even \in BOOLEAN,
           qty \in Lot : Execute(sym, side, kind, even, qty)
  BY DEF Exchange
<1> DEFINE t == [sym |-> sym, side |-> side, kind |-> kind, even |-> even,
                 qty |-> qty, time |-> now]
<1>2. history' = Append(history, t) /\ ("tie" \in Env \/ LastTraded < now)
  BY <1>1 DEF Execute
<1>3. t \in TradeRecord /\ t.time = now
  BY DEF TradeRecord, Types, TypeOK
<1>4. ASSUME NEW i \in DOMAIN history, "tie" \notin Env PROVE history[i].time < now
  <2> DEFINE n == Len(history)
  <2>1. /\ DOMAIN history = 1..n /\ n \in Nat /\ now \in Nat
        /\ \A j \in DOMAIN history : history[j].time \in Nat
    BY Parts, BookBounds DEF Types, TypeOK, TradeRecord, Time
  <2>2. n \in DOMAIN history /\ history # <<>> /\ (i < n \/ i = n)
    BY <2>1
  <2>3. history[i].time <= history[n].time
    BY <2>1, <2>2 DEF TimesGrow
  <2>4. LastTraded = history[n].time
    BY <2>2 DEF LastTraded
  <2> HIDE DEF n
  <2> QED
    BY <1>2, <1>4, <2>1, <2>2, <2>3, <2>4
<1> HIDE DEF t
<1> QED
  BY <1>2, <1>3, <1>4 DEF Past

LEMMA PastNext ==
  ASSUME Types, TimesGrow, Past, Strict, [Next]_vars
  PROVE  Past' /\ Strict'
<1>0. now \in Nat /\ \A i \in DOMAIN history : history[i].time \in Nat
  BY Parts, BookBounds DEF Types, TypeOK, TradeRecord, Time
<1>1. CASE Exchange
  <2>1. PICK t \in TradeRecord :
           /\ history' = Append(history, t) /\ t.time = now
           /\ \A i \in DOMAIN history : /\ history[i].time <= t.time
                                        /\ "tie" \notin Env => history[i].time < t.time
    BY <1>1, NewIsLatest
  <2>2. history \in Seq(TradeRecord) /\ UNCHANGED now
    BY <1>1 DEF Types, TypeOK, Exchange, Execute, askVars
  <2> DEFINE n == Len(history) + 1
  <2>3. /\ \A i \in DOMAIN history : history'[i] = history[i]
        /\ history'[n] = t /\ DOMAIN history' = DOMAIN history \union {n}
    BY <2>1, <2>2, Grown
  <2>4. n \in Nat /\ \A i \in DOMAIN history : i \in Nat /\ i < n
    BY Parts DEF Types
  <2> HIDE DEF n
  <2>5. Past'
    BY <1>0, <2>1, <2>2, <2>3 DEF Past
  <2>6. \A i, j \in DOMAIN history' : i < j =>
          i \in DOMAIN history /\ (j = n \/ j \in DOMAIN history)
    BY <2>3, <2>4
  <2>7. Strict'
    BY <2>1, <2>3, <2>6 DEF Strict
  <2> QED
    BY <2>5, <2>7
<1>2. CASE ~Exchange
  <2>1. UNCHANGED history /\ (Tick \/ UNCHANGED now)
    BY <1>2, HistoryStays
  <2>2. now' = now \/ now' = now + 1
    BY <2>1 DEF Tick
  <2>3. \A i \in DOMAIN history : history[i].time <= now'
    BY <1>0, <2>2 DEF Past
  <2> QED
    BY <2>1, <2>3 DEF Past, Strict
<1> QED
  BY <1>1, <1>2

LEMMA SortedInit == Init => Sorted
<1> SUFFICES ASSUME Init PROVE Sorted
  OBVIOUS
<1>1. history = <<>>
  BY DEF Init
<1>2. \A l \in Loop : loop[l].todo = <<>>
  <2>1. Idle.todo = <<>>
    BY DEF Idle
  <2> QED
    BY <2>1 DEF Init
<1> QED
  BY <1>1, <1>2 DEF Sorted, TimesGrow, TodoSorted

LEMMA SortedNext ==
  ASSUME Cardinality(Loop) = 1, Types, Sorted, Past, [Next]_vars
  PROVE  Sorted'
<1> USE DEF Sorted
<1>1. CASE UNCHANGED <<history, loop>>
  BY <1>1 DEF TimesGrow, TodoSorted
<1>2. CASE Exchange
  <2>1. PICK t \in TradeRecord : /\ history' = Append(history, t)
                                 /\ \A i \in DOMAIN history : history[i].time <= t.time
    BY <1>2, NewIsLatest
  <2>2. history \in Seq(TradeRecord) /\ UNCHANGED loop
    BY <1>2 DEF Types, TypeOK, Exchange, Execute
  <2> DEFINE n == Len(history) + 1
  <2>3. /\ \A i \in DOMAIN history : history'[i] = history[i]
        /\ history'[n] = t /\ DOMAIN history' = DOMAIN history \union {n}
    BY <2>1, <2>2, Grown
  <2>4. \A i \in DOMAIN history : i \in Nat /\ i < n
    BY Parts DEF Types
  <2>5. t.time <= t.time
    BY BookBounds DEF TradeRecord, Time
  <2>6. n \in Nat
    BY Parts DEF Types
  <2> HIDE DEF n
  <2>7. TimesGrow'
    <3> SUFFICES ASSUME NEW i \in DOMAIN history', NEW j \in DOMAIN history', i < j
                 PROVE  history'[i].time <= history'[j].time
      BY DEF TimesGrow
    <3>1. CASE i = n
      <4>1. j = n
        BY <2>3, <2>4, <2>6, <3>1
      <4> QED
        BY <2>5, <2>3, <3>1, <4>1
    <3>2. CASE i # n /\ j = n
      BY <2>1, <2>3, <3>2
    <3>3. CASE i # n /\ j # n
      BY <2>3, <3>3 DEF TimesGrow
    <3> QED
      BY <3>1, <3>2, <3>3
  <2>8. TodoSorted'
    <3>1. \A l \in Loop : \A a \in DOMAIN loop[l].todo : loop[l].todo[a] \in DOMAIN history
      BY ComingIs DEF Coming, Types
    <3> QED
      BY <2>2, <2>3, <3>1 DEF TodoSorted
  <2> QED
    BY <2>7, <2>8
<1>3. ASSUME UNCHANGED history, NEW l \in Loop,
             \/ loop'[l].todo = <<>>
             \/ loop'[l].todo = loop[l].todo
             \/ loop[l].todo # <<>> /\ NextTrade(l)
             \/ \E got \in SUBSET (DOMAIN history) : loop'[l].todo \in ByTime(got)
      PROVE  Sorted'
  <2>1. TimesGrow'
    BY <1>3 DEF TimesGrow
  <2>2. TodoSorted' <=>
          \A a, b \in DOMAIN loop'[l].todo :
            a <= b => history[loop'[l].todo[a]].time <= history[loop'[l].todo[b]].time
    BY <1>3, Alone DEF TodoSorted
  <2>3. CASE loop'[l].todo = <<>>
    BY <2>1, <2>2, <2>3
  <2>4. CASE loop'[l].todo = loop[l].todo
    BY <2>1, <2>2, <2>4 DEF TodoSorted
  <2>5. CASE loop[l].todo # <<>> /\ NextTrade(l)
    <3> DEFINE q == loop[l].todo
    <3>1. q \in Seq(DOMAIN history) /\ q # <<>> /\ loop'[l].todo = Tail(q)
      BY <2>5, Parts, NextTradeMoves DEF Worker, Types
    <3>2. \A a, b \in DOMAIN q : a <= b => history[q[a]].time <= history[q[b]].time
      BY DEF TodoSorted
    <3> HIDE DEF q
    <3>3. \A a \in DOMAIN Tail(q) : a \in Nat /\ a + 1 \in DOMAIN q /\ Tail(q)[a] = q[a + 1]
      BY <3>1, TailOf
    <3>4. ASSUME NEW a \in DOMAIN Tail(q), NEW b \in DOMAIN Tail(q), a <= b
          PROVE  history[Tail(q)[a]].time <= history[Tail(q)[b]].time
      <4>1. a + 1 <= b + 1
        BY <3>3, <3>4
      <4> QED
        BY <3>2, <3>3, <4>1
    <3> QED
      BY <2>1, <2>2, <3>1, <3>4
  <2>6. CASE \E got \in SUBSET (DOMAIN history) : loop'[l].todo \in ByTime(got)
    <3>1. PICK got \in SUBSET (DOMAIN history) : loop'[l].todo \in ByTime(got)
      BY <2>6
    <3> DEFINE q == loop'[l].todo
               n == Cardinality(got)
    <3>2. got \subseteq 1..Len(history) /\ IsFiniteSet(1..Len(history))
      BY Parts, FS_Interval DEF Types
    <3>3. n \in Nat
      BY <3>2, FS_Subset, FS_CardinalityType
    <3>4. /\ q \in [1..n -> got]
          /\ \A a, b \in 1..n : a < b => q[a] # q[b] /\ history[q[a]].time <= history[q[b]].time
      BY <3>1 DEF ByTime
    <3>5. \A a \in 1..n : history[q[a]].time <= history[q[a]].time
      <4>1. \A i \in got : history[i].time \in Nat
        BY Parts, BookBounds DEF Types, TradeRecord, Time
      <4>2. \A a \in 1..n : q[a] \in got
        BY <3>4
      <4> HIDE DEF q, n
      <4> QED
        BY <4>1, <4>2
    <3>6. DOMAIN q = 1..n
      BY <3>4
    <3> HIDE DEF q, n
    <3>7. ASSUME NEW a \in DOMAIN q, NEW b \in DOMAIN q, a <= b
          PROVE  history[q[a]].time <= history[q[b]].time
      <4>1. a < b \/ a = b
        BY <3>3, <3>6, <3>7
      <4> QED
        BY <3>4, <3>5, <3>6, <4>1
    <3> QED
      BY <2>1, <2>2, <3>7 DEF q
  <2> QED
    BY <1>3, <2>3, <2>4, <2>5, <2>6
<1>4. CASE Crash
  <2>1. UNCHANGED history /\ \A l \in Loop : loop'[l].todo = <<>>
    BY <1>4, CrashMoves DEF Crash
  <2> QED
    BY <2>1 DEF TimesGrow, TodoSorted
<1>5. ASSUME NEW l \in Loop, Sync(l) PROVE Sorted'
  <2>1. CASE Fetch(l)
    <3>1. UNCHANGED history
      BY <2>1, FetchLeaves
    <3>2. \/ loop'[l].todo = <<>> \/ loop'[l].todo = loop[l].todo
          \/ \E got \in SUBSET (DOMAIN history) : loop'[l].todo \in ByTime(got)
      BY <2>1, FetchMoves DEF Fetches
    <3> QED
      BY <1>3, <3>1, <3>2
  <2>2. CASE Finish(l)
    <3>1. UNCHANGED history
      BY <2>2 DEF Finish
    <3> QED
      BY <1>3, <2>2, <3>1, CrashMoves
  <2>3. CASE Check(l) \/ CreateOrder(l) \/ CreateFill(l)
    <3>1. /\ UNCHANGED history /\ loop[l].todo # <<>>
          /\ NextTrade(l) \/ (\E s \in {"order", "fill", "find"} : Goto(l, s))
      BY <2>3 DEF Check, CreateOrder, CreateFill, At
    <3>2. NextTrade(l) \/ loop'[l].todo = loop[l].todo
      BY <3>1, GotoMoves DEF Pc
    <3> QED
      BY <1>3, <3>1, <3>2
  <2>4. CASE Find(l) \/ Read(l)
    <3>1. /\ UNCHANGED history /\ loop[l].todo # <<>>
          /\ NextTrade(l) \/ \E w, s : Stands(l, w, s)
      BY <2>4, FindIs, ReadIs
    <3>2. NextTrade(l) \/ loop'[l].todo = loop[l].todo
      BY <3>1 DEF Stands, Types, TypeOK
    <3> QED
      BY <1>3, <3>1, <3>2
  <2>5. CASE Write(l)
    BY <1>3, <2>5, WriteIs
  <2> QED
    BY <1>5, <2>1, <2>2, <2>3, <2>4, <2>5 DEF Sync
<1>6. CASE UNCHANGED vars \/ Tick
  BY <1>1, <1>6 DEF vars, Tick
<1> QED
  BY <1>2, <1>4, <1>5, <1>6 DEF Next
-----------------------------------------------------------------------------
LEMMA OrderedInit == Init => Ordered
<1> SUFFICES ASSUME Init PROVE PostedHasFill /\ TodoAfter /\ WindowAfter /\ AskAfter
  BY DEF Ordered
<1>1. history = <<>> /\ fills = {} /\ \A i \in Id : posts[i] = 0
  BY DEF Init
<1>2. \A l \in Loop : loop[l].todo = <<>>
  <2>1. Idle.todo = <<>>
    BY DEF Idle
  <2> QED
    BY <2>1 DEF Init
<1> QED
  BY <1>1, <1>2 DEF PostedHasFill, TodoAfter, WindowAfter, AskAfter, OfLastDay

(* Trades leave what a sync is answered with as time goes on, and never    *)
(* come back.                                                              *)
LEMMA DayMoves ==
  ASSUME Types, [Next]_vars
  PROVE  \A k \in OfLastDay' : k \in DOMAIN history => k \in OfLastDay
<1>0. /\ now \in Nat /\ Day \in Nat /\ Limit \in Nat
      /\ \A i \in DOMAIN history : i \in Nat /\ history[i].time \in Nat
      /\ Len(history) \in Nat /\ history \in Seq(TradeRecord)
  BY Parts, BookAssumption, BookBounds DEF Types, TypeOK, TradeRecord, Time
<1>1. UNCHANGED mode
  <2>1. ASSUME NEW l \in Loop, Sync(l) PROVE UNCHANGED mode
    BY <2>1, FetchLeaves, FindIs, ReadIs, WriteIs
    DEF Sync, Check, CreateOrder, CreateFill, Finish
  <2> QED
    BY <2>1 DEF Next, vars, Exchange, Execute, Tick, Crash
<1>2. /\ DayAgo' \in Nat /\ DayAgo \in Nat /\ DayAgo <= DayAgo'
  <2>1. now' = now \/ now' = now + 1
    BY HistoryStays DEF Tick
  <2> QED
    BY <1>0, <2>1 DEF DayAgo
<1>3. /\ \A k \in DOMAIN history : k \in DOMAIN history' => history'[k] = history[k]
      /\ Len(history') \in Nat /\ Len(history) <= Len(history')
  <2>1. CASE Exchange
    <3>1. PICK t \in TradeRecord : history' = Append(history, t)
      BY <2>1, TradeAppended
    <3> QED
      BY <1>0, <3>1
  <2>2. CASE UNCHANGED history
    BY <1>0, <2>2
  <2> QED
    BY <2>1, <2>2, HistoryStays
<1> SUFFICES ASSUME NEW k \in OfLastDay', k \in DOMAIN history PROVE k \in OfLastDay
  OBVIOUS
<1>4. history[k].time >= DayAgo' /\ (mode = "page" => k + Limit > Len(history'))
  BY <1>1, <1>3 DEF OfLastDay
<1>5. history[k].time >= DayAgo /\ (mode = "page" => k + Limit > Len(history))
  BY <1>0, <1>2, <1>3, <1>4
<1> QED
  BY <1>5 DEF OfLastDay

(* A step that posts nothing and drops nothing that is not recorded.       *)
LEMMA OrderedQuiet ==
  ASSUME Cardinality(Loop) = 1, Types, PostedHasFill, TodoAfter, WindowAfter,
         UNCHANGED <<mode, history, posts>>, OfLastDay' \subseteq OfLastDay,
         orders \subseteq orders', fills \subseteq fills',
         NEW l \in Loop,
         Coming(l)' \subseteq Coming(l),
         \A k \in Coming(l) \ orders' : k \in Coming(l)',
         loop'[l].todo # <<>> /\ loop'[l].pc \in Stored =>
           \A j \in DOMAIN history : Behind(j, Head(loop'[l].todo)),
         loop'[l].todo # <<>> /\ loop'[l].pc \in {"find", "read", "write"} =>
           Head(loop'[l].todo) \in fills'
  PROVE  PostedHasFill' /\ TodoAfter' /\ WindowAfter'
<1>1. PostedHasFill'
  BY Alone DEF PostedHasFill, Cur
<1>2. \A j, k : Behind(j, k)' <=> Behind(j, k)
  BY DEF Behind
<1> HIDE DEF Behind
<1>3. TodoAfter'
  <2> SUFFICES ASSUME NEW j \in DOMAIN history
               PROVE  /\ \A k \in Coming(l)' \ orders' : Behind(j, k)
                      /\ loop'[l].todo # <<>> /\ loop'[l].pc \in Stored =>
                           Behind(j, Head(loop'[l].todo))
    BY <1>2, Alone DEF TodoAfter, Cur
  <2> QED
    BY DEF TodoAfter
<1>4. WindowAfter'
  <2> SUFFICES ASSUME mode # "incremental", NEW k \in OfLastDay \ orders'
               PROVE  /\ \A j \in DOMAIN history : Behind(j, k)
                      /\ k \in Coming(l)' \/ \A i \in Coming(l)' :
                                               history[i].time <= history[k].time
    BY <1>2, Alone DEF WindowAfter
  <2>1. /\ \A j \in DOMAIN history : Behind(j, k)
        /\ k \in Coming(l) \/ \A i \in Coming(l) : history[i].time <= history[k].time
    BY DEF WindowAfter
  <2> QED
    BY <2>1
<1> QED
  BY <1>1, <1>3, <1>4

LEMMA OrderedExchange ==
  ASSUME Types, TimesGrow, Past, PostedHasOrder, PostedHasFill, TodoAfter, WindowAfter,
         Exchange, \A k \in OfLastDay' : k \in DOMAIN history => k \in OfLastDay
  PROVE  PostedHasFill' /\ TodoAfter' /\ WindowAfter'
<1>1. PICK t \in TradeRecord : /\ history' = Append(history, t)
                               /\ \A i \in DOMAIN history : history[i].time <= t.time
  BY NewIsLatest
<1>2. history \in Seq(TradeRecord)
      /\ UNCHANGED <<mode, orders, fills, loop, posts>>
  BY DEF Types, TypeOK, Exchange, Execute, dbVars
<1> DEFINE n == Len(history) + 1
<1>3. /\ \A i \in DOMAIN history : history'[i] = history[i]
      /\ history'[n] = t /\ DOMAIN history' = DOMAIN history \union {n}
  BY <1>1, <1>2, Grown
<1>4. ASSUME NEW j \in DOMAIN history', posts[j] > 0 PROVE j \in DOMAIN history
  <2>1. j \in Id
    <3>1. /\ history' \in Seq(TradeRecord) /\ Len(history') <= MaxTrades
      BY TypesExchange DEF Types, TypeOK
    <3> QED
      BY <3>1, BookBounds DEF Id
  <2> QED
    BY <1>4, <2>1 DEF PostedHasOrder, Types, TypeOK
<1> HIDE DEF n
<1>5. ASSUME NEW j \in DOMAIN history', NEW k \in DOMAIN history,
             j \in DOMAIN history => Behind(j, k)
      PROVE  Behind(j, k)'
  BY <1>2, <1>3, <1>4, <1>5 DEF Behind
<1>6. PostedHasFill'
  BY <1>2 DEF PostedHasFill, Cur
<1>7. \A l \in Loop : Coming(l)' = Coming(l) /\ Cur(l)' = Cur(l) /\ Coming(l) \subseteq DOMAIN history
  BY <1>2, ComingIs DEF Coming, Cur, Types
<1>8. \A l \in Loop : loop[l].todo # <<>> => Cur(l) \in DOMAIN history
  BY AtCur DEF Types
<1>9. TodoAfter'
  <2> SUFFICES ASSUME NEW l \in Loop, NEW j \in DOMAIN history'
               PROVE  /\ \A k \in Coming(l) \ orders : Behind(j, k)'
                      /\ loop[l].todo # <<>> /\ loop[l].pc \in Stored => Behind(j, Cur(l))'
    BY <1>2, <1>7 DEF TodoAfter, Behind
  <2>1. ASSUME NEW k \in Coming(l) \ orders PROVE Behind(j, k)'
    <3>1. k \in DOMAIN history /\ (j \in DOMAIN history => Behind(j, k))
      BY <1>7 DEF TodoAfter
    <3> QED
      BY <1>5, <3>1
  <2>2. ASSUME loop[l].todo # <<>>, loop[l].pc \in Stored PROVE Behind(j, Cur(l))'
    <3>1. Cur(l) \in DOMAIN history /\ (j \in DOMAIN history => Behind(j, Cur(l)))
      BY <1>8, <2>2 DEF TodoAfter
    <3>2. \A k \in DOMAIN history : (j \in DOMAIN history => Behind(j, k)) => Behind(j, k)'
      BY <1>5
    <3>3. Cur(l)' = Cur(l)
      BY <1>7
    <3> QED
      BY <1>2, <1>3, <1>4, <3>1, <3>3 DEF Behind
  <2> QED
    BY <2>1, <2>2
<1>10. WindowAfter'
  <2> SUFFICES ASSUME mode # "incremental", NEW k \in OfLastDay' \ orders
               PROVE  /\ \A j \in DOMAIN history' : Behind(j, k)'
                      /\ \A l \in Loop : k \in Coming(l) \/ \A i \in Coming(l) :
                                           history'[i].time <= history'[k].time
    BY <1>2, <1>7 DEF WindowAfter
  <2>0. k \in DOMAIN history'
    BY DEF OfLastDay
  <2>1. CASE k \in DOMAIN history
    <3>1. /\ \A j \in DOMAIN history : Behind(j, k)
          /\ \A l \in Loop : k \in Coming(l) \/ \A i \in Coming(l) :
                               history[i].time <= history[k].time
      BY <2>1 DEF WindowAfter
    <3>2. \A j \in DOMAIN history' : Behind(j, k)'
      BY <1>5, <2>1, <3>1
    <3> QED
      BY <1>3, <1>7, <2>1, <3>1, <3>2
  <2>2. CASE k \notin DOMAIN history
    <3>1. history'[k] = t
      BY <1>3, <2>0, <2>2
    <3>2. \A j \in DOMAIN history' : Behind(j, k)'
      BY <1>1, <1>2, <1>3, <1>4, <3>1 DEF Behind
    <3> QED
      BY <1>1, <1>3, <1>7, <3>1, <3>2
  <2> QED
    BY <2>1, <2>2
<1> QED
  BY <1>6, <1>9, <1>10

LEMMA GotoComing ==
  ASSUME NEW l \in Loop, loop'[l].todo = loop[l].todo
  PROVE  Coming(l)' = Coming(l) /\ Cur(l)' = Cur(l)
  BY DEF Coming, Cur

(* A list by time holds all that was fetched.                              *)
LEMMA ByTimeHoldsAll ==
  ASSUME Types, NEW got \in SUBSET (DOMAIN history), NEW todo \in ByTime(got)
  PROVE  {todo[a] : a \in DOMAIN todo} = got
<1> DEFINE n == Cardinality(got)
<1>1. got \subseteq 1..Len(history) /\ IsFiniteSet(1..Len(history))
  BY Parts, FS_Interval DEF Types
<1>2. IsFiniteSet(got) /\ n \in Nat
  BY <1>1, FS_Subset, FS_CardinalityType
<1>3. /\ todo \in [1..n -> got]
      /\ \A a, b \in 1..n : a < b => todo[a] # todo[b]
  BY DEF ByTime
<1> HIDE DEF n
<1>4. todo \in Injection(1..n, got)
  BY <1>2, <1>3 DEF Injection, IsInjective
<1>5. Cardinality(1..n) = n
  BY <1>2, FS_Interval
<1>6. todo \in Surjection(1..n, got)
  BY <1>2, <1>4, <1>5, FS_Injection DEF n
<1> QED
  BY <1>3, <1>6 DEF Surjection

(* No trade is fetched that is earlier than a posted one of its symbol.    *)
LEMMA OrderedFetch ==
  ASSUME Cardinality(Loop) = 1, Types, TimesGrow, PostedHasFill, TodoAfter, WindowAfter,
         AskAfter, OfLastDay' \subseteq OfLastDay, NEW l \in Loop, Fetch(l)
  PROVE  PostedHasFill' /\ TodoAfter' /\ WindowAfter'
<1>1. UNCHANGED <<mode, history, orders, fills, posts>>
  BY FetchLeaves
<1>2. Fetches(l, loop'[l])
  BY FetchMoves
<1>3. loop'[l].pc \in {"ask", "idle", "check"}
  BY <1>2 DEF Fetches
<1>5. PostedHasFill'
  BY <1>1, <1>3, Alone DEF PostedHasFill
<1>6. \A j, k : Behind(j, k)' <=> Behind(j, k)
  BY <1>1 DEF Behind
<1>7. CASE loop'[l] = loop[l] /\ loop'[l].pc = "ask"
  <2>1. Coming(l)' = Coming(l)
    BY <1>7, GotoComing
  <2>2. orders \subseteq orders' /\ fills \subseteq fills'
    BY <1>1
  <2> QED
    BY <1>1, <1>3, <1>7, <2>1, <2>2, OrderedQuiet DEF Stored
<1>8. CASE loop'[l].todo = <<>>
  <2>1. Coming(l)' = {}
    BY <1>8 DEF Coming
  <2>2. TodoAfter'
    BY <1>8, <2>1, Alone DEF TodoAfter
  <2>3. WindowAfter'
    <3> SUFFICES ASSUME mode # "incremental", NEW k \in OfLastDay \ orders
                 PROVE  \A j \in DOMAIN history : Behind(j, k)
      BY <1>1, <1>6, <2>1, Alone DEF WindowAfter
    <3> QED
      BY DEF WindowAfter
  <2> QED
    BY <1>5, <2>2, <2>3
<1>9. CASE \E got \in SUBSET (DOMAIN history) :
             /\ loop'[l].todo \in ByTime(got)
             /\ \/ mode = "incremental" /\ loop[l].pc = "ask" /\ got = ask[l].got
                \/ mode # "incremental" /\ got = OfLastDay
  <2>1. PICK got \in SUBSET (DOMAIN history) :
             /\ loop'[l].todo \in ByTime(got)
             /\ \/ mode = "incremental" /\ loop[l].pc = "ask" /\ got = ask[l].got
                \/ mode # "incremental" /\ got = OfLastDay
    BY <1>9
  <2>2. Coming(l)' = got
    BY <2>1, ByTimeHoldsAll DEF Coming
  <2>3. ASSUME NEW k \in got \ orders, NEW j \in DOMAIN history PROVE Behind(j, k)
    <3>1. CASE mode # "incremental"
      BY <2>1, <3>1 DEF WindowAfter
    <3>2. CASE mode = "incremental"
      <4> SUFFICES ASSUME posts[j] > 0, history[j].sym = history[k].sym
                   PROVE  history[j].time <= history[k].time
        BY DEF Behind
      <4>1. j \in fills
        BY Parts DEF PostedHasFill, Types
      <4>2. j < k
        BY <2>1, <3>2, <4>1 DEF AskAfter
      <4> QED
        BY <4>2 DEF TimesGrow
    <3> QED
      BY <3>1, <3>2
  <2>4. TodoAfter'
    <3> SUFFICES ASSUME loop'[l].pc \in Stored PROVE FALSE
      BY <1>1, <1>6, <2>2, <2>3, Alone DEF TodoAfter
    <3> QED
      BY <1>3 DEF Stored
  <2>5. WindowAfter'
    <3> SUFFICES ASSUME mode # "incremental", NEW k \in OfLastDay \ orders
                 PROVE  /\ \A j \in DOMAIN history : Behind(j, k)
                        /\ k \in Coming(l)'
      BY <1>1, <1>6, Alone DEF WindowAfter
    <3> QED
      BY <2>1, <2>2 DEF WindowAfter
  <2> QED
    BY <1>5, <2>4, <2>5
<1> QED
  BY <1>2, <1>7, <1>8, <1>9 DEF Fetches

(* What a sync has been answered with is later than every stored trade of  *)
(* its symbol: it asks from the last of them.                              *)
LEMMA AskAfterNext ==
  ASSUME Cardinality(Loop) = 1, Types, AskAfter, ~Fails, [Next]_vars
  PROVE  AskAfter'
<1>1. CASE UNCHANGED <<history, fills, loop, ask>>
  BY <1>1 DEF AskAfter
<1>2. CASE Exchange
  <2>1. UNCHANGED <<fills, loop, ask>> /\ history \in Seq(TradeRecord)
    BY <1>2 DEF Exchange, Execute, dbVars, askVars, Types, TypeOK
  <2>2. PICK t \in TradeRecord : history' = Append(history, t)
    BY <1>2, TradeAppended
  <2>3. \A i \in DOMAIN history : history'[i] = history[i]
    BY <2>1, <2>2, Grown
  <2>4. fills \subseteq DOMAIN history /\ \A l \in Loop : ask[l].got \subseteq DOMAIN history
    BY DEF Types, TypeOK, AskRecord
  <2> QED
    BY <2>1, <2>3, <2>4 DEF AskAfter
<1>3. ASSUME NEW l \in Loop, loop'[l].pc # "ask" PROVE AskAfter'
  BY <1>3, Alone DEF AskAfter
<1>4. CASE Crash
  BY <1>4, CrashMoves DEF AskAfter
<1>5. ASSUME NEW l \in Loop, Sync(l) PROVE AskAfter'
  <2>1. CASE Fetch(l)
    <3>0. /\ UNCHANGED <<history, fills>> /\ ask \in [Loop -> AskRecord(DOMAIN history)]
          /\ fills \in SUBSET (1..Len(history)) /\ Len(history) \in Nat
          /\ \A j \in fills : j \in Nat /\ j > 0 /\ history[j].sym \in Symbol
      BY <2>1, Parts, FetchLeaves DEF Types, TypeOK, TradeRecord
    <3>1. ASSUME NEW asked \in SUBSET Traded, Begin(l, asked) PROVE AskAfter'
      <4>1. PICK lost \in {"none", "time", "ids", "recent"} :
          /\ lost = "none" \/ Fails
          /\ ask' = [ask EXCEPT ![l] =
               [NoAsk EXCEPT !.from = IF lost = "time" THEN DayAgo ELSE SyncFrom,
                             !.ids = [s \in Symbol |-> IF lost = "ids" THEN 0
                                                       ELSE MaxTradeId(s)],
                             !.left = asked]]
        BY <3>1 DEF Begin
      <4>2. /\ ask'[l].ids = [s \in Symbol |-> MaxTradeId(s)]
            /\ ask'[l].got = {}
        BY <3>0, <4>1 DEF NoAsk
      <4>3. ASSUME NEW j \in fills
            PROVE  /\ MaxTradeId(history[j].sym) \in fills
                   /\ history[MaxTradeId(history[j].sym)].sym = history[j].sym
                   /\ j <= MaxTradeId(history[j].sym)
        <5> DEFINE ids == {i \in fills : history[i].sym = history[j].sym}
        <5>1. ids \in SUBSET (1..Len(history)) /\ j \in ids
          BY <3>0
        <5> QED
          BY <3>0, <5>1, MaxIs DEF MaxTradeId
      <4> QED
        BY <3>0, <4>2, <4>3, Alone DEF AskAfter
    <3>2. CASE AskSymbol(l)
      <4>1. loop[l].pc = "ask" /\ UNCHANGED loop
        BY <3>2 DEF AskSymbol
      <4>2. PICK sym \in ask[l].left :
              \/ ask' = [ask EXCEPT ![l] =
                   [ask[l] EXCEPT !.left = ask[l].left \ {sym},
                                  !.got = ask[l].got \union Answer(ask[l], sym)]]
              \/ ask' = [ask EXCEPT ![l] =
                   [ask[l] EXCEPT !.left = ask[l].left \ {sym}, !.failed = TRUE]]
        BY <3>2 DEF AskSymbol
      <4>3. /\ ask'[l].ids = ask[l].ids
            /\ ask'[l].got \subseteq ask[l].got \union Answer(ask[l], sym)
        BY <3>0, <4>2 DEF AskRecord
      <4>4. ASSUME NEW i \in Answer(ask[l], sym), NEW j \in fills,
                   history[i].sym = history[j].sym
            PROVE  j < i
        <5>1. /\ i \in DOMAIN history /\ history[i].sym = sym
              /\ ask[l].ids[sym] > 0 => i > ask[l].ids[sym]
          BY DEF Answer, FirstPage
        <5>2. j <= ask[l].ids[sym]
          BY <4>1, <4>4, <5>1 DEF AskAfter
        <5>3. ask[l].ids[sym] \in Nat /\ i \in Nat
          BY <3>0, <4>4, <5>1, Parts, BookBounds DEF AskRecord, Types
        <5> QED
          BY <3>0, <5>1, <5>2, <5>3
      <4>5. \A j \in fills : /\ ask[l].ids[history[j].sym] \in fills
                             /\ history[ask[l].ids[history[j].sym]].sym = history[j].sym
                             /\ j <= ask[l].ids[history[j].sym]
                             /\ \A i \in ask[l].got :
                                  history[i].sym = history[j].sym => j < i
        BY <4>1 DEF AskAfter
      <4>6. \A j \in fills : \A i \in ask'[l].got :
              history[i].sym = history[j].sym => j < i
        BY <4>3, <4>4, <4>5
      <4> QED
        BY <3>0, <4>3, <4>5, <4>6, Alone DEF AskAfter
    <3>3. CASE Arrange(l) \/ FetchDay(l)
      <4>1. loop \in [Loop -> Worker(DOMAIN history, Len(rows))]
        BY DEF Types, TypeOK, Worker
      <4>2. \/ loop' = [loop EXCEPT ![l] = Idle]
            \/ \E got, failed : Takes(l, got, failed)
        BY <3>3 DEF Arrange, FetchDay
      <4>3. CASE loop' = [loop EXCEPT ![l] = Idle]
        BY <1>3, <4>1, <4>3 DEF Idle
      <4>4. CASE \E got, failed : Takes(l, got, failed)
        <5>1. PICK todo, latest, failed :
                loop' = [loop EXCEPT ![l] =
                  [Idle EXCEPT !.pc = "check", !.todo = todo,
                               !.latest = latest, !.failed = failed]]
          BY <4>4 DEF Takes
        <5> DEFINE w == [Idle EXCEPT !.pc = "check", !.todo = todo,
                                     !.latest = latest, !.failed = failed]
        <5>2. w.pc = "check"
          BY DEF Idle
        <5> HIDE DEF w
        <5>3. loop'[l] = w
          BY <4>1, <5>1 DEF w
        <5> QED
          BY <1>3, <5>2, <5>3
      <4> QED
        BY <4>2, <4>3, <4>4
    <3> QED
      BY <2>1, <3>1, <3>2, <3>3 DEF Fetch
  <2>2. CASE Finish(l)
    BY <1>3, <2>2, CrashMoves
  <2>3. CASE Check(l) \/ CreateOrder(l) \/ CreateFill(l)
    <3>1. /\ loop[l].todo # <<>>
          /\ NextTrade(l) \/ (\E s \in {"order", "fill", "find"} : Goto(l, s))
      BY <2>3 DEF Check, CreateOrder, CreateFill, At
    <3>2. loop'[l].pc # "ask"
      BY <3>1, NextTradeMoves, GotoMoves DEF Pc
    <3> QED
      BY <1>3, <3>2
  <2>4. CASE Find(l) \/ Read(l)
    <3>1. /\ loop[l].todo # <<>>
          /\ NextTrade(l) \/ \E w : Stands(l, w, "read") \/ Stands(l, w, "write")
      BY <2>4, FindIs, ReadIs
    <3>2. loop'[l].pc # "ask"
      BY <3>1, NextTradeMoves DEF Stands, Types, TypeOK
    <3> QED
      BY <1>3, <3>2
  <2>5. CASE Write(l)
    BY <1>3, <2>5, WriteIs, NextTradeMoves
  <2> QED
    BY <1>5, <2>1, <2>2, <2>3, <2>4, <2>5 DEF Sync
<1>6. CASE UNCHANGED vars \/ Tick
  BY <1>1, <1>6 DEF vars, Tick, dbVars, askVars
<1> QED
  BY <1>2, <1>4, <1>5, <1>6 DEF Next

(* Posting the head of the list leaves everything later behind it.         *)
LEMMA OrderedWrite ==
  ASSUME Cardinality(Loop) = 1, Types, TodoSorted, PostedHasFill, TodoAfter, WindowAfter,
         OfLastDay' \subseteq OfLastDay, NEW l \in Loop, Write(l)
  PROVE  PostedHasFill' /\ TodoAfter' /\ WindowAfter'
<1>1. /\ loop[l].pc = "write" /\ loop[l].todo # <<>> /\ NextTrade(l)
      /\ UNCHANGED <<mode, history, orders, fills>>
      /\ UNCHANGED posts \/ posts' = [posts EXCEPT ![Cur(l)] = @ + 1]
  BY WriteIs
<1>2. /\ Cur(l) \in Id /\ Cur(l) \in orders /\ Cur(l) \in fills /\ posts \in [Id -> Nat]
      /\ Cur(l) \in Coming(l)
  BY <1>1, AtCur, ComingIs DEF Types, TypeOK, RecordedFirst, Stored, PostedHasFill
<1>3. \A j \in Id : posts'[j] > 0 => posts[j] > 0 \/ j = Cur(l)
  BY <1>1, <1>2
<1>4. loop'[l].pc = "check"
  BY <1>1, NextTradeMoves
<1>5. PostedHasFill'
  BY <1>1, <1>2, <1>3, <1>4, Alone DEF PostedHasFill
<1>6. /\ Coming(l)' \subseteq Coming(l)
      /\ \A k \in Coming(l) : k = Cur(l) \/ k \in Coming(l)'
      /\ \A k \in Coming(l) : history[Cur(l)].time <= history[k].time
  BY <1>1, NextTradeComing
<1>7. ASSUME NEW j \in DOMAIN history, NEW k, Behind(j, k),
             history[Cur(l)].time <= history[k].time
      PROVE  Behind(j, k)'
  <2>1. j \in Id
    BY Parts DEF Types
  <2> QED
    BY <1>1, <1>3, <1>7, <2>1 DEF Behind
<1>8. TodoAfter'
  <2> SUFFICES ASSUME NEW j \in DOMAIN history, NEW k \in Coming(l)' \ orders
               PROVE  Behind(j, k)'
    BY <1>1, <1>4, Alone DEF TodoAfter, Stored
  <2>1. k \in Coming(l) \ orders
    BY <1>6
  <2>2. Behind(j, k)
    BY <2>1 DEF TodoAfter
  <2> QED
    BY <1>6, <1>7, <2>1, <2>2
<1>9. WindowAfter'
  <2> SUFFICES ASSUME mode # "incremental", NEW k \in OfLastDay \ orders
               PROVE  /\ \A j \in DOMAIN history : Behind(j, k)'
                      /\ k \in Coming(l)' \/ \A i \in Coming(l)' :
                                               history[i].time <= history[k].time
    BY <1>1, Alone DEF WindowAfter
  <2>1. /\ \A j \in DOMAIN history : Behind(j, k)
        /\ k \in Coming(l) \/ \A i \in Coming(l) : history[i].time <= history[k].time
    BY DEF WindowAfter
  <2>2. history[Cur(l)].time <= history[k].time
    BY <1>2, <1>6, <2>1
  <2>3. \A j \in DOMAIN history : Behind(j, k)'
    BY <1>7, <2>1, <2>2
  <2>4. k # Cur(l)
    BY <1>2
  <2> QED
    BY <1>6, <2>1, <2>3, <2>4
<1> QED
  BY <1>5, <1>8, <1>9

LEMMA OrderedNext ==
  ASSUME Cardinality(Loop) = 1, Types, Sorted, Past, PostedOnce, Ordered, [Next]_vars
  PROVE  Ordered'
<1> SUFFICES ASSUME failures' = 0 PROVE PostedHasFill' /\ TodoAfter' /\ WindowAfter'
  BY FailureStays, AskAfterNext DEF Ordered
<1>0. /\ failures = 0 /\ ~Fails /\ PostedHasOrder /\ OnItsWay
      /\ PostedHasFill /\ TodoAfter /\ WindowAfter /\ AskAfter /\ TimesGrow /\ TodoSorted
      /\ \A k \in OfLastDay' : k \in DOMAIN history => k \in OfLastDay
  BY FailureStays, DayMoves DEF PostedOnce, Ordered, Sorted
<1>6. UNCHANGED history => OfLastDay' \subseteq OfLastDay
  <2>1. OfLastDay' \subseteq DOMAIN history'
    BY DEF OfLastDay
  <2> QED
    BY <1>0, <2>1
<1>1. CASE UNCHANGED vars \/ Tick
  <2>1. UNCHANGED <<mode, history, orders, fills, loop, posts>>
    BY <1>1 DEF vars, dbVars, Tick
  <2>2. WindowAfter'
    BY <1>0, <1>6, <2>1 DEF WindowAfter, Coming, Behind
  <2> QED
    BY <1>0, <2>1, <2>2 DEF PostedHasFill, TodoAfter, Coming, Cur, Behind
<1>2. CASE Exchange
  BY <1>0, <1>2, OrderedExchange
<1>3. CASE Crash
  <2>1. UNCHANGED <<mode, history, orders, fills, posts>>
    BY <1>3 DEF Crash, dbVars
  <2>2. \A l \in Loop : loop'[l].todo = <<>> /\ Coming(l)' = {}
    <3>1. \A l \in Loop : loop'[l].todo = <<>>
      BY <1>3, CrashMoves
    <3> QED
      BY <3>1 DEF Coming
  <2>3. WindowAfter'
    BY <1>0, <1>6, <2>1, <2>2 DEF WindowAfter, Behind
  <2> QED
    BY <1>0, <2>1, <2>2, <2>3 DEF PostedHasFill, TodoAfter, Behind
<1>4. ASSUME NEW l \in Loop, Sync(l) PROVE PostedHasFill' /\ TodoAfter' /\ WindowAfter'
  <2>0. ASSUME UNCHANGED <<mode, history, posts, orders, fills>>, loop[l].todo # <<>>,
               Cur(l) \in orders, NextTrade(l)
        PROVE  PostedHasFill' /\ TodoAfter' /\ WindowAfter'
    <3>1. loop'[l].pc = "check"
      BY <2>0, NextTradeMoves
    <3>2. /\ Coming(l)' \subseteq Coming(l)
          /\ \A k \in Coming(l) \ orders' : k \in Coming(l)'
      BY <1>0, <2>0, NextTradeComing
    <3>3. orders \subseteq orders' /\ fills \subseteq fills'
      BY <2>0
    <3> QED
      BY <1>0, <2>0, <3>1, <3>2, <3>3, <1>6, OrderedQuiet DEF Stored
  <2>1. CASE Fetch(l)
    <3>1. UNCHANGED history
      BY <2>1, FetchLeaves
    <3> QED
      BY <1>0, <1>6, <2>1, <3>1, OrderedFetch
  <2>2. CASE Finish(l)
    <3>1. UNCHANGED <<mode, history, orders, fills, posts>> /\ loop[l].todo = <<>>
      BY <2>2 DEF Finish, dbVars
    <3>2. loop'[l].todo = <<>>
      BY <2>2, CrashMoves
    <3>3. Coming(l)' = Coming(l)
      BY <3>1, <3>2, GotoComing
    <3>4. orders \subseteq orders' /\ fills \subseteq fills'
      BY <3>1
    <3> QED
      BY <1>0, <3>1, <3>2, <3>3, <3>4, <1>6, OrderedQuiet
  <2>3. CASE Check(l)
    <3>1. /\ UNCHANGED <<mode, history, orders, fills, posts>> /\ loop[l].todo # <<>>
          /\ \/ NextTrade(l) /\ Cur(l) \in orders
             \/ Goto(l, "order")
      BY <1>0, <2>3 DEF Check, At, dbVars
    <3>2. CASE Goto(l, "order")
      <4>1. loop'[l].pc = "order" /\ loop'[l].todo = loop[l].todo
        BY <3>2, GotoMoves DEF Pc
      <4>2. Coming(l)' = Coming(l)
        BY <4>1, GotoComing
      <4>3. orders \subseteq orders' /\ fills \subseteq fills'
        BY <3>1
      <4> QED
        BY <1>0, <3>1, <4>1, <4>2, <4>3, <1>6, OrderedQuiet DEF Stored
    <3> QED
      BY <2>0, <3>1, <3>2
  <2>4. CASE CreateOrder(l)
    <3>1. /\ orders' = orders \union {Cur(l)} /\ UNCHANGED <<mode, history, fills, posts>>
          /\ Goto(l, "fill") /\ loop[l].pc = "order" /\ loop[l].todo # <<>>
      BY <1>0, <2>4 DEF CreateOrder, At
    <3>2. loop'[l].pc = "fill" /\ loop'[l].todo = loop[l].todo
      BY <3>1, GotoMoves DEF Pc
    <3>3. Coming(l)' = Coming(l) /\ Head(loop'[l].todo) = Cur(l)
      BY <3>2, GotoComing DEF Cur
    <3>4. Cur(l) \in Coming(l) \ orders
      BY <1>0, <3>1, ComingIs DEF OnItsWay, Types
    <3>5. \A j \in DOMAIN history : Behind(j, Cur(l))
      BY <1>0, <3>4 DEF TodoAfter
    <3>6. orders \subseteq orders' /\ fills \subseteq fills'
      BY <3>1
    <3> QED
      BY <1>0, <3>1, <3>2, <3>3, <3>5, <3>6, <1>6, OrderedQuiet
  <2>5. CASE CreateFill(l)
    <3>1. /\ fills' = fills \union {Cur(l)} /\ UNCHANGED <<mode, history, orders, posts>>
          /\ Goto(l, "find") /\ loop[l].pc = "fill" /\ loop[l].todo # <<>>
      BY <1>0, <2>5 DEF CreateFill, At
    <3>2. loop'[l].pc = "find" /\ loop'[l].todo = loop[l].todo
      BY <3>1, GotoMoves DEF Pc
    <3>3. Coming(l)' = Coming(l) /\ Head(loop'[l].todo) = Cur(l)
      BY <3>2, GotoComing DEF Cur
    <3>5. \A j \in DOMAIN history : Behind(j, Cur(l))
      BY <1>0, <3>1 DEF TodoAfter, Stored
    <3>6. orders \subseteq orders' /\ fills \subseteq fills' /\ Cur(l) \in fills'
      BY <3>1
    <3> QED
      BY <1>0, <3>1, <3>2, <3>3, <3>5, <3>6, <1>6, OrderedQuiet
  <2>6. CASE Find(l) \/ Read(l)
    <3>1. /\ UNCHANGED <<mode, history, orders, fills, posts>> /\ loop[l].todo # <<>>
          /\ loop[l].pc \in {"find", "read"}
          /\ NextTrade(l) \/ \E w, s : Stands(l, w, s)
      BY <2>6, FindIs, ReadIs DEF dbVars
    <3>2. Cur(l) \in orders /\ Cur(l) \in fills
      BY <1>0, <3>1 DEF Types, RecordedFirst, Stored, PostedHasFill
    <3>3. CASE \E w, s : Stands(l, w, s)
      <4>1. loop'[l].todo = loop[l].todo
        BY <3>3 DEF Stands, Types, TypeOK
      <4>2. Coming(l)' = Coming(l) /\ Head(loop'[l].todo) = Cur(l)
        BY <4>1, GotoComing DEF Cur
      <4>3. \A j \in DOMAIN history : Behind(j, Cur(l))
        BY <1>0, <3>1 DEF TodoAfter, Stored
      <4>4. orders \subseteq orders' /\ fills \subseteq fills'
        BY <3>1
      <4> QED
        BY <1>0, <3>1, <3>2, <4>1, <4>2, <4>3, <4>4, <1>6, OrderedQuiet
    <3> QED
      BY <2>0, <3>1, <3>2, <3>3
  <2>7. CASE Write(l)
    <3>1. UNCHANGED history
      BY <2>7, WriteIs
    <3> QED
      BY <1>0, <1>6, <2>7, <3>1, OrderedWrite
  <2> QED
    BY <1>4, <2>1, <2>2, <2>3, <2>4, <2>5, <2>6, <2>7 DEF Sync
<1> QED
  BY <1>1, <1>2, <1>3, <1>4 DEF Next

(* Only Write posts a trade.                                               *)
LEMMA PostedByWrite ==
  ASSUME Types, [Next]_vars, NEW i \in DOMAIN history, posts'[i] > posts[i]
  PROVE  \E l \in Loop : /\ i = Cur(l) /\ loop[l].todo # <<>>
                         /\ loop[l].pc \in Stored
<1>0. posts \in [Id -> Nat] /\ i \in Id
  BY Parts DEF Types, TypeOK
<1>1. ~UNCHANGED posts
  BY <1>0
<1>2. \E l \in Loop : Write(l)
  <2>1. ~UNCHANGED vars
    BY <1>1 DEF vars
  <2>2. ~Exchange /\ ~Tick
    <3>1. Exchange \/ Tick => UNCHANGED posts
      BY DEF Exchange, Execute, Tick
    <3> QED
      BY <1>1, <3>1
  <2>6. ~Crash
    BY <1>1 DEF Crash
  <2>3. PICK l \in Loop : Sync(l)
    BY <2>1, <2>2, <2>6 DEF Next
  <2>4. ~Fetch(l) /\ ~Check(l) /\ ~CreateOrder(l) /\ ~CreateFill(l) /\ ~Finish(l)
    BY <1>1, FetchLeaves DEF Check, CreateOrder, CreateFill, Finish
  <2>5. ~Find(l) /\ ~Read(l)
    BY <1>1, FindIs, ReadIs
  <2> QED
    BY <2>3, <2>4, <2>5 DEF Sync
<1>3. PICK l \in Loop : Write(l)
  BY <1>2
<1>4. /\ loop[l].pc = "write" /\ loop[l].todo # <<>>
      /\ posts' = [posts EXCEPT ![Cur(l)] = @ + 1]
  BY <1>1, <1>3, WriteIs
<1> QED
  BY <1>0, <1>4 DEF Stored

(* order_sync.go sorts by time and asks from the last stored trade on: one *)
(* goroutine posts the trades of a symbol in the order of their times,     *)
(* over crashes and queries that are not answered, while no statement      *)
(* fails; no close is posted before its open.                              *)
THEOREM PostedInOrderAlways == Cardinality(Loop) = 1 => (Spec => PostedInOrder)
<1> SUFFICES ASSUME Cardinality(Loop) = 1 PROVE Spec => PostedInOrder
  OBVIOUS
<1> DEFINE Inv == Types /\ Sorted /\ Past /\ Strict /\ PostedOnce /\ Ordered
           Step == failures' = 0 =>
                     \A i, j \in DOMAIN history :
                         /\ posts'[i] > posts[i] /\ posts[j] > 0
                         /\ history[i].sym = history[j].sym
                       => history[j].time <= history[i].time
<1>1. Init => Inv
  BY TypesInit, SortedInit, PastInit, PostedOnceInit, OrderedInit
<1>2. Inv /\ [Next]_vars => Inv'
  BY TypesNext, SortedNext, PastNext, PostedOnceNext, OrderedNext DEF Sorted
<1>3. Inv /\ [Next]_vars => [Step]_vars
  <2> SUFFICES ASSUME Inv, [Next]_vars, failures' = 0,
                      NEW i \in DOMAIN history, NEW j \in DOMAIN history,
                      posts'[i] > posts[i], posts[j] > 0,
                      history[i].sym = history[j].sym
               PROVE  history[j].time <= history[i].time
    OBVIOUS
  <2>1. TodoAfter
    BY FailureStays DEF Ordered
  <2>2. PICK l \in Loop : /\ i = Cur(l) /\ loop[l].todo # <<>>
                          /\ loop[l].pc \in Stored
    BY PostedByWrite
  <2>3. Behind(j, i)
    BY <2>1, <2>2 DEF TodoAfter
  <2> QED
    BY <2>3 DEF Behind
<1> HIDE DEF Inv
<1> QED
  BY <1>1, <1>2, <1>3, PTL DEF Spec, PostedInOrder
-----------------------------------------------------------------------------
(* No holes. A sync that asks by id has been answered with all trades of a *)
(* symbol up to the last one of the answer, and what is filled or still to *)
(* be handled has nothing between that is neither.                         *)
Same(i, j) == history[i].sym = history[j].sym

AskRests == \A l \in Loop : loop[l].pc \in {"idle", "ask"} => loop[l].todo = <<>>
AskedOnce ==
  \A l \in Loop : loop[l].pc = "ask" =>
    \A i \in ask[l].got : history[i].sym \notin ask[l].left
AskClosed ==
  \A l \in Loop : loop[l].pc = "ask" =>
    \A k \in ask[l].got, j \in DOMAIN history :
      /\ Same(j, k) /\ j < k
      /\ \/ ask[l].ids[history[k].sym] > 0 /\ j > ask[l].ids[history[k].sym]
         \/ \E i \in ask[l].got : Same(i, k) /\ i < j
      => j \in ask[l].got
FillAfter ==
  "tie" \notin Env =>
    \A l \in Loop : \A k \in Coming(l) \ orders, j \in fills : Same(j, k) => j < k
NoneBetween ==
  "tie" \notin Env \/ crashes = 0 =>
    \A l \in Loop : \A i, k \in fills \union Coming(l), j \in DOMAIN history :
      i < j /\ j < k /\ Same(i, j) /\ Same(j, k) => j \in orders \union Coming(l)

Holes ==
  mode = "incremental" /\ failures = 0 =>
    AskRests /\ AskedOnce /\ AskClosed /\ FillAfter /\ NoneBetween

LEMMA HolesInit == Init => Holes
<1> SUFFICES ASSUME Init
             PROVE  AskRests /\ AskedOnce /\ AskClosed /\ FillAfter /\ NoneBetween
  BY DEF Holes
<1>1. history = <<>> /\ fills = {} /\ \A l \in Loop : ask[l].got = {}
  BY DEF Init, NoAsk
<1>2. \A l \in Loop : loop[l].todo = <<>> /\ Coming(l) = {}
  <2>1. \A l \in Loop : loop[l].todo = <<>>
    BY DEF Init, Idle
  <2> QED
    BY <2>1 DEF Coming
<1> QED
  BY <1>1, <1>2 DEF AskRests, AskedOnce, AskClosed, FillAfter, NoneBetween

(* The head of a list by time is the earliest of it.                       *)
LEMMA CurFirst ==
  ASSUME Types, TodoSorted, NEW l \in Loop, loop[l].todo # <<>>
  PROVE  \A k \in Coming(l) : history[Cur(l)].time <= history[k].time
<1> DEFINE q == loop[l].todo
<1>1. q \in Seq(DOMAIN history) /\ q # <<>>
  BY Parts DEF Worker, Types
<1>2. Coming(l) = {q[a] : a \in DOMAIN q} /\ Cur(l) = Head(q)
  BY DEF Coming, Cur
<1>3. \A a, b \in DOMAIN q : a <= b => history[q[a]].time <= history[q[b]].time
  BY DEF TodoSorted
<1> HIDE DEF q
<1>4. 1 \in DOMAIN q /\ Head(q) = q[1] /\ \A b \in DOMAIN q : b \in Nat /\ 1 <= b
  BY <1>1, TailOf
<1> QED
  BY <1>2, <1>3, <1>4

(* What a step that handles a trade changes: the list loses its head only  *)
(* when that is recorded, and only the head may be given its fill.         *)
Handles(l) ==
  /\ UNCHANGED <<mode, history, crashes>>
  /\ loop[l].todo # <<>> /\ loop'[l].pc \notin {"idle", "ask"}
  /\ orders \subseteq orders' /\ fills \subseteq fills'
  /\ Coming(l)' \subseteq Coming(l)
  /\ \A k \in Coming(l) : k \in Coming(l)' \/ k \in orders'
  /\ \A j \in fills' : j \in fills \/ (j = Cur(l) /\ Cur(l) \in orders')

LEMMA SyncHandles ==
  ASSUME Types, TodoSorted, ~Fails, NEW l \in Loop,
         Check(l) \/ CreateOrder(l) \/ CreateFill(l) \/ Find(l) \/ Read(l) \/ Write(l)
  PROVE  Handles(l)
<1>0. ASSUME UNCHANGED <<mode, history, crashes, orders, fills>>, loop[l].todo # <<>>,
             Cur(l) \in orders, NextTrade(l)
      PROVE  Handles(l)
  <2>1. loop'[l].pc = "check"
    BY <1>0, NextTradeMoves
  <2>2. /\ Coming(l)' \subseteq Coming(l)
        /\ \A k \in Coming(l) : k = Cur(l) \/ k \in Coming(l)'
    BY <1>0, NextTradeComing
  <2> QED
    BY <1>0, <2>1, <2>2 DEF Handles
<1>1. ASSUME UNCHANGED <<mode, history, crashes>>, loop[l].todo # <<>>,
             loop'[l].todo = loop[l].todo, loop'[l].pc \notin {"idle", "ask"},
             orders \subseteq orders', fills \subseteq fills',
             \A j \in fills' : j \in fills \/ (j = Cur(l) /\ Cur(l) \in orders')
      PROVE  Handles(l)
  <2>1. Coming(l)' = Coming(l)
    BY <1>1, GotoComing
  <2> QED
    BY <1>1, <2>1 DEF Handles
<1>2. CASE Check(l)
  <2>1. /\ UNCHANGED <<mode, history, crashes, orders, fills>> /\ loop[l].todo # <<>>
        /\ \/ NextTrade(l) /\ Cur(l) \in orders
           \/ Goto(l, "order")
    BY <1>2 DEF Check, At, dbVars
  <2>2. CASE Goto(l, "order")
    <3>1. loop'[l].pc = "order" /\ loop'[l].todo = loop[l].todo
      BY <2>2, GotoMoves DEF Pc
    <3> QED
      BY <1>1, <2>1, <3>1
  <2> QED
    BY <1>0, <2>1, <2>2
<1>3. CASE CreateOrder(l)
  <2>1. /\ orders' = orders \union {Cur(l)} /\ UNCHANGED <<mode, history, crashes, fills>>
        /\ Goto(l, "fill") /\ loop[l].todo # <<>>
    BY <1>3 DEF CreateOrder, At
  <2>2. loop'[l].pc = "fill" /\ loop'[l].todo = loop[l].todo
    BY <2>1, GotoMoves DEF Pc
  <2>3. orders \subseteq orders' /\ fills' = fills
    BY <2>1
  <2> QED
    BY <1>1, <2>1, <2>2, <2>3
<1>4. CASE CreateFill(l)
  <2>1. /\ fills' = fills \union {Cur(l)} /\ UNCHANGED <<mode, history, crashes, orders>>
        /\ Goto(l, "find") /\ loop[l].pc = "fill" /\ loop[l].todo # <<>>
    BY <1>4 DEF CreateFill, At
  <2>2. loop'[l].pc = "find" /\ loop'[l].todo = loop[l].todo
    BY <2>1, GotoMoves DEF Pc
  <2>3. Cur(l) \in orders'
    BY <2>1 DEF Types, RecordedFirst, Stored
  <2> QED
    BY <1>1, <2>1, <2>2, <2>3
<1>5. CASE Find(l) \/ Read(l)
  <2>1. /\ UNCHANGED <<mode, history, crashes, orders, fills>> /\ loop[l].todo # <<>>
        /\ loop[l].pc \in {"find", "read"}
        /\ NextTrade(l) \/ \E w : Stands(l, w, "read") \/ Stands(l, w, "write")
    BY <1>5, FindIs, ReadIs DEF dbVars
  <2>2. Cur(l) \in orders
    BY <2>1 DEF Types, RecordedFirst, Stored
  <2>3. CASE \E w : Stands(l, w, "read") \/ Stands(l, w, "write")
    <3>1. loop'[l].todo = loop[l].todo /\ loop'[l].pc \in {"read", "write"}
      BY <2>3 DEF Stands, Types, TypeOK
    <3> QED
      BY <1>1, <2>1, <3>1
  <2> QED
    BY <1>0, <2>1, <2>2, <2>3
<1>6. CASE Write(l)
  <2>1. /\ UNCHANGED <<mode, history, crashes, orders, fills>> /\ loop[l].todo # <<>>
        /\ loop[l].pc = "write" /\ NextTrade(l)
    BY <1>6, WriteIs
  <2>2. Cur(l) \in orders
    BY <2>1 DEF Types, RecordedFirst, Stored
  <2> QED
    BY <1>0, <2>1, <2>2
<1> QED
  BY <1>2, <1>3, <1>4, <1>5, <1>6

LEMMA HolesHandled ==
  ASSUME Cardinality(Loop) = 1, Types, TodoSorted, Strict, FillAfter, NoneBetween,
         NEW l \in Loop, Handles(l)
  PROVE  AskRests' /\ AskedOnce' /\ AskClosed' /\ FillAfter' /\ NoneBetween'
<1>1. /\ UNCHANGED <<mode, history, crashes>>
      /\ loop[l].todo # <<>> /\ loop'[l].pc \notin {"idle", "ask"}
      /\ orders \subseteq orders' /\ fills \subseteq fills'
      /\ Coming(l)' \subseteq Coming(l)
      /\ \A k \in Coming(l) : k \in Coming(l)' \/ k \in orders'
      /\ \A j \in fills' : j \in fills \/ (j = Cur(l) /\ Cur(l) \in orders')
  BY DEF Handles
<1>2. Coming(l) \subseteq DOMAIN history /\ Cur(l) \in Coming(l)
  BY <1>1, ComingIs DEF Types
<1>3. \A i \in DOMAIN history : i \in Nat /\ history[i].time \in Nat
  BY Parts, BookBounds DEF Types, TradeRecord, Time
<1>4. AskRests' /\ AskedOnce' /\ AskClosed'
  BY <1>1, Alone DEF AskRests, AskedOnce, AskClosed
<1>5. \A i, j : Same(i, j)' <=> Same(i, j)
  BY <1>1 DEF Same
<1>6. ASSUME "tie" \notin Env, NEW k \in Coming(l), k # Cur(l) PROVE Cur(l) < k
  <2>1. history[Cur(l)].time <= history[k].time
    BY <1>1, CurFirst
  <2>2. ~(k < Cur(l))
    BY <1>2, <1>3, <1>6, <2>1 DEF Strict
  <2> QED
    BY <1>2, <1>3, <1>6, <2>2
<1> HIDE DEF Same
<1>7. FillAfter'
  <2> SUFFICES ASSUME "tie" \notin Env, NEW k \in Coming(l)' \ orders', NEW j \in fills',
                      Same(j, k)
               PROVE  j < k
    BY <1>5, Alone DEF FillAfter
  <2>1. k \in Coming(l) \ orders
    BY <1>1
  <2>2. CASE j \in fills
    BY <2>1, <2>2 DEF FillAfter
  <2>3. CASE j = Cur(l) /\ Cur(l) \in orders'
    BY <1>6, <2>1, <2>3
  <2> QED
    BY <1>1, <2>2, <2>3
<1>8. NoneBetween'
  <2> SUFFICES ASSUME "tie" \notin Env \/ crashes = 0,
                      NEW i \in fills' \union Coming(l)', NEW k \in fills' \union Coming(l)',
                      NEW j \in DOMAIN history, i < j, j < k, Same(i, j), Same(j, k)
               PROVE  j \in orders' \union Coming(l)'
    BY <1>1, <1>5, Alone DEF NoneBetween
  <2>1. i \in fills \union Coming(l) /\ k \in fills \union Coming(l)
    BY <1>1, <1>2
  <2>2. j \in orders \union Coming(l)
    BY <2>1 DEF NoneBetween
  <2> QED
    BY <1>1, <2>2
<1> QED
  BY <1>4, <1>7, <1>8

(* An answer holds the trades of a symbol without a gap.                   *)
LEMMA AnswerClosed ==
  ASSUME Types, TimesGrow, NEW l \in Loop, NEW sym \in Symbol,
         NEW k \in Answer(ask[l], sym), NEW j \in DOMAIN history,
         history[j].sym = sym, j < k,
         \/ ask[l].ids[sym] > 0 /\ j > ask[l].ids[sym]
         \/ \E i \in Answer(ask[l], sym) : i < j
  PROVE  j \in Answer(ask[l], sym)
<1> DEFINE a == ask[l]
           S == {i \in DOMAIN history :
                   /\ history[i].sym = sym
                   /\ IF a.ids[sym] > 0 THEN i > a.ids[sym]
                      ELSE history[i].time >= a.from}
           Before(i) == {m \in S : m < i}
<1>1. Answer(a, sym) = {i \in S : Cardinality(Before(i)) < Limit}
  BY DEF Answer, FirstPage
<1>2. /\ \A i \in DOMAIN history : i \in Nat /\ history[i].time \in Nat
      /\ a.from \in Nat /\ a.ids[sym] \in Nat
  <2>1. a \in AskRecord(DOMAIN history)
    BY DEF Types, TypeOK
  <2> QED
    BY <2>1, Parts, BookBounds DEF AskRecord, Buffer, Types, TradeRecord, Time
<1>3. S \subseteq DOMAIN history /\ k \in S
  BY <1>1
<1>4. j \in S
  <2>1. CASE a.ids[sym] > 0 /\ j > a.ids[sym]
    BY <2>1
  <2>2. CASE \E i \in Answer(a, sym) : i < j
    <3>1. PICK i \in Answer(a, sym) : i < j
      BY <2>2
    <3>2. i \in S
      BY <1>1, <3>1
    <3>3. history[i].time <= history[j].time
      BY <3>1, <3>2 DEF TimesGrow
    <3>4. /\ history[i].time \in Nat /\ history[j].time \in Nat /\ i \in Nat /\ j \in Nat
      BY <1>2, <3>2
    <3>5. IF a.ids[sym] > 0 THEN i > a.ids[sym] ELSE history[i].time >= a.from
      BY <3>2
    <3>6. IF a.ids[sym] > 0 THEN j > a.ids[sym] ELSE history[j].time >= a.from
      BY <1>2, <3>1, <3>3, <3>4, <3>5
    <3> QED
      BY <3>6
  <2> QED
    BY <2>1, <2>2
<1>5. Cardinality(Before(j)) < Limit
  <2>1. Cardinality(Before(k)) < Limit
    BY <1>1
  <2>2. Before(j) \subseteq Before(k)
    <3> SUFFICES ASSUME NEW m \in S, m < j PROVE m < k
      OBVIOUS
    <3> QED
      BY <1>2, <1>3
  <2>3. IsFiniteSet(Before(k))
    <3>1. Before(k) \subseteq 1..Len(history) /\ Len(history) \in Nat
      BY <1>3, Parts DEF Types
    <3>2. IsFiniteSet(1..Len(history))
      BY <3>1, FS_Interval
    <3> QED
      BY <3>1, <3>2, FS_Subset
  <2>4. IsFiniteSet(Before(j)) /\ Cardinality(Before(j)) <= Cardinality(Before(k))
    BY <2>2, <2>3, FS_Subset
  <2>5. Cardinality(Before(j)) \in Nat /\ Cardinality(Before(k)) \in Nat /\ Limit \in Nat
    BY <2>3, <2>4, FS_CardinalityType, BookAssumption
  <2> HIDE DEF Before
  <2> QED
    BY <2>1, <2>4, <2>5
<1> HIDE DEF S, Before
<1> QED
  BY <1>1, <1>4, <1>5

LEMMA HolesAsk ==
  ASSUME Cardinality(Loop) = 1, Types, TimesGrow, AskRests, AskedOnce, AskClosed,
         FillAfter, NoneBetween, NEW l \in Loop,
         AskSymbol(l) \/ \E asked \in SUBSET Traded : Begin(l, asked)
  PROVE  AskRests' /\ AskedOnce' /\ AskClosed' /\ FillAfter' /\ NoneBetween'
<1>0. /\ UNCHANGED <<history, orders, fills, crashes>>
      /\ ask \in [Loop -> AskRecord(DOMAIN history)]
      /\ \A i \in DOMAIN history : history[i].sym \in Symbol
  BY Parts DEF AskSymbol, Begin, dbVars, faultVars, Types, TypeOK, TradeRecord
<1>1. loop'[l].todo = <<>> /\ loop[l].todo = <<>>
  <2>1. Idle.todo = <<>> /\ [Idle EXCEPT !.pc = "ask"].todo = <<>>
    BY DEF Idle
  <2> QED
    BY <2>1 DEF AskSymbol, Begin, AskRests, Types, TypeOK
<1>2. AskRests'
  BY <1>1, Alone DEF AskRests
<1>3. Coming(l)' = {} /\ Coming(l) = {}
  BY <1>1 DEF Coming
<1>4. FillAfter' /\ NoneBetween'
  <2>1. FillAfter'
    BY <1>3, Alone DEF FillAfter
  <2>2. NoneBetween'
    <3> SUFFICES ASSUME "tie" \notin Env \/ crashes = 0, NEW i \in fills, NEW k \in fills,
                        NEW j \in DOMAIN history, i < j, j < k, Same(i, j), Same(j, k)
                 PROVE  j \in orders
      BY <1>0, <1>3, Alone DEF NoneBetween, Same
    <3> QED
      BY <1>3 DEF NoneBetween
  <2> QED
    BY <2>1, <2>2
<1>5. ASSUME NEW asked \in SUBSET Traded, Begin(l, asked) PROVE AskedOnce' /\ AskClosed'
  <2>1. PICK from, ids :
          ask' = [ask EXCEPT ![l] = [NoAsk EXCEPT !.from = from, !.ids = ids, !.left = asked]]
    BY <1>5 DEF Begin
  <2> DEFINE a == [NoAsk EXCEPT !.from = from, !.ids = ids, !.left = asked]
  <2>2. a.got = {}
    BY DEF NoAsk
  <2> HIDE DEF a
  <2>3. ask'[l].got = {}
    BY <1>0, <2>1, <2>2 DEF a
  <2> QED
    BY <2>3, Alone DEF AskedOnce, AskClosed
<1>6. CASE AskSymbol(l)
  <2>1. loop[l].pc = "ask" /\ UNCHANGED loop
    BY <1>6 DEF AskSymbol
  <2>2. PICK sym \in ask[l].left :
          \/ ask' = [ask EXCEPT ![l] =
               [ask[l] EXCEPT !.left = ask[l].left \ {sym},
                              !.got = ask[l].got \union Answer(ask[l], sym)]]
          \/ ask' = [ask EXCEPT ![l] =
               [ask[l] EXCEPT !.left = ask[l].left \ {sym}, !.failed = TRUE]]
    BY <1>6 DEF AskSymbol
  <2>3. /\ ask'[l].ids = ask[l].ids /\ ask'[l].left = ask[l].left \ {sym}
        /\ \/ ask'[l].got = ask[l].got
           \/ ask'[l].got = ask[l].got \union Answer(ask[l], sym)
    BY <1>0, <2>2 DEF AskRecord
  <2>4. sym \in Symbol /\ ask[l].got \subseteq DOMAIN history
    BY <1>0, <2>2 DEF AskRecord
  <2>5. \A i \in Answer(ask[l], sym) : i \in DOMAIN history /\ history[i].sym = sym
    BY DEF Answer, FirstPage
  <2>6. \A i \in ask[l].got : history[i].sym # sym
    BY <2>1, <2>2 DEF AskedOnce
  <2>7. AskedOnce'
    <3>1. \A i \in ask'[l].got : history[i].sym \notin ask'[l].left
      BY <2>1, <2>3, <2>5 DEF AskedOnce
    <3> QED
      BY <1>0, <3>1, Alone DEF AskedOnce
  <2>8. AskClosed'
    <3> SUFFICES ASSUME NEW k \in ask'[l].got, NEW j \in DOMAIN history,
                        history[j].sym = history[k].sym, j < k,
                        \/ ask[l].ids[history[k].sym] > 0 /\ j > ask[l].ids[history[k].sym]
                        \/ \E i \in ask'[l].got : history[i].sym = history[k].sym /\ i < j
                 PROVE  j \in ask'[l].got
      BY <1>0, <2>3, Alone DEF AskClosed, Same
    <3>1. CASE k \in ask[l].got
      <4>1. \A i \in ask'[l].got : history[i].sym = history[k].sym => i \in ask[l].got
        BY <2>3, <2>5, <2>6, <3>1
      <4>2. j \in ask[l].got
        BY <2>1, <3>1, <4>1 DEF AskClosed, Same
      <4> QED
        BY <2>3, <4>2
    <3>2. CASE k \notin ask[l].got
      <4>1. k \in Answer(ask[l], sym) /\ ask'[l].got = ask[l].got \union Answer(ask[l], sym)
        BY <2>3, <3>2
      <4>2. history[k].sym = sym
        BY <2>5, <4>1
      <4>3. \A i \in ask'[l].got : history[i].sym = sym => i \in Answer(ask[l], sym)
        BY <2>6, <4>1
      <4>4. j \in Answer(ask[l], sym)
        BY <2>4, <4>1, <4>2, <4>3, AnswerClosed
      <4> QED
        BY <4>1, <4>4
    <3> QED
      BY <3>1, <3>2
  <2> QED
    BY <1>2, <1>4, <2>7, <2>8
<1>7. CASE \E asked \in SUBSET Traded : Begin(l, asked)
  BY <1>2, <1>4, <1>5, <1>7
<1> QED
  BY <1>2, <1>4, <1>6, <1>7

(* The list of a sync takes up where the stored fills of a symbol end.     *)
LEMMA HolesArrange ==
  ASSUME Cardinality(Loop) = 1, Types, AskAfter, AskRests, AskClosed, FillAfter,
         NoneBetween, NEW l \in Loop, loop[l].pc = "ask",
         UNCHANGED <<history, orders, fills, crashes>>,
         \/ Coming(l)' = {} /\ loop'[l].pc = "idle" /\ loop'[l].todo = <<>>
         \/ Coming(l)' = ask[l].got /\ loop'[l].pc = "check"
  PROVE  AskRests' /\ AskedOnce' /\ AskClosed' /\ FillAfter' /\ NoneBetween'
<1>1. loop'[l].pc # "ask" /\ (loop'[l].pc = "idle" => loop'[l].todo = <<>>)
  OBVIOUS
<1>2. AskRests' /\ AskedOnce' /\ AskClosed'
  BY <1>1, Alone DEF AskRests, AskedOnce, AskClosed
<1>3. Coming(l) = {}
  BY DEF AskRests, Coming
<1>4. \A i, j : Same(i, j)' <=> Same(i, j)
  BY DEF Same
<1>5. \A k \in Coming(l)', j \in fills : Same(j, k) => j < k
  BY DEF AskAfter, Same
<1>6. FillAfter'
  BY <1>4, <1>5, Alone DEF FillAfter
<1>7. NoneBetween'
  <2> SUFFICES ASSUME "tie" \notin Env \/ crashes = 0,
                      NEW i \in fills \union Coming(l)', NEW k \in fills \union Coming(l)',
                      NEW j \in DOMAIN history, i < j, j < k, Same(i, j), Same(j, k)
               PROVE  j \in orders \union Coming(l)'
    BY <1>4, Alone DEF NoneBetween
  <2>0. /\ Same(i, k) /\ Same(k, i) /\ i \in Nat /\ j \in Nat /\ k \in Nat
        /\ fills \subseteq orders
    <3>1. Coming(l)' \subseteq DOMAIN history /\ fills \subseteq orders
          /\ fills \subseteq DOMAIN history
      BY DEF Types, TypeOK, AskRecord
    <3> QED
      BY <3>1, Parts DEF Types, Same
  <2>1. CASE i \in fills /\ k \in fills
    BY <1>3, <2>1 DEF NoneBetween
  <2>2. CASE k \in fills /\ i \notin fills
    BY <1>5, <2>0, <2>2
  <2>3. CASE i \notin fills /\ k \notin fills
    <3>1. Coming(l)' = ask[l].got /\ i \in ask[l].got /\ k \in ask[l].got
      BY <2>3
    <3>2. j \in ask[l].got
      BY <2>0, <3>1 DEF AskClosed
    <3> QED
      BY <3>1, <3>2
  <2>4. CASE i \in fills /\ k \notin fills
    <3>1. Coming(l)' = ask[l].got /\ k \in ask[l].got
      BY <2>4
    <3>2. /\ ask[l].ids[history[k].sym] \in fills
          /\ history[ask[l].ids[history[k].sym]].sym = history[k].sym
          /\ i <= ask[l].ids[history[k].sym]
      <4>1. history[i].sym = history[k].sym
        BY <2>0 DEF Same
      <4>2. /\ ask[l].ids[history[i].sym] \in fills
            /\ history[ask[l].ids[history[i].sym]].sym = history[i].sym
            /\ i <= ask[l].ids[history[i].sym]
        BY <2>4 DEF AskAfter
      <4> QED
        BY <4>1, <4>2
    <3> DEFINE m == ask[l].ids[history[k].sym]
    <3>3. m \in Nat /\ m > 0
      <4>1. fills \in SUBSET (1..Len(history)) /\ Len(history) \in Nat
        BY Parts DEF Types, TypeOK
      <4>2. m \in 1..Len(history)
        BY <3>2, <4>1
      <4> HIDE DEF m
      <4> QED
        BY <4>1, <4>2
    <3>4. CASE j < m
      <4>1. Same(j, m)
        BY <3>2 DEF Same
      <4> QED
        BY <1>3, <2>4, <3>2, <3>4, <4>1 DEF NoneBetween
    <3>5. CASE j = m
      BY <2>0, <3>2, <3>5
    <3>6. CASE j > m
      <4>1. j \in ask[l].got
        BY <3>1, <3>3, <3>6 DEF AskClosed
      <4> QED
        BY <3>1, <4>1
    <3> QED
      BY <2>0, <3>3, <3>4, <3>5, <3>6
  <2> QED
    BY <2>1, <2>2, <2>3, <2>4
<1> QED
  BY <1>2, <1>6, <1>7

LEMMA HolesNext ==
  ASSUME Cardinality(Loop) = 1, Types, Sorted, Strict, Ordered, Holes, [Next]_vars
  PROVE  Holes'
<1>0. UNCHANGED mode
  <2>1. ASSUME NEW l \in Loop, Sync(l) PROVE UNCHANGED mode
    BY <2>1, FetchLeaves, FindIs, ReadIs, WriteIs
    DEF Sync, Check, CreateOrder, CreateFill, Finish
  <2> QED
    BY <2>1 DEF Next, vars, Exchange, Execute, Tick, Crash
<1> SUFFICES ASSUME mode = "incremental", failures' = 0
             PROVE  AskRests' /\ AskedOnce' /\ AskClosed' /\ FillAfter' /\ NoneBetween'
  BY <1>0 DEF Holes
<1>1. /\ ~Fails /\ TimesGrow /\ TodoSorted /\ AskAfter
      /\ AskRests /\ AskedOnce /\ AskClosed /\ FillAfter /\ NoneBetween
  BY FailureStays DEF Ordered, Sorted, Holes
<1>2. CASE UNCHANGED vars \/ Tick
  <2>1. UNCHANGED <<history, orders, fills, loop, crashes, ask>>
    BY <1>2 DEF vars, dbVars, faultVars, askVars, Tick
  <2> QED
    BY <1>1, <2>1
    DEF AskRests, AskedOnce, AskClosed, FillAfter, NoneBetween, Coming, Same
<1>3. CASE Exchange
  <2>1. /\ UNCHANGED <<orders, fills, loop, crashes, ask>> /\ history \in Seq(TradeRecord)
    BY <1>3 DEF Exchange, Execute, dbVars, faultVars, askVars, Types, TypeOK
  <2>2. PICK t \in TradeRecord : history' = Append(history, t)
    BY <1>3, TradeAppended
  <2> DEFINE n == Len(history) + 1
  <2>3. /\ \A i \in DOMAIN history : history'[i] = history[i]
        /\ DOMAIN history' = DOMAIN history \union {n}
    BY <2>1, <2>2, Grown
  <2>4. n \in Nat /\ \A i \in DOMAIN history : i \in Nat /\ i < n
    BY Parts DEF Types
  <2> HIDE DEF n
  <2>5. /\ fills \subseteq DOMAIN history
        /\ \A l \in Loop : Coming(l) \subseteq DOMAIN history /\ Coming(l)' = Coming(l)
        /\ \A l \in Loop : ask[l].got \subseteq DOMAIN history
    <3>1. \A l \in Loop : Coming(l)' = Coming(l)
      BY <2>1 DEF Coming
    <3> QED
      BY <3>1, ComingIs DEF Types, TypeOK, AskRecord
  <2>6. \A i, j \in DOMAIN history : Same(i, j)' <=> Same(i, j)
    BY <2>3 DEF Same
  <2>7. \A j \in DOMAIN history', k \in DOMAIN history : j < k => j \in DOMAIN history
    BY <2>3, <2>4
  <2>8. AskRests' /\ AskedOnce'
    BY <1>1, <2>1, <2>3, <2>5 DEF AskRests, AskedOnce
  <2>9. FillAfter'
    BY <1>1, <2>1, <2>5, <2>6 DEF FillAfter
  <2>10. AskClosed'
    <3> SUFFICES ASSUME NEW l \in Loop, loop[l].pc = "ask",
                        NEW k \in ask[l].got, NEW j \in DOMAIN history',
                        Same(j, k)', j < k,
                        \/ ask[l].ids[history'[k].sym] > 0 /\ j > ask[l].ids[history'[k].sym]
                        \/ \E i \in ask[l].got : Same(i, k)' /\ i < j
                 PROVE  j \in ask[l].got
      BY <2>1 DEF AskClosed
    <3>1. k \in DOMAIN history /\ j \in DOMAIN history /\ history'[k] = history[k]
      BY <2>3, <2>5, <2>7
    <3>2. Same(j, k)
      BY <2>6, <3>1
    <3>3. \/ ask[l].ids[history[k].sym] > 0 /\ j > ask[l].ids[history[k].sym]
          \/ \E i \in ask[l].got : Same(i, k) /\ i < j
      BY <2>5, <2>6, <3>1
    <3> QED
      BY <1>1, <3>1, <3>2, <3>3 DEF AskClosed
  <2>11. NoneBetween'
    <3> SUFFICES ASSUME "tie" \notin Env \/ crashes = 0, NEW l \in Loop,
                        NEW i \in fills \union Coming(l), NEW k \in fills \union Coming(l),
                        NEW j \in DOMAIN history', i < j, j < k, Same(i, j)', Same(j, k)'
                 PROVE  j \in orders \union Coming(l)
      BY <2>1, <2>5 DEF NoneBetween
    <3>1. i \in DOMAIN history /\ k \in DOMAIN history /\ j \in DOMAIN history
      BY <2>5, <2>7
    <3>2. Same(i, j) /\ Same(j, k)
      BY <2>6, <3>1
    <3> QED
      BY <1>1, <3>1, <3>2 DEF NoneBetween
  <2> QED
    BY <2>8, <2>9, <2>10, <2>11
<1>4. CASE Crash
  <2>1. /\ UNCHANGED <<history, orders, fills>> /\ crashes' = crashes + 1
        /\ crashes \in Nat
    BY <1>4, BookBounds DEF Crash, dbVars, Types, TypeOK
  <2>2. \A l \in Loop : loop'[l].todo = <<>> /\ loop'[l].pc = "idle"
    BY <1>4, CrashMoves
  <2>3. \A l \in Loop : Coming(l)' = {}
    BY <2>2 DEF Coming
  <2>4. AskRests' /\ AskedOnce' /\ AskClosed' /\ FillAfter'
    BY <2>2, <2>3 DEF AskRests, AskedOnce, AskClosed, FillAfter
  <2>5. NoneBetween'
    <3> SUFFICES ASSUME "tie" \notin Env, NEW l \in Loop,
                        NEW i \in fills, NEW k \in fills, NEW j \in DOMAIN history,
                        i < j, j < k, Same(i, j), Same(j, k)
                 PROVE  j \in orders
      BY <2>1, <2>3 DEF NoneBetween, Same
    <3>1. j \in orders \union Coming(l)
      BY <1>1 DEF NoneBetween
    <3>2. CASE j \in Coming(l) \ orders
      <4>1. Same(k, j)
        BY DEF Same
      <4>2. k < j
        BY <1>1, <3>2, <4>1 DEF FillAfter
      <4> QED
        BY <4>2, Parts DEF Types, TypeOK
    <3> QED
      BY <3>1, <3>2
  <2> QED
    BY <2>4, <2>5
<1>5. ASSUME NEW l \in Loop, Sync(l)
      PROVE  AskRests' /\ AskedOnce' /\ AskClosed' /\ FillAfter' /\ NoneBetween'
  <2>1. CASE AskSymbol(l) \/ \E asked \in SUBSET Traded : Begin(l, asked)
    BY <1>1, <2>1, HolesAsk
  <2>2. CASE Arrange(l)
    <3>1. /\ UNCHANGED <<history, orders, fills, crashes>> /\ loop[l].pc = "ask"
          /\ loop \in [Loop -> Worker(DOMAIN history, Len(rows))]
      BY <2>2 DEF Arrange, dbVars, faultVars, Types, TypeOK, Worker
    <3>2. CASE loop' = [loop EXCEPT ![l] = Idle]
      <4>1. loop'[l].todo = <<>> /\ loop'[l].pc = "idle"
        BY <3>1, <3>2 DEF Idle
      <4>2. Coming(l)' = {}
        BY <4>1 DEF Coming
      <4> QED
        BY <1>1, <3>1, <4>1, <4>2, HolesArrange
    <3>3. CASE ask[l].got # {} /\ Takes(l, ask[l].got, ask[l].failed)
      <4>1. ask[l].got \in SUBSET (DOMAIN history) /\ ask[l].failed \in BOOLEAN
        BY DEF Types, TypeOK, AskRecord
      <4>2. PICK w \in Worker(DOMAIN history, Len(rows)) :
              /\ loop' = [loop EXCEPT ![l] = w]
              /\ w.pc = "check" /\ w.todo \in ByTime(ask[l].got)
        BY <3>3, <4>1, TakesIs
      <4>3. loop'[l].pc = "check" /\ loop'[l].todo \in ByTime(ask[l].got)
        BY <3>1, <4>2
      <4>4. Coming(l)' = ask[l].got
        BY <4>1, <4>3, ByTimeHoldsAll DEF Coming
      <4> QED
        BY <1>1, <3>1, <4>3, <4>4, HolesArrange
    <3> QED
      BY <2>2, <3>2, <3>3 DEF Arrange
  <2>3. ~FetchDay(l)
    BY DEF FetchDay
  <2>4. CASE Finish(l)
    <3>1. /\ UNCHANGED <<history, orders, fills, crashes>> /\ loop[l].todo = <<>>
          /\ loop'[l].pc = "idle" /\ loop'[l].todo = <<>>
      BY <2>4, CrashMoves DEF Finish, dbVars, faultVars
    <3>2. Coming(l)' = {} /\ Coming(l) = {}
      BY <3>1 DEF Coming
    <3>3. AskRests' /\ AskedOnce' /\ AskClosed'
      BY <3>1, Alone DEF AskRests, AskedOnce, AskClosed
    <3> QED
      BY <1>1, <3>1, <3>2, <3>3, Alone DEF FillAfter, NoneBetween, Same
  <2>5. CASE \/ Check(l) \/ CreateOrder(l) \/ CreateFill(l)
             \/ Find(l) \/ Read(l) \/ Write(l)
    BY <1>1, <2>5, SyncHandles, HolesHandled
  <2> QED
    BY <1>5, <2>1, <2>2, <2>3, <2>4, <2>5 DEF Sync, Fetch
<1> QED
  BY <1>2, <1>3, <1>4, <1>5 DEF Next

(* GetTrades is asked from the last stored fill of a symbol: however many  *)
(* symbols and trades there are, whatever symbols a sync of Binance does   *)
(* not see, leaves unanswered or is answered for in part, one goroutine    *)
(* leaves no trade of a symbol out between two it has the fills of.        *)
THEOREM NoHoleAlways == Spec => []NoHole
<1> DEFINE Inv == /\ Types
                  /\ Cardinality(Loop) = 1 =>
                       Sorted /\ Past /\ Strict /\ PostedOnce /\ Ordered /\ Holes
<1>1. Init => Inv
  BY TypesInit, SortedInit, PastInit, PostedOnceInit, OrderedInit, HolesInit
<1>2. Inv /\ [Next]_vars => Inv'
  BY TypesNext, SortedNext, PastNext, PostedOnceNext, OrderedNext, HolesNext DEF Sorted
<1>3. Inv => NoHole
  <2> SUFFICES ASSUME Inv, mode = "incremental", failures = 0, Cardinality(Loop) = 1,
                      "tie" \in Env => crashes = 0 /\ \A l \in Loop : loop[l].todo = <<>>,
                      NEW i \in fills, NEW k \in fills, NEW j \in DOMAIN history,
                      i < j, j < k, Same(i, j), Same(j, k)
               PROVE  j \in orders
    BY DEF NoHole, Same
  <2>1. PICK l : l \in Loop
    BY FS_Singleton, BookAssumption
  <2>2. FillAfter /\ NoneBetween
    BY DEF Holes
  <2>3. j \in orders \union Coming(l)
    BY <2>1, <2>2 DEF NoneBetween
  <2>4. CASE "tie" \in Env
    <3>1. loop[l].todo = <<>>
      BY <2>1, <2>4
    <3>2. Coming(l) = {}
      BY <3>1 DEF Coming
    <3> QED
      BY <2>3, <3>2
  <2>5. CASE "tie" \notin Env /\ j \in Coming(l) \ orders
    <3>1. Same(k, j)
      BY DEF Same
    <3>2. k < j
      BY <2>1, <2>2, <2>5, <3>1 DEF FillAfter
    <3> QED
      BY <3>2, Parts DEF Types, TypeOK
  <2> QED
    BY <2>3, <2>4, <2>5
<1> HIDE DEF Inv
<1> QED
  BY <1>1, <1>2, <1>3, PTL DEF Spec
-----------------------------------------------------------------------------
(* The book. With lots that are multiples of a unit coarser than the       *)
(* tolerance neither rounding nor tolerance changes a quantity.            *)
Whole(u, q) == \E n \in Int : q = n * u
LotUnit(u) ==
  /\ u > Grain
  /\ \E c \in Nat : u = c * Grain
  /\ \A q \in Lot : Whole(u, q)

LEMMA DivIs ==
  ASSUME NEW n \in Nat, NEW d \in Nat \ {0}, NEW k \in Int, NEW r \in Nat, r < d,
         n = k * d + r
  PROVE  n \div d = k
  OBVIOUS

LEMMA RoundedMultiple ==
  ASSUME NEW q \in Nat, NEW k \in Int, q = k * Grain
  PROVE  Rounded(q) = q
<1> DEFINE d == 2 * Grain
<1>1. Grain \in Nat \ {0} /\ d \in Nat \ {0} /\ Grain < d
  BY BookAssumption
<1>2. 2 * q + Grain = k * d + Grain
  BY <1>1
<1> HIDE DEF d
<1>3. (2 * q + Grain) \div d = k
  BY <1>1, <1>2, DivIs
<1> QED
  BY <1>3 DEF Rounded, d

LEMMA RoundedWhole ==
  ASSUME NEW u \in Nat, LotUnit(u), NEW q \in Nat, Whole(u, q)
  PROVE  Rounded(q) = q
<1>1. PICK c \in Nat : u = c * Grain
  BY DEF LotUnit
<1>2. PICK n \in Int : q = n * u
  BY DEF Whole
<1>3. Grain \in Nat
  BY BookAssumption
<1>4. q = (n * c) * Grain /\ n * c \in Int
  BY <1>1, <1>2, <1>3
<1> QED
  BY <1>4, RoundedMultiple

LEMMA WholeSums ==
  ASSUME NEW u \in Nat, NEW a \in Nat, NEW b \in Nat, Whole(u, a), Whole(u, b)
  PROVE  Whole(u, a + b) /\ Whole(u, a - b) /\ Whole(u, 0)
<1>1. PICK n \in Int : a = n * u
  BY DEF Whole
<1>2. PICK m \in Int : b = m * u
  BY DEF Whole
<1>3. /\ a + b = (n + m) * u /\ a - b = (n - m) * u /\ 0 = 0 * u
      /\ n + m \in Int /\ n - m \in Int /\ 0 \in Int
  BY <1>1, <1>2
<1> QED
  BY <1>3 DEF Whole

LEMMA WholeGap ==
  ASSUME NEW u \in Nat \ {0}, NEW a \in Int, Whole(u, a), a < u
  PROVE  a <= 0
<1>1. PICK n \in Int : a = n * u
  BY DEF Whole
<1>2. CASE n <= 0
  <2>1. n * u <= 0 * u
    BY <1>2
  <2> QED
    BY <1>1, <2>1
<1>3. CASE n >= 1
  <2>1. n * u >= 1 * u
    BY <1>3
  <2> QED
    BY <1>1, <2>1
<1> QED
  BY <1>2, <1>3

(* What posting a trade makes of a row that holds whole units.             *)
LEMMA WrittenWhole ==
  ASSUME NEW u \in Nat, LotUnit(u), NEW row \in Row, row.status = "OPEN", NEW qty \in Nat,
         Whole(u, row.qty), Whole(u, qty)
  PROVE  /\ Written("add", row, row.qty, qty) = [row EXCEPT !.qty = row.qty + qty]
         /\ qty + Grain < row.qty =>
              Written("reduce", row, row.qty, qty) = [row EXCEPT !.qty = row.qty - qty]
         /\ ~(qty + Grain < row.qty) =>
              Written("close", row, row.qty, qty) = Closed(row) /\ row.qty <= qty
         /\ Whole(u, row.qty + qty) /\ Whole(u, row.qty - qty) /\ Whole(u, 0)
<1> DEFINE h == row.qty
<1>1. h \in Nat /\ Grain \in Nat /\ u > Grain /\ u \in Nat \ {0}
  BY BookAssumption DEF Row, LotUnit
<1>2. Whole(u, h + qty) /\ Whole(u, h - qty) /\ Whole(u, 0)
  BY <1>1, WholeSums
<1>3. Written("add", row, h, qty) = [row EXCEPT !.qty = h + qty]
  <2>1. Rounded(h + qty) = h + qty
    BY <1>1, <1>2, RoundedWhole
  <2>2. Written("add", row, h, qty) = Added(row, h, qty)
    BY DEF Written
  <2> QED
    BY <2>1, <2>2 DEF Added
<1>4. ASSUME qty + Grain < h
      PROVE  Written("reduce", row, h, qty) = [row EXCEPT !.qty = h - qty]
  <2>1. qty < h /\ h - qty \in Nat /\ ~(h - qty <= Grain)
    BY <1>1, <1>4
  <2>2. Rounded(h - qty) = h - qty
    BY <1>2, <2>1, RoundedWhole
  <2>3. Written("reduce", row, h, qty) = Reduced(row, h, qty)
    BY DEF Written
  <2> QED
    BY <2>1, <2>2, <2>3 DEF Reduced
<1>5. ASSUME ~(qty + Grain < h)
      PROVE  Written("close", row, h, qty) = Closed(row) /\ h <= qty
  <2>1. h - qty \in Int /\ h - qty < u
    BY <1>1, <1>5
  <2>2. h - qty <= 0
    BY <1>1, <1>2, <2>1, WholeGap
  <2>3. Written("close", row, h, qty) = Closed(row)
    BY DEF Written
  <2> QED
    BY <1>1, <2>2, <2>3
<1> QED
  BY <1>2, <1>3, <1>4, <1>5
-----------------------------------------------------------------------------
(* What the rows hold at a place, when no place has two open ones.         *)
BookedRows ==
  \A p \in Place :
    /\ OpenRows(p[1], p[2]) = {} => Booked[p] = 0
    /\ \A r \in OpenRows(p[1], p[2]) : Booked[p] = rows[r].qty

LEMMA BookedIs == TypeOK /\ RowsUnique => BookedRows
<1> SUFFICES ASSUME TypeOK, RowsUnique, NEW p \in Place
             PROVE  /\ OpenRows(p[1], p[2]) = {} => Booked[p] = 0
                    /\ \A r \in OpenRows(p[1], p[2]) : Booked[p] = rows[r].qty
  BY DEF BookedRows
<1> DEFINE R == OpenRows(p[1], p[2])
           o == OpenRow(p[1], p[2])
<1>1. R \subseteq DOMAIN rows /\ (R = {} => o = 0) /\ (R # {} => o \in R)
  BY OpenRowIs
<1>2. \A r, q \in R : r = q
  BY DEF OpenRows, RowsUnique
<1>3. 0 \notin DOMAIN rows
  BY Parts
<1>4. Booked[p] = IF o = 0 THEN 0 ELSE rows[o].qty
  BY DEF Booked
<1> HIDE DEF R, o
<1> QED
  BY <1>1, <1>2, <1>3, <1>4 DEF R

(* A place whose open rows do not change holds what it held.               *)
LEMMA BookedStays ==
  ASSUME BookedRows, BookedRows', NEW p \in Place,
         OpenRows(p[1], p[2])' = OpenRows(p[1], p[2]),
         \A r \in OpenRows(p[1], p[2]) : rows'[r].qty = rows[r].qty
  PROVE  Booked'[p] = Booked[p]
<1>1. CASE OpenRows(p[1], p[2]) = {}
  BY <1>1 DEF BookedRows
<1>2. CASE OpenRows(p[1], p[2]) # {}
  <2>1. PICK r \in OpenRows(p[1], p[2]) : TRUE
    BY <1>2
  <2>2. Booked[p] = rows[r].qty /\ Booked'[p] = rows'[r].qty
    BY <2>1 DEF BookedRows
  <2> QED
    BY <2>1, <2>2
<1> QED
  BY <1>1, <1>2

(* What Write does, to the letter, when no statement fails.                *)
LEMMA WriteDoes ==
  ASSUME Types, ~Fails, NEW l \in Loop, Write(l)
  PROVE  LET t == CurTrade(l)
             act == loop[l].act
             posted == [posts EXCEPT ![Cur(l)] = @ + 1] IN
         \/ /\ act = "create" /\ SamePosition(t) = {}
            /\ rows' = Append(rows, NewRow(t)) /\ posts' = posted
         \/ /\ act = "create" /\ SamePosition(t) # {} /\ rows' = Inserted(t)
            /\ rows' = rows => posts' = posts
         \/ /\ act \in {"add", "reduce", "close"} /\ posts' = posted
            /\ loop[l].row \in DOMAIN rows
            /\ rows' = [rows EXCEPT ![loop[l].row] =
                          Written(act, @, loop[l].seen, t.qty)]
<1> DEFINE t == CurTrade(l)
           act == loop[l].act
           posted == [posts EXCEPT ![Cur(l)] = @ + 1]
           changed == [rows EXCEPT ![loop[l].row] =
                         Written(act, @, loop[l].seen, t.qty)]
           after == IF act = "create" THEN Inserted(t) ELSE changed
<1>1. /\ loop[l].pc = "write" /\ loop[l].todo # <<>>
      /\ rows' = after
      /\ posts' = IF act = "create" /\ after = rows THEN posts ELSE posted
  BY DEF Write, At
<1>2. t \in TradeRecord
  BY <1>1, AtCur DEF Types
<1>3. /\ act \in Act \ {"none"}
      /\ act # "create" => loop[l].row \in DOMAIN rows
  BY <1>1, Parts DEF Types, RowExists, Posting, Worker
<1>4. CASE act = "create" /\ SamePosition(t) = {}
  <2>1. after = Append(rows, NewRow(t))
    BY <1>4 DEF Inserted
  <2>2. Append(rows, NewRow(t)) # rows
    <3> DEFINE new == NewRow(t)
    <3>1. rows \in Seq(Row) /\ new \in Row
      BY <1>2, TradeQty DEF Types, TypeOK
    <3> HIDE DEF new
    <3>2. Len(Append(rows, new)) = Len(rows) + 1 /\ Len(rows) \in Nat
      BY <3>1
    <3>3. Append(rows, new) # rows
      BY <3>2
    <3> QED
      BY <3>3 DEF new
  <2> QED
    BY <1>1, <1>4, <2>1, <2>2
<1>5. CASE act = "create" /\ SamePosition(t) # {}
  BY <1>1, <1>5
<1>6. CASE act # "create"
  BY <1>1, <1>3, <1>6 DEF Act
<1> QED
  BY <1>4, <1>5, <1>6
-----------------------------------------------------------------------------
(* What a goroutine is about to do fits its trade and the rows: a row it   *)
(* is going to change is open at the trade's place and holds what was read.*)
PlanFor(t, w) ==
  /\ w.act \in {"create", "add"} <=> OrderAction(t) = "open"
  /\ w.act # "create" => w.row \in OpenRows(t.sym, t.side) /\ w.seen = rows[w.row].qty
  /\ w.act = "reduce" => IsPartial(t, w.seen)
  /\ w.act = "close" => ~IsPartial(t, w.seen)
Planned ==
  \A l \in Loop : loop[l].todo # <<>> /\ loop[l].pc \in Posting =>
    PlanFor(CurTrade(l), loop[l])

LEMMA FindPlans ==
  ASSUME Types, ~Fails, NEW l \in Loop, Find(l), ~NextTrade(l)
  PROVE  PlanFor(CurTrade(l), loop'[l])
<1> DEFINE t == CurTrade(l)
           r == OpenRow(t.sym, t.side)
           held == IF r = 0 THEN 0 ELSE rows[r].qty
           act == IF OrderAction(t) = "open"
                  THEN IF r = 0 THEN "create" ELSE "add"
                  ELSE IF IsPartial(t, held) THEN "reduce" ELSE "close"
           w == [loop[l] EXCEPT !.pc = "read", !.act = act, !.row = r, !.seen = held]
<1>1. /\ loop[l].pc = "find" /\ loop[l].todo # <<>>
      /\ ~(r = 0 /\ OrderAction(t) = "close")
      /\ loop' = [loop EXCEPT ![l] = w]
  BY DEF Find, At
<1>2. OrderAction(t) \in {"open", "close"}
  BY <1>1, AtCur DEF OrderAction, TradeRecord, Kind, Types
<1>3. /\ OpenRows(t.sym, t.side) = {} => r = 0
      /\ OpenRows(t.sym, t.side) # {} => r \in OpenRows(t.sym, t.side)
  BY OpenRowIs DEF Types
<1>4. loop[l] \in Worker(DOMAIN history, Len(rows)) /\ loop'[l] = w
  BY <1>1, Parts DEF Types, TypeOK
<1> HIDE DEF act, held, r, t
<1>5. loop'[l].act = act /\ loop'[l].row = r /\ loop'[l].seen = held
  BY <1>4 DEF Worker
<1>6. act \in {"create", "add"} <=> OrderAction(t) = "open"
  BY DEF act
<1>7. act # "create" => r # 0
  BY <1>1, <1>2 DEF act
<1>8. act = "reduce" => IsPartial(t, held)
  BY DEF act
<1>9. act = "close" => ~IsPartial(t, held)
  BY DEF act
<1>10. PlanFor(t, loop'[l])
  BY <1>3, <1>5, <1>6, <1>7, <1>8, <1>9 DEF PlanFor, held
<1> QED
  BY <1>10 DEF t

LEMMA ReadPlans ==
  ASSUME Types, ~Fails, Unique, Planned, NEW l \in Loop, Read(l), ~NextTrade(l)
  PROVE  PlanFor(CurTrade(l), loop'[l])
<1> DEFINE t == CurTrade(l)
           Reread(r, act) == [loop[l] EXCEPT !.pc = "write", !.act = act, !.row = r,
                                             !.seen = rows[r].qty]
<1>1. /\ loop[l].pc = "read" /\ loop[l].todo # <<>>
      /\ \/ /\ loop[l].act # "create"
            /\ loop' = [loop EXCEPT ![l] = Reread(loop[l].row, loop[l].act)]
         \/ /\ loop[l].act = "create"
            /\ \E r \in SamePosition(t) : rows[r].status = "OPEN"
         \/ loop[l].act = "create" /\ Goto(l, "write")
  BY DEF Read, At
<1>2. PlanFor(t, loop[l])
  BY <1>1 DEF Planned, Posting
<1>3. loop[l] \in Worker(DOMAIN history, Len(rows))
  BY Parts DEF Types
<1>4. CASE /\ loop[l].act # "create"
           /\ loop' = [loop EXCEPT ![l] = Reread(loop[l].row, loop[l].act)]
  <2> DEFINE k == rows[loop[l].row].qty
             w == Reread(loop[l].row, loop[l].act)
  <2>1. loop'[l] = w
    BY <1>4 DEF Types, TypeOK
  <2>2. loop[l].row \in OpenRows(t.sym, t.side) /\ loop[l].seen = k
    BY <1>2, <1>4 DEF PlanFor
  <2> HIDE DEF k
  <2>3. w = [loop[l] EXCEPT !.pc = "write", !.act = loop[l].act, !.row = loop[l].row,
                            !.seen = k]
    BY DEF k
  <2> HIDE DEF w
  <2>4. w.act = loop[l].act /\ w.row = loop[l].row /\ w.seen = k
    BY <1>3, <2>3 DEF Worker
  <2>5. w.act = loop[l].act /\ w.row = loop[l].row /\ w.seen = loop[l].seen
    BY <2>2, <2>4
  <2> HIDE DEF t
  <2>6. PlanFor(t, loop'[l])
    BY <1>2, <2>1, <2>5 DEF PlanFor
  <2> QED
    BY <2>6 DEF t
<1>5. CASE /\ loop[l].act = "create"
           /\ \E r \in SamePosition(t) : rows[r].status = "OPEN"
  <2>1. OpenRows(t.sym, t.side) = {}
    BY <1>1, <1>5 DEF Unique, CreatesAlone, Posting
  <2> QED
    BY <1>5, <2>1 DEF SamePosition, OpenRows
<1>6. CASE loop[l].act = "create" /\ Goto(l, "write")
  <2>1. loop'[l].act = "create"
    BY <1>6, GotoMoves DEF Pc
  <2> HIDE DEF t
  <2>2. PlanFor(t, loop'[l])
    BY <1>2, <1>6, <2>1 DEF PlanFor
  <2> QED
    BY <2>2 DEF t
<1> QED
  BY <1>1, <1>4, <1>5, <1>6

LEMMA PlannedInit == Init => Planned
<1> SUFFICES ASSUME Init PROVE Planned
  OBVIOUS
<1>1. Idle.pc \notin Posting
  BY DEF Idle, Posting
<1>2. \A l \in Loop : loop[l] = Idle
  BY DEF Init
<1> QED
  BY <1>1, <1>2 DEF Planned

(* Nothing fails where no failure is allowed for.                          *)
LEMMA NothingFails == ASSUME MaxFailures = 0, TypeOK PROVE ~Fails
<1>1. failures \in 0..0
  BY DEF TypeOK
<1> QED
  BY <1>1 DEF Fails

LEMMA PlannedKept ==
  ASSUME Planned, UNCHANGED <<mode, rows>>,
         \A l \in Loop :
           \/ loop'[l].todo = <<>>
           \/ loop'[l].pc \notin Posting
           \/ CurTrade(l)' = CurTrade(l) /\ PlanFor(CurTrade(l), loop'[l])
  PROVE  Planned'
<1> SUFFICES ASSUME NEW l \in Loop, loop'[l].todo # <<>>, loop'[l].pc \in Posting
             PROVE  PlanFor(CurTrade(l), loop[l])'
  BY DEF Planned
<1>1. CurTrade(l)' = CurTrade(l) /\ PlanFor(CurTrade(l), loop'[l])
  OBVIOUS
<1> QED
  BY <1>1 DEF PlanFor, OrderAction, OpenRows, IsPartial

LEMMA PlannedNext ==
  ASSUME Cardinality(Loop) = 1, MaxFailures = 0, Types, Unique, Planned, [Next]_vars
  PROVE  Planned'
<1>0. ~Fails
  BY NothingFails DEF Types
<1>1. CASE UNCHANGED vars
  <2>1. UNCHANGED <<mode, rows, loop, history>>
    BY <1>1 DEF vars, dbVars
  <2> QED
    BY <2>1, PlannedKept DEF Planned, CurTrade, Cur
<1>5. CASE Tick
  <2>1. UNCHANGED <<mode, rows, loop, history>>
    BY <1>5 DEF Tick, dbVars
  <2> QED
    BY <2>1, PlannedKept DEF Planned, CurTrade, Cur
<1>2. CASE Exchange
  <2>1. PICK t : history' = Append(history, t) /\ UNCHANGED <<mode, rows, loop>>
    BY <1>2 DEF Exchange, Execute, dbVars
  <2>2. history \in Seq(TradeRecord)
    BY DEF Types, TypeOK
  <2>3. \A i \in DOMAIN history : history'[i] = history[i]
    BY <2>1, <2>2
  <2>4. ASSUME NEW l \in Loop, loop[l].todo # <<>> PROVE CurTrade(l)' = CurTrade(l)
    BY <2>1, <2>3, <2>4, AtCur DEF CurTrade, Cur, Types
  <2> QED
    BY <2>1, <2>4, PlannedKept DEF Planned
<1>3. CASE Crash
  <2>1. UNCHANGED <<mode, rows>>
    BY <1>3 DEF Crash, dbVars
  <2> QED
    BY <1>3, <2>1, CrashMoves, PlannedKept
<1>4. ASSUME NEW l \in Loop, Sync(l) PROVE Planned'
  <2>0. ASSUME loop'[l].todo = <<>> \/ loop'[l].pc \notin Posting PROVE Planned'
    BY <2>0, Alone DEF Planned
  <2>1. CASE Fetch(l)
    <3>1. loop'[l].pc \in {"ask", "idle", "check"}
      BY <2>1, FetchMoves DEF Fetches
    <3> QED
      BY <2>0, <3>1 DEF Posting
  <2>2. CASE Finish(l)
    <3>1. loop'[l].todo = <<>>
      BY <2>2, CrashMoves
    <3> QED
      BY <2>0, <3>1
  <2>3. CASE Check(l) \/ CreateOrder(l) \/ CreateFill(l)
    <3>1. /\ loop[l].todo # <<>>
          /\ NextTrade(l) \/ (\E s \in {"order", "fill", "find"} : Goto(l, s))
      BY <2>3 DEF Check, CreateOrder, CreateFill, At
    <3>2. loop'[l].pc \notin Posting
      BY <3>1, NextTradeMoves, GotoMoves DEF Pc, Posting
    <3> QED
      BY <2>0, <3>2
  <2>4. CASE Find(l) \/ Read(l)
    <3>1. /\ UNCHANGED <<rows, history, mode>> /\ loop[l].todo # <<>>
      BY <2>4, FindIs, ReadIs DEF dbVars
    <3>2. CASE NextTrade(l)
      <4>1. loop'[l].pc = "check"
        BY <3>1, <3>2, NextTradeMoves
      <4> QED
        BY <2>0, <4>1 DEF Posting
    <3>3. CASE ~NextTrade(l)
      <4>1. PICK w, s : Stands(l, w, s)
        BY <2>4, <3>3, FindIs, ReadIs
      <4>2. loop'[l].todo = loop[l].todo
        BY <4>1 DEF Stands, Types, TypeOK
      <4>3. CurTrade(l)' = CurTrade(l)
        BY <3>1, <4>2 DEF CurTrade, Cur
      <4>4. PlanFor(CurTrade(l), loop'[l])
        BY <1>0, <2>4, <3>3, FindPlans, ReadPlans
      <4> QED
        BY <3>1, <4>3, <4>4, Alone, PlannedKept
    <3> QED
      BY <3>2, <3>3
  <2>5. CASE Write(l)
    <3>1. loop'[l].pc = "check"
      BY <2>5, WriteIs, NextTradeMoves
    <3> QED
      BY <2>0, <3>1 DEF Posting
  <2> QED
    BY <1>4, <2>1, <2>2, <2>3, <2>4, <2>5 DEF Sync
<1> QED
  BY <1>1, <1>2, <1>3, <1>4, <1>5 DEF Next
-----------------------------------------------------------------------------
(* The rows hold whole units.                                              *)
Exact(u) == \A r \in DOMAIN rows : Whole(u, rows[r].qty)

(* What posting a trade comes to: nothing, a new row where none is open,   *)
(* or the whole trade added to or taken off the open row.                  *)
Changes(t, r, row) ==
  \/ /\ OrderAction(t) = "open" /\ row = [rows[r] EXCEPT !.qty = rows[r].qty + t.qty]
  \/ /\ OrderAction(t) # "open" /\ t.qty < rows[r].qty
     /\ row = [rows[r] EXCEPT !.qty = rows[r].qty - t.qty]
  \/ /\ OrderAction(t) # "open" /\ rows[r].qty <= t.qty /\ row = Closed(rows[r])

LEMMA WritePosts ==
  ASSUME NEW u \in Nat, LotUnit(u), Types, ~Fails, Unique, Planned, Exact(u),
         NEW l \in Loop, Write(l)
  PROVE  LET t == CurTrade(l)
             posted == [posts EXCEPT ![Cur(l)] = @ + 1] IN
         \/ UNCHANGED <<rows, posts>>
         \/ /\ posts' = posted /\ OrderAction(t) = "open"
            /\ OpenRows(t.sym, t.side) = {} /\ rows' = Append(rows, NewRow(t))
         \/ /\ posts' = posted
            /\ \E r \in OpenRows(t.sym, t.side) : \E row \in Row :
                 /\ Changes(t, r, row) /\ Whole(u, row.qty)
                 /\ rows' = [rows EXCEPT ![r] = row]
<1> DEFINE t == CurTrade(l)
           act == loop[l].act
           posted == [posts EXCEPT ![Cur(l)] = @ + 1]
<1>1. loop[l].pc = "write" /\ loop[l].todo # <<>>
  BY WriteIs
<1>2. PlanFor(t, loop[l])
  BY <1>1 DEF Planned, Posting
<1>3. t \in TradeRecord
  BY <1>1, AtCur DEF Types
<1>4. act = "create" => OpenRows(t.sym, t.side) = {} /\ OrderAction(t) = "open"
  BY <1>1, <1>2 DEF Unique, CreatesAlone, Posting, PlanFor
<1>5. CASE act = "create" /\ SamePosition(t) = {}
  BY <1>4, <1>5, WriteDoes
<1>6. CASE act = "create" /\ SamePosition(t) # {}
  <2>1. rows' = Inserted(t) /\ (rows' = rows => posts' = posts)
    BY <1>6, WriteDoes
  <2>2. {r \in SamePosition(t) : rows[r].status = "OPEN"} = {}
    BY <1>4, <1>6 DEF SamePosition, OpenRows
  <2>3. Inserted(t) = [r \in DOMAIN rows |-> rows[r]]
    BY <1>6, <2>2 DEF Inserted
  <2>4. rows = [r \in DOMAIN rows |-> rows[r]]
    BY DEF Types, TypeOK
  <2> QED
    BY <2>1, <2>3, <2>4
<1>7. CASE act # "create"
  <2> DEFINE k == loop[l].row
             h == rows[k].qty
             new == Written(act, rows[k], h, t.qty)
  <2>1. /\ act \in {"add", "reduce", "close"} /\ posts' = posted /\ k \in DOMAIN rows
        /\ rows' = [rows EXCEPT ![k] = Written(act, rows[k], loop[l].seen, t.qty)]
    BY <1>7, WriteDoes
  <2>2. k \in OpenRows(t.sym, t.side) /\ loop[l].seen = h
    BY <1>2, <1>7 DEF PlanFor
  <2>3. rows' = [rows EXCEPT ![k] = new]
    BY <2>1, <2>2
  <2>4. /\ rows[k] \in Row /\ rows[k].status = "OPEN" /\ t.qty \in Nat /\ h \in Nat
        /\ Whole(u, h) /\ Whole(u, t.qty)
    BY <1>3, <2>1, <2>2, Parts, TradeQty DEF Types, OpenRows, Row, Exact, LotUnit, TradeRecord
  <2>5. new \in Row
    <3> DEFINE row == rows[k]
               q == t.qty
    <3>1. row \in Row /\ q \in Nat /\ h \in Nat /\ act \in {"add", "reduce", "close"}
      BY <2>1, <2>4
    <3>2. new = Written(act, row, h, q)
      OBVIOUS
    <3> HIDE DEF row, q, h, act, new
    <3> QED
      BY <3>1, <3>2, WrittenRow
  <2>6. Changes(t, k, new) /\ Whole(u, new.qty)
    <3> DEFINE row == rows[k]
               q == t.qty
    <3>1. /\ Written("add", row, row.qty, q) = [row EXCEPT !.qty = row.qty + q]
          /\ q + Grain < row.qty =>
               Written("reduce", row, row.qty, q) = [row EXCEPT !.qty = row.qty - q]
          /\ ~(q + Grain < row.qty) =>
               Written("close", row, row.qty, q) = Closed(row) /\ row.qty <= q
          /\ Whole(u, row.qty + q) /\ Whole(u, row.qty - q) /\ Whole(u, 0)
      <4> HIDE DEF row, q
      <4>1. /\ row \in Row /\ row.status = "OPEN" /\ q \in Nat
            /\ Whole(u, row.qty) /\ Whole(u, q)
        BY <2>4 DEF row, q
      <4> QED
        BY <4>1, WrittenWhole
    <3>2. /\ act = "add" => OrderAction(t) = "open"
          /\ act = "reduce" => OrderAction(t) # "open" /\ q + Grain < row.qty
          /\ act = "close" => OrderAction(t) # "open" /\ ~(q + Grain < row.qty)
      BY <1>2, <2>2 DEF PlanFor, IsPartial
    <3>3. row \in Row /\ q \in Nat /\ row.qty \in Nat /\ Grain \in Nat
      BY <2>4, BookAssumption
    <3>4. new = Written(act, row, row.qty, q)
      OBVIOUS
    <3>5. Changes(t, k, new) <=>
            \/ OrderAction(t) = "open" /\ new = [row EXCEPT !.qty = row.qty + q]
            \/ /\ OrderAction(t) # "open" /\ q < row.qty
               /\ new = [row EXCEPT !.qty = row.qty - q]
            \/ OrderAction(t) # "open" /\ row.qty <= q /\ new = Closed(row)
      BY DEF Changes
    <3>6. act \in {"add", "reduce", "close"}
      BY <2>1
    <3> HIDE DEF row, q, new, act, t, k, h
    <3>7. CASE act = "add"
      <4>1. new = [row EXCEPT !.qty = row.qty + q]
        BY <3>1, <3>4, <3>7
      <4>2. new.qty = row.qty + q
        BY <3>3, <4>1 DEF Row
      <4> QED
        BY <3>1, <3>2, <3>5, <3>7, <4>1, <4>2
    <3>8. CASE act = "reduce"
      <4>1. new = [row EXCEPT !.qty = row.qty - q] /\ q < row.qty
        BY <3>1, <3>2, <3>3, <3>4, <3>8
      <4>2. new.qty = row.qty - q
        BY <3>3, <4>1 DEF Row
      <4> QED
        BY <3>1, <3>2, <3>5, <3>8, <4>1, <4>2
    <3>9. CASE act = "close"
      <4>1. new = Closed(row) /\ row.qty <= q
        BY <3>1, <3>2, <3>4, <3>9
      <4>2. new.qty = 0
        BY <3>3, <4>1 DEF Row, Closed
      <4> QED
        BY <3>1, <3>2, <3>5, <3>9, <4>1, <4>2
    <3> QED
      BY <3>6, <3>7, <3>8, <3>9
  <2> HIDE DEF k, h, new, act
  <2> QED
    BY <2>1, <2>2, <2>3, <2>5, <2>6
<1> QED
  BY <1>5, <1>6, <1>7

(* Only these steps change what the book is made of.                       *)
LEMMA BookChangedBy ==
  ASSUME Types, [Next]_vars
  PROVE  \/ UNCHANGED <<orders, rows, posts>>
         \/ \E l \in Loop : CreateOrder(l) \/ Write(l)
<1>1. CASE UNCHANGED vars
  BY <1>1 DEF vars, dbVars
<1>2. CASE Exchange \/ Tick
  BY <1>2 DEF Exchange, Execute, Tick, dbVars
<1>5. CASE Crash
  BY <1>5 DEF Crash, dbVars
<1>3. ASSUME NEW l \in Loop, Find(l) \/ Read(l) PROVE UNCHANGED <<orders, rows, posts>>
  BY <1>3, FindIs, ReadIs DEF dbVars
<1>4. ASSUME NEW l \in Loop, Fetch(l) \/ Check(l) \/ CreateFill(l) \/ Finish(l)
      PROVE  UNCHANGED <<orders, rows, posts>>
  BY <1>4, FetchLeaves DEF Check, CreateFill, Finish, dbVars
<1> QED
  BY <1>1, <1>2, <1>3, <1>4, <1>5 DEF Next, Sync

LEMMA ExactInit == \A u : Init => Exact(u)
<1>1. Init => DOMAIN rows = {}
  BY DEF Init
<1> QED
  BY <1>1 DEF Exact

LEMMA ExactNext ==
  ASSUME NEW u \in Nat, LotUnit(u), MaxFailures = 0,
         Types, Unique, Planned, Exact(u), [Next]_vars
  PROVE  Exact(u)'
<1>0. ~Fails
  BY NothingFails DEF Types
<1>1. CASE UNCHANGED rows
  BY <1>1 DEF Exact
<1>2. ASSUME NEW l \in Loop, Write(l) PROVE Exact(u)'
  <2> DEFINE t == CurTrade(l)
  <2>1. rows \in Seq(Row) /\ DOMAIN rows = 1..Len(rows) /\ t \in TradeRecord
    BY <1>2, WriteIs, AtCur, Parts DEF Types, TypeOK
  <2>2. CASE rows' = Append(rows, NewRow(t))
    <3> DEFINE new == NewRow(t)
    <3>1. new.qty = t.qty /\ Whole(u, t.qty) /\ new \in Row
      BY <2>1, TradeQty DEF NewRow, LotUnit, TradeRecord
    <3> HIDE DEF new
    <3>2. /\ DOMAIN rows' = DOMAIN rows \union {Len(rows) + 1}
          /\ \A r \in DOMAIN rows : rows'[r] = rows[r]
          /\ rows'[Len(rows) + 1] = new
      BY <2>1, <2>2, <3>1, Grown DEF new
    <3> HIDE DEF t
    <3> QED
      BY <3>1, <3>2 DEF Exact
  <2>3. ASSUME NEW r \in OpenRows(t.sym, t.side), NEW row \in Row,
               Whole(u, row.qty), rows' = [rows EXCEPT ![r] = row]
        PROVE  Exact(u)'
    BY <2>3 DEF Exact
  <2> HIDE DEF t
  <2> QED
    BY <1>0, <1>1, <1>2, <2>2, <2>3, WritePosts DEF t
<1>3. ASSUME NEW l \in Loop, CreateOrder(l) PROVE UNCHANGED rows
  BY <1>3 DEF CreateOrder
<1> QED
  BY <1>1, <1>2, <1>3, BookChangedBy
-----------------------------------------------------------------------------
(* An order row taken down is a trade taken over.                          *)
LEMMA OrderIsTaken ==
  ASSUME ~Fails, Types, OnItsWay, NEW l \in Loop, CreateOrder(l)
  PROVE  BookStep
<1>1. /\ loop[l].pc = "order" /\ loop[l].todo # <<>>
      /\ orders' = orders \union {Cur(l)} /\ UNCHANGED <<rows, posts>>
  BY DEF CreateOrder, At
<1>2. Cur(l) \in DOMAIN history /\ Cur(l) \notin orders
  BY <1>1, AtCur DEF OnItsWay, Types
<1>3. UNCHANGED Booked
  BY <1>1 DEF Booked, OpenRow, OpenRows
<1>4. UNCHANGED {i \in Id : posts[i] > 0}
  BY <1>1
<1>5. B!Take(Cur(l))
  BY <1>1, <1>2, <1>3, <1>4 DEF B!Take
<1> QED
  BY <1>2, <1>5 DEF BookStep

(* A changed row changes what is held at its place, and nowhere else.      *)
LEMMA PlaceChanges ==
  ASSUME Types, Unique, BookedRows, BookedRows',
         NEW t \in TradeRecord, NEW p \in Place, p = <<t.sym, t.side>>,
         \/ /\ OrderAction(t) = "open" /\ OpenRows(t.sym, t.side) = {}
            /\ rows' = Append(rows, NewRow(t))
         \/ \E r \in OpenRows(t.sym, t.side) : \E row \in Row :
              /\ Changes(t, r, row) /\ rows' = [rows EXCEPT ![r] = row]
  PROVE  /\ Booked'[p] = IF OrderAction(t) = "open" THEN Booked[p] + t.qty
                         ELSE IF t.qty < Booked[p] THEN Booked[p] - t.qty ELSE 0
         /\ \A q \in Place : q # p => Booked'[q] = Booked[q]
<1> DEFINE kind == OrderAction(t)
           After(h) == IF kind = "open" THEN h + t.qty
                       ELSE IF t.qty < h THEN h - t.qty ELSE 0
<1>5. /\ t.qty \in Nat /\ p[1] = t.sym /\ p[2] = t.side
      /\ rows \in Seq(Row) /\ \A r \in DOMAIN rows : rows[r] \in Row
  BY TradeQty, Parts DEF Types, TypeOK
<1>6. \A q \in Place : q = <<q[1], q[2]>>
  BY DEF Place
<1>7. /\ Booked'[p] = After(Booked[p])
      /\ \A q \in Place : q # p => Booked'[q] = Booked[q]
  <2>1. CASE /\ kind = "open" /\ OpenRows(t.sym, t.side) = {}
             /\ rows' = Append(rows, NewRow(t))
    <3> DEFINE new == NewRow(t)
               n == Len(rows) + 1
    <3>1. /\ new \in Row /\ new.qty = t.qty /\ new.sym = p[1] /\ new.side = p[2]
          /\ new.status = "OPEN"
      BY <1>5, TradeQty DEF NewRow
    <3> HIDE DEF new
    <3>2. /\ DOMAIN rows' = DOMAIN rows \union {n}
          /\ \A r \in DOMAIN rows : rows'[r] = rows[r]
          /\ rows'[n] = new
      BY <1>5, <2>1, <3>1, Grown DEF new
    <3> HIDE DEF n
    <3>3. Booked[p] = 0
      BY <1>5, <2>1 DEF BookedRows
    <3>4. n \in OpenRows(p[1], p[2])'
      BY <3>1, <3>2 DEF OpenRows
    <3>5. Booked'[p] = t.qty
      BY <1>5, <3>1, <3>2, <3>4 DEF BookedRows
    <3>6. ASSUME NEW q \in Place, q # p PROVE Booked'[q] = Booked[q]
      <4>1. ~(new.sym = q[1] /\ new.side = q[2])
        BY <1>6, <3>1, <3>6
      <4>2. OpenRows(q[1], q[2])' = OpenRows(q[1], q[2])
        BY <3>2, <4>1 DEF OpenRows
      <4>3. \A r \in OpenRows(q[1], q[2]) : rows'[r].qty = rows[r].qty
        BY <3>2 DEF OpenRows
      <4> QED
        BY <4>2, <4>3, BookedStays
    <3> QED
      BY <1>5, <2>1, <3>3, <3>5, <3>6
  <2>2. ASSUME NEW r \in OpenRows(t.sym, t.side), NEW row \in Row,
               Changes(t, r, row), rows' = [rows EXCEPT ![r] = row]
        PROVE  /\ Booked'[p] = After(Booked[p])
               /\ \A q \in Place : q # p => Booked'[q] = Booked[q]
    <3> DEFINE h == rows[r].qty
    <3>1. /\ r \in DOMAIN rows /\ rows[r] \in Row /\ h \in Nat
          /\ rows[r].sym = p[1] /\ rows[r].side = p[2] /\ rows[r].status = "OPEN"
      BY <1>5 DEF OpenRows, Row
    <3>2. /\ DOMAIN rows' = DOMAIN rows
          /\ \A k \in DOMAIN rows : rows'[k] = IF k = r THEN row ELSE rows[k]
      BY <2>2
    <3>3. Booked[p] = h
      BY <1>5 DEF BookedRows
    <3>4. /\ row.sym = p[1] /\ row.side = p[2]
          /\ \/ kind = "open" /\ row.status = "OPEN" /\ row.qty = h + t.qty
             \/ /\ kind # "open" /\ t.qty < h
                /\ row.status = "OPEN" /\ row.qty = h - t.qty
             \/ kind # "open" /\ h <= t.qty /\ row.status = "CLOSED"
      <4> DEFINE old == rows[r]
                 k == t.qty
      <4>1. old \in Row /\ k \in Nat /\ old.sym = p[1] /\ old.side = p[2]
            /\ old.status = "OPEN" /\ h = old.qty
        BY <1>5, <3>1
      <4>2. \/ kind = "open" /\ row = [old EXCEPT !.qty = h + k]
            \/ kind # "open" /\ k < h /\ row = [old EXCEPT !.qty = h - k]
            \/ kind # "open" /\ h <= k /\ row = [old EXCEPT !.qty = 0, !.status = "CLOSED"]
        BY <2>2 DEF Changes, Closed
      <4> HIDE DEF old, k, h, kind
      <4>3. /\ row.sym = p[1] /\ row.side = p[2]
            /\ \/ kind = "open" /\ row.status = "OPEN" /\ row.qty = h + k
               \/ kind # "open" /\ k < h /\ row.status = "OPEN" /\ row.qty = h - k
               \/ kind # "open" /\ h <= k /\ row.status = "CLOSED"
        BY <4>1, <4>2 DEF Row
      <4> QED
        BY <4>3 DEF k
    <3> HIDE DEF h, kind
    <3>5. Booked'[p] = After(h)
      <4>1. CASE row.status = "OPEN"
        <5>1. r \in OpenRows(p[1], p[2])'
          BY <3>1, <3>2, <3>4, <4>1 DEF OpenRows
        <5>2. Booked'[p] = row.qty
          BY <1>5, <3>1, <3>2, <5>1 DEF BookedRows
        <5> QED
          BY <1>5, <3>1, <3>4, <4>1, <5>2
      <4>2. CASE row.status = "CLOSED"
        <5>1. OpenRows(p[1], p[2])' = {}
          <6> SUFFICES ASSUME NEW k \in OpenRows(p[1], p[2])' PROVE FALSE
            OBVIOUS
          <6>1. k # r
            BY <3>1, <3>2, <4>2 DEF OpenRows
          <6>2. k \in OpenRows(p[1], p[2])
            BY <3>2, <6>1 DEF OpenRows
          <6>3. k \in DOMAIN rows /\ rows[k].status = "OPEN"
                /\ rows[k].sym = p[1] /\ rows[k].side = p[2]
            BY <6>2 DEF OpenRows
          <6> QED
            BY <3>1, <6>1, <6>3 DEF Unique, RowsUnique
        <5>2. Booked'[p] = 0
          BY <1>5, <5>1 DEF BookedRows
        <5>3. kind # "open" /\ ~(t.qty < h)
          BY <1>5, <3>1, <3>4, <4>2 DEF h
        <5> QED
          BY <5>2, <5>3
      <4> QED
        BY <3>4, <4>1, <4>2
    <3>6. ASSUME NEW q \in Place, q # p PROVE Booked'[q] = Booked[q]
      <4>1. ~(p[1] = q[1] /\ p[2] = q[2])
        BY <1>5, <1>6, <3>6
      <4>2. OpenRows(q[1], q[2])' = OpenRows(q[1], q[2])
        BY <3>1, <3>2, <3>4, <4>1 DEF OpenRows
      <4>3. \A k \in OpenRows(q[1], q[2]) : rows'[k].qty = rows[k].qty
        BY <3>1, <3>2, <4>1 DEF OpenRows
      <4> QED
        BY <4>2, <4>3, BookedStays
    <3> QED
      BY <3>3, <3>5, <3>6
  <2> QED
    BY <2>1, <2>2
<1> QED
  BY <1>7

(* What a trade makes of what its place holds.                             *)
After(t, h) ==
  IF OrderAction(t) = "open" THEN h + t.qty ELSE IF t.qty < h THEN h - t.qty ELSE 0

LEMMA WritePostsTrade ==
  ASSUME NEW u \in Nat, LotUnit(u), ~Fails, Types, Unique, Planned, Exact(u),
         BookedRows, BookedRows', OnItsWay,
         NEW l \in Loop, Write(l), ~UNCHANGED <<rows, posts>>
  PROVE  LET c == Cur(l)
             t == history[c]
             p == <<t.sym, t.side>> IN
         /\ c \in DOMAIN history /\ c \in Id /\ c \in orders /\ p \in Place
         /\ loop[l].pc = "write" /\ loop[l].todo # <<>> /\ UNCHANGED orders
         /\ posts \in [Id -> Nat] /\ posts[c] = 0
         /\ posts' = [posts EXCEPT ![c] = @ + 1]
         /\ Booked'[p] = After(t, Booked[p])
         /\ \A q \in Place : q # p => Booked'[q] = Booked[q]
<1> DEFINE t == CurTrade(l)
           p == <<t.sym, t.side>>
<1>1. /\ loop[l].pc = "write" /\ loop[l].todo # <<>> /\ UNCHANGED orders
  BY WriteIs
<1>2. /\ Cur(l) \in DOMAIN history /\ Cur(l) \in Id /\ Cur(l) \in orders
      /\ posts[Cur(l)] = 0 /\ posts \in [Id -> Nat]
      /\ t \in TradeRecord /\ t = history[Cur(l)]
  BY <1>1, AtCur DEF Types, TypeOK, RecordedFirst, OnItsWay, Stored, CurTrade
<1>0. \/ UNCHANGED <<rows, posts>>
      \/ /\ posts' = [posts EXCEPT ![Cur(l)] = @ + 1] /\ OrderAction(t) = "open"
         /\ OpenRows(t.sym, t.side) = {} /\ rows' = Append(rows, NewRow(t))
      \/ /\ posts' = [posts EXCEPT ![Cur(l)] = @ + 1]
         /\ \E r \in OpenRows(t.sym, t.side) : \E row \in Row :
              /\ Changes(t, r, row) /\ Whole(u, row.qty)
              /\ rows' = [rows EXCEPT ![r] = row]
  BY WritePosts
<1>3. /\ posts' = [posts EXCEPT ![Cur(l)] = @ + 1]
      /\ \/ /\ OrderAction(t) = "open" /\ OpenRows(t.sym, t.side) = {}
            /\ rows' = Append(rows, NewRow(t))
         \/ \E r \in OpenRows(t.sym, t.side) : \E row \in Row :
              /\ Changes(t, r, row) /\ rows' = [rows EXCEPT ![r] = row]
  BY <1>0
<1>4. /\ p \in Place /\ t.qty \in Nat /\ p[1] = t.sym /\ p[2] = t.side
  BY <1>2, TradeQty DEF Place, TradeRecord
<1>5. /\ Booked'[p] = IF OrderAction(t) = "open" THEN Booked[p] + t.qty
                     ELSE IF t.qty < Booked[p] THEN Booked[p] - t.qty ELSE 0
      /\ \A q \in Place : q # p => Booked'[q] = Booked[q]
  BY <1>2, <1>3, <1>4, PlaceChanges
<1>6. Booked'[p] = After(t, Booked[p])
  BY <1>5 DEF After
<1> QED
  BY <1>1, <1>2, <1>3, <1>4, <1>5, <1>6

(* A position written is a trade posted, wholly and to its own place.      *)
LEMMA WriteIsPost ==
  ASSUME NEW u \in Nat, LotUnit(u), ~Fails, Types, Unique, Planned, Exact(u),
         BookedRows, BookedRows', OnItsWay,
         NEW l \in Loop, Write(l), ~UNCHANGED <<rows, posts>>
  PROVE  BookStep
<1> DEFINE i == Cur(l)
           t == history[i]
           p == <<t.sym, t.side>>
<1>1. /\ i \in DOMAIN history /\ i \in Id /\ i \in orders /\ p \in Place
      /\ UNCHANGED orders
      /\ posts \in [Id -> Nat] /\ posts[i] = 0
      /\ posts' = [posts EXCEPT ![i] = @ + 1]
      /\ Booked'[p] = After(t, Booked[p])
      /\ \A q \in Place : q # p => Booked'[q] = Booked[q]
  BY WritePostsTrade
<1>2. LET posted == {j \in Id : posts[j] > 0} IN
      /\ i \in orders \ posted
      /\ posted' = posted \union {i}
  BY <1>1
<1>3. Booked' = [Booked EXCEPT ![p] = After(t, @)]
  <2>1. Booked' = [q \in Place |-> Booked'[q]] /\ Booked = [q \in Place |-> Booked[q]]
    BY DEF Booked
  <2> HIDE DEF p, t, i
  <2>2. [Booked EXCEPT ![p] = After(t, @)] =
          [q \in Place |-> IF q = p THEN After(t, Booked[p]) ELSE Booked[q]]
    BY <2>1
  <2>3. [q \in Place |-> Booked'[q]] =
          [q \in Place |-> IF q = p THEN After(t, Booked[p]) ELSE Booked[q]]
    BY <1>1
  <2> QED
    BY <2>1, <2>2, <2>3
<1>4. B!Post(i, <<history[i].sym, history[i].side>>, OrderAction(history[i]),
             history[i].qty)
  BY <1>1, <1>2, <1>3 DEF B!Post, After
<1> HIDE DEF i
<1> QED
  BY <1>1, <1>4 DEF BookStep

(* position_builder.go, position.go: one goroutine whose statements do not *)
(* fail keeps a book in the sense of module Book, for any number of        *)
(* trades, symbols and crashes, if the lots are multiples of a unit that   *)
(* is itself a multiple of the store's precision and coarser than it.      *)
THEOREM BookIsImplemented ==
  ASSUME Cardinality(Loop) = 1, MaxFailures = 0, NEW u \in Nat, LotUnit(u)
  PROVE  Spec => BookImplemented
<1> DEFINE Inv == Types /\ PostedOnce /\ Unique /\ Planned /\ Exact(u)
<1>1. Init => Inv
  BY TypesInit, PostedOnceInit, UniqueInit, PlannedInit, ExactInit
<1>2. Inv /\ [Next]_vars => Inv'
  BY TypesNext, PostedOnceNext, UniqueNext, PlannedNext, ExactNext
<1>3. Inv => BookedRows
  BY BookedIs DEF Types, Unique
<1>4. Inv /\ BookedRows /\ BookedRows' /\ [Next]_vars => [BookStep]_(B!bookVars)
  <2> SUFFICES ASSUME Inv, BookedRows, BookedRows', [Next]_vars
               PROVE  BookStep \/ UNCHANGED B!bookVars
    OBVIOUS
  <2>1. ~Fails /\ failures = 0
    <3>1. failures \in 0..0
      BY DEF Types, TypeOK
    <3> QED
      BY <3>1, NothingFails DEF Types
  <2>2. PostedHasOrder /\ OnItsWay
    BY <2>1 DEF PostedOnce
  <2>3. CASE UNCHANGED <<orders, rows, posts>>
    <3>1. UNCHANGED Booked
      BY <2>3 DEF Booked, OpenRow, OpenRows
    <3> QED
      BY <2>3, <3>1 DEF B!bookVars
  <2>4. ASSUME NEW l \in Loop, CreateOrder(l) PROVE BookStep
    BY <2>1, <2>2, <2>4, OrderIsTaken
  <2>5. ASSUME NEW l \in Loop, Write(l), ~UNCHANGED <<rows, posts>> PROVE BookStep
    BY <2>1, <2>2, <2>5, WriteIsPost
  <2>6. ASSUME NEW l \in Loop, Write(l) PROVE UNCHANGED orders
    BY <2>6 DEF Write
  <2> QED
    BY <2>3, <2>4, <2>5, <2>6, BookChangedBy
<1>5. Init => B!BookInit
  <2> SUFFICES ASSUME Init PROVE B!BookInit
    OBVIOUS
  <2>1. orders = {} /\ rows = <<>> /\ \A i \in Id : ~(posts[i] > 0)
    BY DEF Init
  <2>2. \A sym, side : OpenRow(sym, side) = 0
    BY <2>1 DEF OpenRow, OpenRows
  <2>3. Booked = [p \in Place |-> 0]
    BY <2>2 DEF Booked
  <2> QED
    BY <2>1, <2>3 DEF B!BookInit
<1> HIDE DEF Inv
<1> QED
  BY <1>1, <1>2, <1>3, <1>4, <1>5, PTL DEF Spec, BookImplemented
-----------------------------------------------------------------------------
-----------------------------------------------------------------------------
(* The book follows the exchange. A tally says what the exchange held at a *)
(* place after each trade; when the trades posted of a place are those up  *)
(* to some id, the rows hold what the tally says of that id.               *)
PlaceOf(i) == <<history[i].sym, history[i].side>>
Turned(i, h) == IF history[i].kind = "open" THEN h + history[i].qty
                ELSE h - history[i].qty

Tally(acc) ==
  /\ acc \in [0..Len(history) -> [Place -> Nat]]
  /\ acc[Len(history)] = account
  /\ \A i \in DOMAIN history :
       /\ acc[i][PlaceOf(i)] = Turned(i, acc[i - 1][PlaceOf(i)])
       /\ history[i].kind = "close" => history[i].qty <= acc[i - 1][PlaceOf(i)]
  /\ \A p \in Place : \A n, m \in 0..Len(history) :
       /\ n <= m
       /\ \A i \in DOMAIN history : n < i /\ i <= m => PlaceOf(i) # p
       => acc[n][p] = acc[m][p]

UpTo(p, m) == \A i \in DOMAIN history : PlaceOf(i) = p => (posts[i] > 0 <=> i <= m)

Regular ==
  /\ \A i \in DOMAIN history : ~history[i].even
  /\ \A i, j \in DOMAIN history : i < j => history[i].time < history[j].time

Follows(acc) ==
  \A p \in Place : \A m \in 0..Len(history) : UpTo(p, m) => Booked[p] = acc[m][p]

Followed == \E acc : Tally(acc) /\ (Regular => Follows(acc))

LEMMA FollowedInit == Init => Followed
<1> SUFFICES ASSUME Init PROVE Followed
  OBVIOUS
<1> DEFINE acc == [n \in 0..0 |-> account]
<1>1. /\ history = <<>> /\ rows = <<>> /\ account = [p \in Place |-> 0]
      /\ Len(history) = 0 /\ DOMAIN history = {}
  BY DEF Init
<1>2. Tally(acc)
  BY <1>1 DEF Tally
<1>3. Follows(acc)
  <2>1. \A sym, side : OpenRow(sym, side) = 0
    BY <1>1 DEF OpenRow, OpenRows
  <2>2. \A p \in Place : Booked[p] = 0
    BY <2>1 DEF Booked
  <2>3. \A p \in Place : \A m \in 0..Len(history) : acc[m][p] = 0
    BY <1>1
  <2> HIDE DEF acc
  <2> QED
    BY <2>2, <2>3 DEF Follows
<1> HIDE DEF acc
<1> QED
  BY <1>2, <1>3 DEF Followed

(* The exchange's next trade, the n-th, continues the tally.               *)
Continues(acc, n, more) ==
  /\ n = Len(history) + 1 /\ Len(history') = n /\ Len(history) \in Nat
  /\ Tally(more)' /\ more[n] = account' /\ \A m \in 0..Len(history) : more[m] = acc[m]
  /\ DOMAIN history' = DOMAIN history \union {n} /\ DOMAIN history = 1..Len(history)
  /\ \A i \in DOMAIN history : history'[i] = history[i]
  /\ PlaceOf(n)' \in Place
  /\ \A p \in Place : p # PlaceOf(n)' => account'[p] = account[p]

LEMMA TallyGrows ==
  ASSUME Types, Exchange, NEW CONSTANT acc, Tally(acc)
  PROVE  \E n, more : Continues(acc, n, more)
<1> DEFINE k == Len(history)
<1>0. PICK n : n = k + 1
  OBVIOUS
<1>a. PICK more : more = [m \in 0..n |-> IF m = n THEN account' ELSE acc[m]]
  OBVIOUS
<1>1. PICK sym \in Symbol, side \in Side, kind \in Kind, even \in BOOLEAN,
           qty \in Lot : Execute(sym, side, kind, even, qty)
  BY DEF Exchange
<1> DEFINE t == [sym |-> sym, side |-> side, kind |-> kind, even |-> even,
                 qty |-> qty, time |-> now]
           at == <<sym, side>>
           held == IF kind = "open" THEN account[at] + qty ELSE account[at] - qty
<1>2. /\ history' = Append(history, t)
      /\ kind = "close" => qty <= account[at]
      /\ account' = [account EXCEPT ![at] = held]
  BY <1>1 DEF Execute
<1>3. t \in TradeRecord /\ at \in Place /\ qty \in Nat /\ kind \in Kind
  BY BookAssumption DEF TradeRecord, Place, Types, TypeOK
<1>4. /\ t.sym = sym /\ t.side = side /\ t.kind = kind /\ t.qty = qty
  OBVIOUS
<1>5. /\ history \in Seq(TradeRecord) /\ k \in Nat /\ DOMAIN history = 1..k
      /\ account \in [Place -> Nat]
  BY Parts DEF Types, TypeOK
<1> HIDE DEF t
<1>6. /\ \A i \in DOMAIN history : history'[i] = history[i]
      /\ history'[n] = t /\ DOMAIN history' = DOMAIN history \union {n}
      /\ Len(history') = n
  BY <1>0, <1>2, <1>3, <1>5, Grown
<1>7. held \in Nat
  BY <1>2, <1>3, <1>5 DEF Kind
<1> HIDE DEF at
<1>8. /\ account' \in [Place -> Nat] /\ account'[at] = held
      /\ \A p \in Place : p # at => account'[p] = account[p]
  BY <1>2, <1>3, <1>5, <1>7
<1>9. PlaceOf(n)' = at /\ \A i \in DOMAIN history : PlaceOf(i)' = PlaceOf(i)
  BY <1>4, <1>6 DEF PlaceOf, at
<1>10. /\ acc \in [0..k -> [Place -> Nat]] /\ acc[k] = account
       /\ more \in [0..n -> [Place -> Nat]] /\ more[n] = account'
       /\ \A m \in 0..k : more[m] = acc[m] /\ m # n
       /\ \A m \in 0..n : m = n \/ m \in 0..k
       /\ \A i \in DOMAIN history : i \in 0..k /\ i - 1 \in 0..k /\ i # n
       /\ n - 1 = k /\ k \in 0..k
  <2>1. acc \in [0..k -> [Place -> Nat]] /\ acc[k] = account
    BY DEF Tally
  <2>2. /\ \A m \in 0..n : m = n \/ m \in 0..k
        /\ \A m \in 0..k : m \in 0..n /\ m # n
        /\ n \in 0..n /\ n - 1 = k /\ k \in 0..k
        /\ \A i \in DOMAIN history : i \in 0..k /\ i - 1 \in 0..k /\ i # n
    BY <1>0, <1>5
  <2> HIDE DEF k
  <2> QED
    BY <1>a, <1>8, <2>1, <2>2
<1> HIDE DEF k, held
<1>11. ASSUME NEW i \in DOMAIN history'
       PROVE  /\ more[i][PlaceOf(i)'] =
                   IF history'[i].kind = "open"
                   THEN more[i - 1][PlaceOf(i)'] + history'[i].qty
                   ELSE more[i - 1][PlaceOf(i)'] - history'[i].qty
              /\ history'[i].kind = "close" => history'[i].qty <= more[i - 1][PlaceOf(i)']
  <2>1. CASE i = n
    BY <1>2, <1>4, <1>6, <1>8, <1>9, <1>10, <2>1 DEF held
  <2>2. CASE i \in DOMAIN history
    <3>1. /\ more[i] = acc[i] /\ more[i - 1] = acc[i - 1]
          /\ PlaceOf(i)' = PlaceOf(i) /\ history'[i] = history[i]
      BY <1>6, <1>9, <1>10, <2>2
    <3> QED
      BY <2>2, <3>1 DEF Tally, Turned
  <2> QED
    BY <1>6, <2>1, <2>2
<1>12. ASSUME NEW p \in Place, NEW a \in 0..n, NEW b \in 0..n, a <= b,
              \A i \in DOMAIN history' : a < i /\ i <= b => PlaceOf(i)' # p
       PROVE  more[a][p] = more[b][p]
  <2>1. \A x \in 0..k, y \in 0..k :
          /\ x <= y
          /\ \A i \in DOMAIN history : x < i /\ i <= y => PlaceOf(i) # p
          => acc[x][p] = acc[y][p]
    BY DEF Tally, k
  <2>2. CASE b \in 0..k
    <3>1. a \in 0..k
      BY <1>0, <1>5, <1>12, <2>2
    <3>2. \A i \in DOMAIN history : a < i /\ i <= b => PlaceOf(i) # p
      BY <1>6, <1>9, <1>12
    <3>3. acc[a][p] = acc[b][p]
      BY <1>12, <2>1, <2>2, <3>1, <3>2
    <3> QED
      BY <1>10, <2>2, <3>1, <3>3
  <2>3. CASE a \in 0..k /\ b = n
    <3>1. a <= k /\ a < n /\ \A i \in DOMAIN history : i <= k => i <= n
      BY <1>0, <1>5, <2>3
    <3>2. acc[a][p] = acc[k][p]
      BY <1>6, <1>9, <1>10, <1>12, <2>1, <2>3, <3>1
    <3>3. p # at
      BY <1>0, <1>5, <1>6, <1>9, <1>12, <2>3, <3>1
    <3> QED
      BY <1>8, <1>10, <2>3, <3>2, <3>3
  <2>4. CASE a = n /\ b = n
    BY <2>4
  <2> QED
    BY <1>0, <1>5, <1>10, <2>2, <2>3, <2>4
<1>13. Tally(more)'
  BY <1>6, <1>10, <1>11, <1>12 DEF Tally, Turned
<1>14. Continues(acc, n, more)
  BY <1>0, <1>3, <1>5, <1>6, <1>8, <1>9, <1>10, <1>13 DEF k, Continues
<1> QED
  BY <1>14

LEMMA FollowedExchange ==
  ASSUME Types, PostedHasOrder, Followed, Exchange
  PROVE  Followed'
<1>1. PICK acc : Tally(acc) /\ (Regular => Follows(acc))
  BY DEF Followed
<1>0. PICK n, more : Continues(acc, n, more)
  BY <1>1, TallyGrows
<1>2. /\ n = Len(history) + 1 /\ Len(history') = n /\ Len(history) \in Nat
      /\ Tally(more)' /\ more[n] = account' /\ \A m \in 0..Len(history) : more[m] = acc[m]
      /\ DOMAIN history' = DOMAIN history \union {n} /\ DOMAIN history = 1..Len(history)
      /\ \A i \in DOMAIN history : history'[i] = history[i]
      /\ PlaceOf(n)' \in Place
      /\ \A p \in Place : p # PlaceOf(n)' => account'[p] = account[p]
  BY <1>0 DEF Continues
<1>3. UNCHANGED <<rows, posts, orders>>
  BY DEF Exchange, Execute, dbVars
<1>4. UNCHANGED Booked
  BY <1>3 DEF Booked, OpenRow, OpenRows
<1> DEFINE k == Len(history)
<1>5. n \in Id /\ ~(posts[n] > 0)
  <2>1. Len(history') <= MaxTrades
    BY TypesNext DEF Next, Types, TypeOK
  <2>2. n \in Id
    BY <1>2, <2>1, BookBounds DEF Id
  <2>3. n \notin orders
    BY <1>2 DEF Types, TypeOK
  <2> QED
    BY <2>2, <2>3 DEF PostedHasOrder
<1>6. \A i \in DOMAIN history : PlaceOf(i)' = PlaceOf(i)
  BY <1>2 DEF PlaceOf
<1>7. Regular' => Regular
  BY <1>2 DEF Regular
<1>8. ASSUME Follows(acc), NEW p \in Place, NEW m \in 0..n, UpTo(p, m)'
      PROVE  Booked'[p] = more[m][p]
  <2>1. UpTo(p, m)
    BY <1>2, <1>3, <1>6, <1>8 DEF UpTo
  <2>2. CASE m \in 0..k
    BY <1>2, <1>4, <1>8, <2>1, <2>2 DEF Follows
  <2>3. CASE m = n
    <3>1. p # PlaceOf(n)'
      BY <1>2, <1>3, <1>5, <1>8, <2>3 DEF UpTo
    <3>2. UpTo(p, k)
      BY <1>2, <2>1, <2>3 DEF UpTo
    <3>3. Booked[p] = acc[k][p]
      BY <1>2, <1>8, <3>2 DEF Follows
    <3>4. acc[k] = account /\ more[n] = account'
      BY <1>1, <1>2 DEF Tally
    <3> QED
      BY <1>2, <1>4, <2>3, <3>1, <3>3, <3>4
  <2> QED
    BY <1>2, <2>2, <2>3
<1>9. Regular' => Follows(more)'
  BY <1>1, <1>2, <1>7, <1>8 DEF Follows
<1> QED
  BY <1>2, <1>9 DEF Followed

(* A trade posted brings its place to what the tally says of it: the       *)
(* trades posted before it were those up to the one before.                *)
LEMMA FollowedWrite ==
  ASSUME NEW u \in Nat, LotUnit(u), ~Fails, Types, Unique, Planned, Exact(u),
         BookedRows, BookedRows', OnItsWay, TodoAfter, Followed,
         NEW l \in Loop, Write(l), ~UNCHANGED <<rows, posts>>
  PROVE  Followed'
<1> DEFINE c == Cur(l)
           t == history[c]
           at == PlaceOf(c)
           k == Len(history)
<1>1. /\ c \in DOMAIN history /\ c \in Id /\ at \in Place
      /\ loop[l].pc = "write" /\ loop[l].todo # <<>>
      /\ posts \in [Id -> Nat] /\ posts[c] = 0
      /\ posts' = [posts EXCEPT ![c] = @ + 1]
      /\ Booked'[at] = After(t, Booked[at])
      /\ \A q \in Place : q # at => Booked'[q] = Booked[q]
  BY WritePostsTrade DEF PlaceOf
<1>2. UNCHANGED <<mode, history, account>>
  BY DEF Write
<1>3. PICK acc : Tally(acc) /\ (Regular => Follows(acc))
  BY DEF Followed
<1>4. Tally(acc)' /\ Regular' = Regular /\ \A i \in DOMAIN history : PlaceOf(i)' = PlaceOf(i)
  BY <1>2, <1>3 DEF Tally, Regular, PlaceOf, Turned
<1>5. /\ DOMAIN history = 1..k /\ k \in Nat /\ t \in TradeRecord /\ t.qty \in Nat
      /\ \A i \in DOMAIN history : i \in Id /\ history[i].time \in Nat
  BY <1>1, Parts, BookBounds, TradeQty DEF Types, TradeRecord, Time
<1>6. \A i \in DOMAIN history : Behind(i, c)
  BY <1>1 DEF TodoAfter, Stored
<1> HIDE DEF c
<1>7. \A i \in Id : posts'[i] > 0 <=> posts[i] > 0 \/ i = c
  BY <1>1
<1>8. ASSUME Regular, NEW p \in Place, NEW m \in 0..k, UpTo(p, m)'
      PROVE  Booked'[p] = acc[m][p]
  <2>0. \A i \in DOMAIN history : PlaceOf(i) = p => (posts[i] > 0 \/ i = c <=> i <= m)
    BY <1>2, <1>4, <1>5, <1>7, <1>8 DEF UpTo
  <2>1. CASE p # at
    <3>1. UpTo(p, m)
      BY <2>0, <2>1 DEF UpTo
    <3> QED
      BY <1>1, <1>3, <1>8, <2>1, <3>1 DEF Follows
  <2>2. CASE p = at
    <3>1. c <= m /\ c \in 0..k /\ c - 1 \in 0..k
      BY <1>1, <1>5, <2>0, <2>2
    <3>2. ASSUME NEW i \in DOMAIN history, PlaceOf(i) = p, posts[i] > 0 PROVE i < c
      <4>1. history[i].sym = history[c].sym
        BY <2>2, <3>2 DEF PlaceOf
      <4>2. history[i].time <= history[c].time
        BY <1>6, <3>2, <4>1 DEF Behind
      <4>3. ~(c < i)
        BY <1>1, <1>5, <1>8, <4>2 DEF Regular
      <4>4. i # c
        BY <1>1, <3>2
      <4> QED
        BY <1>1, <1>5, <4>3, <4>4
    <3>3. UpTo(p, c - 1)
      BY <1>1, <1>5, <2>0, <3>1, <3>2 DEF UpTo
    <3>4. Booked[p] = acc[c - 1][p]
      BY <1>3, <1>8, <3>1, <3>3 DEF Follows
    <3>5. acc[c][p] = acc[m][p]
      <4>1. \A i \in DOMAIN history : c < i /\ i <= m => PlaceOf(i) # p
        BY <1>1, <1>5, <2>0, <3>2
      <4> QED
        BY <1>3, <3>1, <4>1 DEF Tally
    <3>6. acc[c - 1][p] \in Nat
      BY <1>3, <3>1 DEF Tally
    <3>7. After(t, acc[c - 1][p]) = acc[c][p]
      <4>1. OrderAction(t) = t.kind
        BY <1>1, <1>8 DEF OrderAction, Regular
      <4>2. t.kind \in {"open", "close"}
        BY <1>5 DEF TradeRecord, Kind
      <4>3. /\ acc[c][p] = Turned(c, acc[c - 1][p])
            /\ t.kind = "close" => t.qty <= acc[c - 1][p]
        BY <1>1, <1>3, <2>2 DEF Tally
      <4> HIDE DEF t
      <4>4. acc[c][p] = IF t.kind = "open" THEN acc[c - 1][p] + t.qty
                        ELSE acc[c - 1][p] - t.qty
        BY <4>3 DEF Turned, t
      <4> QED
        BY <1>5, <3>6, <4>1, <4>2, <4>3, <4>4 DEF After
    <3> QED
      BY <1>1, <2>2, <3>4, <3>5, <3>7
  <2> QED
    BY <2>1, <2>2
<1>9. Regular' => Follows(acc)'
  BY <1>2, <1>4, <1>8 DEF Follows
<1> QED
  BY <1>4, <1>9 DEF Followed

LEMMA FollowedNext ==
  ASSUME NEW u \in Nat, LotUnit(u), ~Fails, Types, Unique, Planned, Exact(u),
         BookedRows, BookedRows', PostedHasOrder, OnItsWay, TodoAfter, Followed,
         [Next]_vars
  PROVE  Followed'
<1>1. ASSUME UNCHANGED <<history, account, rows, posts>> PROVE Followed'
  <2>1. PICK acc : Tally(acc) /\ (Regular => Follows(acc))
    BY DEF Followed
  <2>2. UNCHANGED Booked
    BY <1>1 DEF Booked, OpenRow, OpenRows
  <2>3. Tally(acc)' /\ Regular' = Regular
    BY <1>1, <2>1 DEF Tally, PlaceOf, Turned, Regular
  <2>4. Follows(acc) => Follows(acc)'
    BY <1>1, <2>2 DEF Follows, UpTo, PlaceOf
  <2> QED
    BY <2>1, <2>3, <2>4 DEF Followed
<1>2. CASE UNCHANGED vars \/ Tick
  BY <1>1, <1>2 DEF vars, Tick, dbVars
<1>3. CASE Exchange
  BY <1>3, FollowedExchange
<1>4. CASE Crash
  BY <1>1, <1>4 DEF Crash, dbVars
<1>5. ASSUME NEW l \in Loop,
             Fetch(l) \/ Check(l) \/ CreateOrder(l) \/ CreateFill(l) \/ Finish(l)
      PROVE  UNCHANGED <<history, account, rows, posts>>
  BY <1>5, FetchLeaves DEF Check, CreateOrder, CreateFill, Finish, dbVars
<1>6. ASSUME NEW l \in Loop, Find(l) \/ Read(l)
      PROVE  UNCHANGED <<history, account, rows, posts>>
  BY <1>6, FindIs, ReadIs DEF dbVars
<1>7. ASSUME NEW l \in Loop, Write(l) PROVE Followed'
  <2>1. CASE UNCHANGED <<rows, posts>>
    BY <1>1, <1>7, <2>1 DEF Write
  <2>2. CASE ~UNCHANGED <<rows, posts>>
    BY <1>7, <2>2, FollowedWrite
  <2> QED
    BY <2>1, <2>2
<1> QED
  BY <1>1, <1>2, <1>3, <1>4, <1>5, <1>6, <1>7 DEF Next, Sync

(* position_builder.go: when one goroutine whose statements do not fail    *)
(* has posted every trade, the open rows hold what the exchange holds, for *)
(* any number of trades, symbols and crashes; the lots are multiples of a  *)
(* unit that is itself a multiple of the store's precision and coarser.    *)
THEOREM BookFollowsExchangeAlways ==
  ASSUME Cardinality(Loop) = 1, MaxFailures = 0, NEW u \in Nat, LotUnit(u)
  PROVE  Spec => []BookFollowsExchange
<1> DEFINE Inv == /\ Types /\ PostedOnce /\ Unique /\ Planned /\ Exact(u)
                  /\ Sorted /\ Past /\ Strict /\ Ordered
<1>1. Init => Inv /\ Followed
  BY TypesInit, PostedOnceInit, UniqueInit, PlannedInit, ExactInit, SortedInit,
     PastInit, OrderedInit, FollowedInit
<1>2. Inv /\ [Next]_vars => Inv'
  BY TypesNext, PostedOnceNext, UniqueNext, PlannedNext, ExactNext, SortedNext,
     PastNext, OrderedNext DEF Sorted
<1>3. Inv => BookedRows
  BY BookedIs DEF Types, Unique
<1>4. Inv /\ BookedRows /\ BookedRows' /\ Followed /\ [Next]_vars => Followed'
  <2> SUFFICES ASSUME Inv, BookedRows, BookedRows', Followed, [Next]_vars
               PROVE  Followed'
    OBVIOUS
  <2>1. ~Fails /\ failures = 0
    <3>1. failures \in 0..0
      BY DEF Types, TypeOK
    <3> QED
      BY <3>1, NothingFails DEF Types
  <2> QED
    BY <2>1, FollowedNext DEF PostedOnce, Ordered
<1>5. Inv /\ Followed => BookFollowsExchange
  <2> SUFFICES ASSUME Inv, Followed, \A i \in DOMAIN history : posts[i] = 1, Regular
               PROVE  Booked = account
    BY DEF BookFollowsExchange, Regular
  <2>1. PICK acc : Tally(acc) /\ Follows(acc)
    BY DEF Followed
  <2>2. DOMAIN history = 1..Len(history) /\ Len(history) \in Nat
    BY Parts DEF Types
  <2>3. \A p \in Place : UpTo(p, Len(history))
    BY <2>2 DEF UpTo
  <2>4. \A p \in Place : Booked[p] = account[p]
    BY <2>1, <2>2, <2>3 DEF Follows, Tally
  <2>5. account \in [Place -> Nat]
    BY DEF Types, TypeOK
  <2>6. Booked = [p \in Place |-> Booked[p]]
    BY DEF Booked
  <2> QED
    BY <2>4, <2>5, <2>6
<1> HIDE DEF Inv
<1> QED
  BY <1>1, <1>2, <1>3, <1>4, <1>5, PTL DEF Spec
=============================================================================
