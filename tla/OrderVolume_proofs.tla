------------------------- MODULE OrderVolume_proofs -------------------------
(***************************************************************************)
(* Proofs about OrderVolume, for every set of orders, every assignment of  *)
(* sizes and every cap.                                                    *)
(***************************************************************************)
EXTENDS OrderVolume, SequenceTheorems, TLAPS

(* A thread that is past a decision's first step, or handling a row,       *)
(* works on an order.                                                      *)
Working ==
  {"poll", "persist", "save_filled", "save_posted", "write_record",
   "refresh", "onfill", "write_import", "cancel", "write"}

CurOK == \A t \in Threads : pc[t] \in Working => cur[t] \in Order

Types == TypeOK /\ CurOK

(* A group of variables that a step leaves alone keeps its type.           *)
LEMMA Frame ==
  ASSUME Types
  PROVE  /\ UNCHANGED volumes => VolumeTypes'
         /\ UNCHANGED <<rows, put>> => RecordTypes'
         /\ UNCHANGED exchange => ExchangeTypes'
         /\ UNCHANGED <<pc, cur>> => ControlTypes' /\ CurOK'
         /\ UNCHANGED <<list, open>> => ListTypes'
         /\ UNCHANGED <<usd, loaded>> => ValueTypes'
         /\ UNCHANGED history => HistoryTypes'
<1> USE DEF Types, TypeOK
<1>1. UNCHANGED volumes => VolumeTypes'
  BY DEF volumes, VolumeTypes
<1>2. UNCHANGED <<rows, put>> => RecordTypes'
  BY DEF RecordTypes
<1>3. UNCHANGED exchange => ExchangeTypes'
  BY DEF exchange, ExchangeTypes
<1>4. UNCHANGED <<pc, cur>> => ControlTypes' /\ CurOK'
  BY DEF ControlTypes, CurOK
<1>5. UNCHANGED <<list, open>> => ListTypes'
  BY DEF ListTypes
<1>6. UNCHANGED <<usd, loaded>> => ValueTypes'
  BY DEF ValueTypes
<1>7. UNCHANGED history => HistoryTypes'
  BY DEF history, HistoryTypes
<1> QED
  BY <1>1, <1>2, <1>3, <1>4, <1>5, <1>6, <1>7

(* A thread moves to another step, keeping its order.                      *)
LEMMA GotoType ==
  ASSUME Types, NEW t \in Threads, NEW s \in Step, Goto(t, s),
         UNCHANGED cur, s \in Working => cur[t] \in Order
  PROVE  ControlTypes' /\ CurOK'
BY DEF Types, TypeOK, ControlTypes, CurOK, Goto

(* Sequences of rows.                                                      *)
LEMMA RowAt ==
  ASSUME NEW q \in Seq(Row), NEW i \in DOMAIN q
  PROVE  /\ q[i] \in Row /\ q[i].order \in Order /\ q[i].status \in RowStatus
<1> HIDE DEF Row
<1>1. q[i] \in Row
  OBVIOUS
<1> QED
  BY <1>1 DEF Row

LEMMA ListedType ==
  ASSUME Types
  PROVE  Listed \in Seq(Row)
<1> DEFINE n == IF Len(rows) < ListLimit THEN Len(rows) ELSE ListLimit
<1>0. rows \in Seq(Row)
  BY DEF Types, TypeOK, RecordTypes
<1> HIDE DEF Row
<1>1. n \in Nat /\ n <= Len(rows)
  BY <1>0, BoundAssumption
<1>2. \A i \in 1..n : rows[Len(rows) + 1 - i] \in Row
  BY <1>0, <1>1
<1>3. Listed = [i \in 1..n |-> rows[Len(rows) + 1 - i]]
  BY DEF Listed
<1> HIDE DEF n
<1>4. Listed \in [1..n -> Row]
  BY <1>2, <1>3
<1> QED
  BY <1>1, <1>4, SeqDef

(* UpdateOrderStatus writes the status of the order's rows and nothing     *)
(* else.                                                                   *)
LEMMA UpdateRows ==
  ASSUME Types, NEW o, NEW s \in RowStatus, UpdateOrderStatus(o, s)
  PROVE  /\ rows' \in Seq(Row) /\ DOMAIN rows' = DOMAIN rows
         /\ \A i \in DOMAIN rows :
              /\ rows'[i].order = rows[i].order
              /\ rows'[i].status =
                   IF rows[i].order = o THEN s ELSE rows[i].status
<1>1. rows \in Seq(Row) /\ DOMAIN rows = 1..Len(rows) /\ Len(rows) \in Nat
  BY DEF Types, TypeOK, RecordTypes
<1>2. /\ DOMAIN rows' = DOMAIN rows
      /\ \A i \in DOMAIN rows :
           rows'[i] = IF rows[i].order = o
                      THEN [rows[i] EXCEPT !.status = s] ELSE rows[i]
  BY DEF UpdateOrderStatus, RowsOf
<1>3. \A i \in DOMAIN rows :
        /\ rows'[i] \in Row
        /\ rows'[i].order = rows[i].order
        /\ rows'[i].status = IF rows[i].order = o THEN s ELSE rows[i].status
  BY <1>1, <1>2, RowAt DEF Row
<1>4. rows' = [i \in DOMAIN rows |-> rows'[i]]
  BY <1>2 DEF UpdateOrderStatus
<1>5. rows' \in [1..Len(rows) -> Row]
  BY <1>1, <1>3, <1>4
<1>6. rows' \in Seq(Row)
  BY <1>1, <1>5, SeqDef
<1> QED
  BY <1>2, <1>3, <1>6

(* Save either appends a row of the order, or changes no row but the       *)
(* order's, and those only to the given status.                            *)
LEMMA SavedRows ==
  ASSUME Types, NEW t \in Threads, Save(t), cur[t] \in Order
  PROVE  /\ rows' \in Seq(Row)
         /\ put[t].absent =>
              /\ DOMAIN rows' = DOMAIN rows \union {Len(rows) + 1}
              /\ Len(rows) + 1 \notin DOMAIN rows
              /\ \A i \in DOMAIN rows : rows'[i] = rows[i]
              /\ rows'[Len(rows) + 1].order = cur[t]
              /\ rows'[Len(rows) + 1].status = put[t].status
         /\ ~put[t].absent =>
              /\ DOMAIN rows' = DOMAIN rows
              /\ \A i \in DOMAIN rows :
                   /\ rows'[i].order = rows[i].order
                   /\ \/ rows'[i].status = rows[i].status
                      \/ /\ rows[i].order = cur[t]
                         /\ rows'[i].status = put[t].status
<1>1. /\ rows \in Seq(Row) /\ DOMAIN rows = 1..Len(rows) /\ Len(rows) \in Nat
      /\ put[t].status \in RowStatus /\ put[t].absent \in BOOLEAN
  BY DEF Types, TypeOK, RecordTypes
<1>2. CASE put[t].absent
  <2> DEFINE r == [order |-> cur[t], status |-> put[t].status]
  <2>1. rows' = Append(rows, r) /\ r \in Row
    BY <1>1, <1>2 DEF Save, Row
  <2>2. r.order = cur[t] /\ r.status = put[t].status
    OBVIOUS
  <2> HIDE DEF r, Row
  <2>3. /\ rows' \in Seq(Row)
        /\ Len(rows') = Len(rows) + 1
        /\ \A i \in 1..Len(rows) : rows'[i] = rows[i]
        /\ rows'[Len(rows) + 1] = r
    BY <1>1, <2>1, AppendProperties
  <2>4. DOMAIN rows' = 1..(Len(rows) + 1)
    BY <2>3
  <2> QED
    BY <1>1, <1>2, <2>2, <2>3, <2>4
<1>3. CASE ~put[t].absent
  <2>1. /\ DOMAIN rows' = DOMAIN rows
        /\ \A i \in DOMAIN rows :
             rows'[i] = IF rows[i].order = cur[t] /\ IsFirst(i)
                        THEN [rows[i] EXCEPT !.status = put[t].status]
                        ELSE rows[i]
        /\ rows' = [i \in DOMAIN rows |-> rows'[i]]
    BY <1>3 DEF Save, RowsOf
  <2>2. \A i \in DOMAIN rows :
          /\ rows'[i] \in Row
          /\ rows'[i].order = rows[i].order
          /\ \/ rows'[i].status = rows[i].status
             \/ rows[i].order = cur[t] /\ rows'[i].status = put[t].status
    BY <1>1, <2>1, RowAt DEF Row
  <2>3. rows' \in [1..Len(rows) -> Row]
    BY <1>1, <2>1, <2>2
  <2>4. rows' \in Seq(Row)
    BY <1>1, <2>3, SeqDef
  <2> QED
    BY <1>3, <2>1, <2>2, <2>4
<1> QED
  BY <1>1, <1>2, <1>3

LEMMA LookUpType ==
  ASSUME Types, NEW t \in Threads, NEW o, NEW s \in RowStatus,
         LookUp(t, o, s)
  PROVE  put' \in [Threads -> [status : RowStatus, absent : BOOLEAN]]
BY DEF Types, TypeOK, RecordTypes, LookUp

LEMMA LookedUp ==
  ASSUME Types, NEW t \in Threads, NEW o, NEW s, LookUp(t, o, s)
  PROVE  put'[t].status = s /\ (put'[t].absent <=> RowsOf(o) = {})
<1> DEFINE b == RowsOf(o) = {}
<1>1. put' = [put EXCEPT ![t] = [status |-> s, absent |-> b]]
  BY DEF LookUp
<1> HIDE DEF b
<1>2. put'[t] = [status |-> s, absent |-> b]
  BY <1>1 DEF Types, TypeOK, RecordTypes
<1>3. put'[t].status = s /\ put'[t].absent = b
  BY <1>2
<1> QED
  BY <1>3 DEF b

LEMMA NoPutType == NoPut \in [status : RowStatus, absent : BOOLEAN]
BY DEF NoPut, RowStatus, VenueState

LEMMA TypesInit == Init => Types
<1> SUFFICES ASSUME Init
             PROVE  Types
  OBVIOUS
<1> USE OrderAssumption, BoundAssumption DEF Init
<1>1. VolumeTypes /\ ValueTypes /\ HistoryTypes
  BY DEF VolumeTypes, ValueTypes, HistoryTypes, NoRiskRow
<1>2. RecordTypes /\ ExchangeTypes
  BY NoPutType DEF RecordTypes, ExchangeTypes, VenueState
<1>3. ControlTypes /\ ListTypes /\ CurOK
  BY DEF ControlTypes, ListTypes, CurOK, Step, Working
<1> QED
  BY <1>1, <1>2, <1>3 DEF Types, TypeOK

LEMMA CycleStepTypes == Types /\ CycleStep => Types'
<1> SUFFICES ASSUME Types, CycleStep
             PROVE  Types'
  OBVIOUS
<1> USE ThreadAssumption, Frame DEF Step, Working
<1>1. CASE BeginCycle
  <2>1. ControlTypes' /\ CurOK'
    BY <1>1, GotoType DEF BeginCycle
  <2>2. ValueTypes'
    BY <1>1 DEF BeginCycle, Types, TypeOK, ValueTypes, VolumeTypes
  <2> QED
    BY <1>1, <2>1, <2>2 DEF BeginCycle, Types, TypeOK
<1>2. CASE SyncDailyVolume
  <2>1. ControlTypes' /\ CurOK'
    BY <1>2, GotoType DEF SyncDailyVolume
  <2>2. VolumeTypes' /\ ValueTypes'
    BY <1>2 DEF SyncDailyVolume, SyncedVolume, NoRiskRow, Types, TypeOK,
                VolumeTypes, ValueTypes
  <2> QED
    BY <1>2, <2>1, <2>2 DEF SyncDailyVolume, Types, TypeOK
<1>3. CASE SyncDailyVolumeFails
  <2>1. ControlTypes' /\ CurOK'
    BY <1>3, GotoType DEF SyncDailyVolumeFails
  <2>2. VolumeTypes' /\ ValueTypes'
    BY <1>3 DEF SyncDailyVolumeFails, NoRiskRow, Types, TypeOK, VolumeTypes,
                ValueTypes
  <2> QED
    BY <1>3, <2>1, <2>2 DEF SyncDailyVolumeFails, Types, TypeOK
<1>4. CASE RefreshGate
  <2>1. ControlTypes' /\ CurOK'
    BY <1>4, GotoType DEF RefreshGate, locals
  <2>2. VolumeTypes' /\ HistoryTypes'
    BY <1>4 DEF RefreshGate, Types, TypeOK, VolumeTypes, HistoryTypes
  <2> QED
    BY <1>4, <2>1, <2>2 DEF RefreshGate, locals, Types, TypeOK
<1>5. CASE EngineAnswers \/ CycleFails
  <2>1. ControlTypes' /\ CurOK'
    BY <1>5, GotoType DEF EngineAnswers, CycleFails, locals
  <2> QED
    BY <1>5, <2>1 DEF EngineAnswers, CycleFails, locals, Types, TypeOK
<1>6. CASE OnFill
  <2>1. ControlTypes' /\ CurOK'
    BY <1>6 DEF OnFill, Goto, Types, TypeOK, ControlTypes, CurOK
  <2>2. VolumeTypes' /\ ValueTypes'
    BY <1>6 DEF OnFill, AddVolume, Types, TypeOK, VolumeTypes, ValueTypes
  <2>3. /\ usd["cycle"] \in Nat /\ counted \in [Order -> Nat]
        /\ cur["cycle"] \in Order
    BY <1>6 DEF OnFill, Types, TypeOK, ValueTypes, HistoryTypes, CurOK
  <2>4. counted' \in [Order -> Nat]
    <3>1. counted' = [counted EXCEPT ![cur["cycle"]] = @ + usd["cycle"]]
      BY <1>6 DEF OnFill, AddVolume
    <3> QED
      BY <2>3, <3>1
  <2>5. HistoryTypes'
    BY <1>6, <2>3, <2>4 DEF OnFill, AddVolume, Types, TypeOK, HistoryTypes
  <2> QED
    BY <1>6, <2>1, <2>2, <2>5 DEF OnFill, Types, TypeOK
<1>7. CASE PersistOnFill
  <2>1. ControlTypes' /\ CurOK'
    BY <1>7, GotoType DEF PersistOnFill, locals
  <2>2. VolumeTypes'
    BY <1>7 DEF PersistOnFill, PersistDailyVolume, Types, TypeOK, VolumeTypes
  <2> QED
    BY <1>7, <2>1, <2>2 DEF PersistOnFill, locals, Types, TypeOK
<1> QED
  BY <1>1, <1>2, <1>3, <1>4, <1>5, <1>6, <1>7 DEF CycleStep

LEMMA TradeStepTypes ==
  ASSUME Types, NEW t \in Threads, TradeStep(t)
  PROVE  Types'
<1> USE ThreadAssumption, OrderAssumption, Frame DEF Step, Working
<1>1. ASSUME NEW o \in Order, PlaceOrder(t, o)
      PROVE  Types'
  <2>1. ControlTypes' /\ CurOK'
    BY <1>1 DEF PlaceOrder, Goto, Types, TypeOK, ControlTypes, CurOK
  <2>2. ExchangeTypes'
    BY <1>1 DEF PlaceOrder, VenueState, Types, TypeOK, ExchangeTypes
  <2> QED
    BY <1>1, <2>1, <2>2 DEF PlaceOrder, Types, TypeOK
<1>2. ASSUME NEW o \in Order, PlaceMatched(t, o)
      PROVE  Types'
  <2>1. ControlTypes' /\ CurOK'
    BY <1>2 DEF PlaceMatched, Goto, Types, TypeOK, ControlTypes, CurOK
  <2>2. ExchangeTypes'
    BY <1>2 DEF PlaceMatched, VenueState, Types, TypeOK, ExchangeTypes
  <2> QED
    BY <1>2, <2>1, <2>2 DEF PlaceMatched, Types, TypeOK
<1>3. ASSUME NEW o \in Order, PlaceLost(t, o)
      PROVE  Types'
  <2>1. ExchangeTypes'
    BY <1>3 DEF PlaceLost, VenueState, Types, TypeOK, ExchangeTypes
  <2> QED
    BY <1>3, <2>1 DEF PlaceLost, locals, Types, TypeOK
<1>4. CASE ConfirmFill(t)
  <2>1. cur[t] \in Order /\ matched[cur[t]] \in Nat
    BY <1>4 DEF ConfirmFill, Types, TypeOK, CurOK, ExchangeTypes
  <2>2. ControlTypes' /\ CurOK'
    BY <1>4, <2>1, GotoType DEF ConfirmFill, locals
  <2>3. VolumeTypes'
    BY <1>4, <2>1 DEF ConfirmFill, RecordFill, AddVolume, Types, TypeOK,
                      VolumeTypes
  <2>4. HistoryTypes'
    BY <1>4, <2>1 DEF ConfirmFill, AddVolume, Types, TypeOK, HistoryTypes
  <2> QED
    BY <1>4, <2>2, <2>3, <2>4 DEF ConfirmFill, locals, Types, TypeOK
<1>5. CASE PersistVolume(t)
  <2>1. cur[t] \in Order
    BY <1>5 DEF PersistVolume, Types, CurOK
  <2>2. ControlTypes' /\ CurOK'
    BY <1>5, <2>1, GotoType DEF PersistVolume, locals
  <2>3. VolumeTypes'
    BY <1>5 DEF PersistVolume, PersistDailyVolume, Types, TypeOK, VolumeTypes
  <2> QED
    BY <1>5, <2>2, <2>3 DEF PersistVolume, locals, Types, TypeOK
<1>6. CASE GiveUpPolling(t)
  <2>1. cur[t] \in Order
    BY <1>6 DEF GiveUpPolling, Types, CurOK
  <2>2. ControlTypes' /\ CurOK'
    BY <1>6, <2>1, GotoType DEF GiveUpPolling, locals
  <2> QED
    BY <1>6, <2>2 DEF GiveUpPolling, locals, Types, TypeOK
<1>7. CASE SaveRecord(t)
  <2>1. cur[t] \in Order /\ OutcomeStatus(t) \in RowStatus
    BY <1>7 DEF SaveRecord, OutcomeStatus, RowStatus, Types, CurOK
  <2>2. RecordTypes'
    BY <1>7, <2>1, LookUpType DEF SaveRecord, Types, TypeOK, RecordTypes
  <2>3. ControlTypes' /\ CurOK'
    BY <1>7, <2>1, GotoType DEF SaveRecord
  <2> QED
    BY <1>7, <2>2, <2>3 DEF SaveRecord, Types, TypeOK
<1> QED
  BY <1>1, <1>2, <1>3, <1>4, <1>5, <1>6, <1>7 DEF TradeStep

LEMMA SyncStepTypes ==
  ASSUME Types, NEW t \in Threads, SyncStep(t)
  PROVE  Types'
<1> USE ThreadAssumption, OrderAssumption, Frame DEF Step, Working
<1>1. CASE BeginSync(t)
  <2>1. ControlTypes' /\ CurOK'
    BY <1>1, GotoType DEF BeginSync
  <2>2. ListTypes'
    BY <1>1, ListedType DEF BeginSync, Types, TypeOK, ListTypes
  <2> QED
    BY <1>1, <2>1, <2>2 DEF BeginSync, Types, TypeOK
<1>2. CASE SkipRow(t)
  <2>a. list[t] \in Seq(Row) /\ list[t] # <<>>
    BY <1>2 DEF SkipRow, Types, TypeOK, ListTypes
  <2>1. Tail(list[t]) \in Seq(Row)
    BY <2>a, HeadTailProperties
  <2>2. ListTypes'
    BY <1>2, <2>1 DEF SkipRow, Types, TypeOK, ListTypes
  <2> QED
    BY <1>2, <2>2 DEF SkipRow, Types, TypeOK
<1>3. CASE AskStatus(t)
  <2> DEFINE r == Head(list[t])
  <2>a. list[t] \in Seq(Row) /\ list[t] # <<>>
    BY <1>3 DEF AskStatus, Types, TypeOK, ListTypes
  <2>1. r \in Row /\ Tail(list[t]) \in Seq(Row)
    BY <2>a, HeadTailProperties
  <2>2. r.order \in Order
    BY <2>1 DEF Row
  <2>3. /\ cur' = [cur EXCEPT ![t] = r.order]
        /\ usd' = [usd EXCEPT ![t] = matched[r.order]]
        /\ put' = [put EXCEPT ![t] = [status |-> NewStatus(r.order),
                                      absent |-> FALSE]]
        /\ list' = [list EXCEPT ![t] = Tail(list[t])]
        /\ Goto(t, "refresh")
        /\ UNCHANGED <<day, volumes, rows, exchange, open, loaded, crashes,
                       history>>
    BY <1>3 DEF AskStatus
  <2> HIDE DEF r
  <2>4. NewStatus(r.order) \in RowStatus
    BY <2>2 DEF NewStatus, RowStatus, Types, TypeOK, ExchangeTypes
  <2>5. ListTypes' /\ RecordTypes'
    BY <2>1, <2>3, <2>4 DEF Types, TypeOK, ListTypes, RecordTypes
  <2>6. ControlTypes' /\ CurOK'
    BY <2>2, <2>3 DEF Goto, Types, TypeOK, ControlTypes, CurOK
  <2>7. ValueTypes'
    BY <2>2, <2>3 DEF Types, TypeOK, ValueTypes, ExchangeTypes
  <2> QED
    BY <2>3, <2>5, <2>6, <2>7 DEF Types, TypeOK
<1>7. CASE UpdateRow(t)
  <2>1. rows' \in Seq(Row)
    BY <1>7, UpdateRows DEF UpdateRow, Types, TypeOK, RecordTypes
  <2>2. put' \in [Threads -> [status : RowStatus, absent : BOOLEAN]]
    BY <1>7, NoPutType DEF UpdateRow, Types, TypeOK, RecordTypes
  <2>3. cur[t] \in Order
    BY <1>7 DEF UpdateRow, Types, CurOK
  <2>4. ControlTypes' /\ CurOK' /\ ValueTypes'
    BY <1>7, <2>3 DEF UpdateRow, Goto, Types, TypeOK, ControlTypes, CurOK,
                      ValueTypes
  <2> QED
    BY <1>7, <2>1, <2>2, <2>4 DEF UpdateRow, Types, TypeOK, RecordTypes
<1>4. CASE ListOpenOrders(t)
  <2>1. ControlTypes' /\ CurOK'
    BY <1>4, GotoType DEF ListOpenOrders
  <2>2. {o \in Order : venue[o] = "live"} \in SUBSET Order
    OBVIOUS
  <2>3. ListTypes'
    BY <1>4, <2>2 DEF ListOpenOrders, Types, TypeOK, ListTypes
  <2> QED
    BY <1>4, <2>1, <2>3 DEF ListOpenOrders, Types, TypeOK
<1>5. CASE EndSync(t)
  <2>1. ControlTypes' /\ CurOK'
    BY <1>5, GotoType DEF EndSync, locals
  <2> QED
    BY <1>5, <2>1 DEF EndSync, locals, Types, TypeOK
<1>6. ASSUME NEW o \in Order, ImportOrder(t, o)
      PROVE  Types'
  <2>1. "live" \in RowStatus
    BY DEF RowStatus, VenueState
  <2>2. RecordTypes'
    BY <1>6, <2>1, LookUpType DEF ImportOrder, Types, TypeOK, RecordTypes
  <2>3. ListTypes'
    BY <1>6 DEF ImportOrder, Types, TypeOK, ListTypes
  <2>4. ControlTypes' /\ CurOK'
    BY <1>6 DEF ImportOrder, Goto, Types, TypeOK, ControlTypes, CurOK
  <2> QED
    BY <1>6, <2>2, <2>3, <2>4 DEF ImportOrder, Types, TypeOK
<1> QED
  BY <1>1, <1>2, <1>3, <1>4, <1>5, <1>6, <1>7 DEF SyncStep

LEMMA WriteRecordTypes ==
  ASSUME Types, NEW t \in Threads, WriteRecord(t)
  PROVE  Types'
<1> USE ThreadAssumption, Frame DEF Step, Working
<1>1. cur[t] \in Order
  BY DEF WriteRecord, Types, CurOK
<1>2. rows' \in Seq(Row)
  BY <1>1, SavedRows DEF WriteRecord
<1>3. RecordTypes'
  BY <1>2, NoPutType DEF WriteRecord, Types, TypeOK, RecordTypes
<1>4. ControlTypes' /\ CurOK'
  BY DEF WriteRecord, Ready, Goto, Types, TypeOK, ControlTypes, CurOK
<1> QED
  BY <1>3, <1>4 DEF WriteRecord, Types, TypeOK

LEMMA CancelStepTypes == Types /\ CancelStep => Types'
<1> SUFFICES ASSUME Types, CancelStep
             PROVE  Types'
  OBVIOUS
<1> USE Frame DEF Step, Working
<1>1. ASSUME NEW i \in DOMAIN rows, CancelRequested(i)
      PROVE  Types'
  <2>0. rows[i].order \in Order
    BY RowAt DEF Types, TypeOK, RecordTypes
  <2>1. ControlTypes' /\ CurOK'
    BY <1>1, <2>0 DEF CancelRequested, Goto, Types, TypeOK, ControlTypes, CurOK
  <2> QED
    BY <1>1, <2>1 DEF CancelRequested, Types, TypeOK
<1>2. CASE CancelOnVenue
  <2>1. cur["cancel"] \in Order
    BY <1>2 DEF CancelOnVenue, Types, CurOK
  <2>2. ControlTypes' /\ CurOK'
    BY <1>2, <2>1, GotoType DEF CancelOnVenue, locals
  <2>3. ExchangeTypes'
    BY <1>2, <2>1 DEF CancelOnVenue, CancelOrder, VenueState, Types, TypeOK,
                      ExchangeTypes
  <2> QED
    BY <1>2, <2>2, <2>3 DEF CancelOnVenue, locals, Types, TypeOK
<1>4. CASE CancelFails
  <2>1. cur["cancel"] \in Order
    BY <1>4 DEF CancelFails, Types, CurOK
  <2>2. ControlTypes' /\ CurOK'
    BY <1>4 DEF CancelFails, Goto, Types, TypeOK, ControlTypes, CurOK
  <2>3. ExchangeTypes'
    BY <1>4, <2>1 DEF CancelFails, CancelOrder, VenueState, Types, TypeOK,
                      ExchangeTypes
  <2> QED
    BY <1>4, <2>2, <2>3 DEF CancelFails, Types, TypeOK
<1>3. CASE WriteCancelled
  <2>0. "cancelled" \in RowStatus
    BY DEF RowStatus, VenueState
  <2>1. RecordTypes'
    BY <1>3, <2>0, UpdateRows DEF WriteCancelled, Types, TypeOK, RecordTypes
  <2>2. ControlTypes' /\ CurOK'
    BY <1>3 DEF WriteCancelled, Goto, Types, TypeOK, ControlTypes, CurOK
  <2> QED
    BY <1>3, <2>1, <2>2 DEF WriteCancelled, Types, TypeOK
<1> QED
  BY <1>1, <1>2, <1>3, <1>4 DEF CancelStep

LEMMA EnvironmentTypes == Types /\ (VenueStep \/ Midnight \/ Crash) => Types'
<1> SUFFICES ASSUME Types, VenueStep \/ Midnight \/ Crash
             PROVE  Types'
  OBVIOUS
<1> USE OrderAssumption, BoundAssumption, Frame DEF Step, Working
<1>1. ASSUME NEW o \in Order, VenueFill(o)
      PROVE  Types'
  <2>1. ExchangeTypes'
    BY <1>1 DEF VenueFill, VenueState, Types, TypeOK, ExchangeTypes
  <2> QED
    BY <1>1, <2>1 DEF VenueFill, locals, Types, TypeOK
<1>2. ASSUME NEW o \in Order, VenueExpire(o)
      PROVE  Types'
  <2>1. ExchangeTypes'
    BY <1>2 DEF VenueExpire, VenueState, Types, TypeOK, ExchangeTypes
  <2> QED
    BY <1>2, <2>1 DEF VenueExpire, locals, Types, TypeOK
<1>3. CASE Midnight
  <2>1. day' \in Nat /\ HistoryTypes'
    BY <1>3 DEF Midnight, Types, TypeOK, HistoryTypes
  <2> QED
    BY <1>3, <2>1 DEF Midnight, locals, Types, TypeOK
<1>4. CASE Crash
  <2>1. crashes' \in Nat /\ VolumeTypes'
    BY <1>4 DEF Crash, Types, TypeOK, VolumeTypes
  <2>2. ControlTypes' /\ CurOK'
    BY <1>4 DEF Crash, ControlTypes, CurOK
  <2>3. ListTypes' /\ ValueTypes'
    BY <1>4 DEF Crash, ListTypes, ValueTypes, NoRiskRow
  <2>4. RecordTypes'
    BY <1>4, NoPutType DEF Crash, Types, TypeOK, RecordTypes
  <2> QED
    BY <1>4, <2>1, <2>2, <2>3, <2>4 DEF Crash, Types, TypeOK
<1> QED
  BY <1>1, <1>2, <1>3, <1>4 DEF VenueStep

LEMMA TypesNext == Types /\ [Next]_vars => Types'
<1> SUFFICES ASSUME Types, [Next]_vars
             PROVE  Types'
  OBVIOUS
<1>1. CASE UNCHANGED vars
  BY <1>1, Frame DEF vars, locals, Types, TypeOK
<1>2. CASE Next
  BY <1>2, CycleStepTypes, TradeStepTypes, SyncStepTypes, WriteRecordTypes,
     CancelStepTypes, EnvironmentTypes DEF Next
<1> QED
  BY <1>1, <1>2

(* Type correctness: in every reachable state the variables have their     *)
(* types, so volumes are never negative and no order is matched beyond its *)
(* size.                                                                   *)
THEOREM TypeCorrect == Spec => []TypeOK
<1>1. Spec => []Types
  BY TypesInit, TypesNext, PTL DEF Spec
<1> QED
  BY <1>1, PTL DEF Types

-----------------------------------------------------------------------------
(* The cycle alone: no manual sell runs beside it.                         *)

(* The order being polled fits under the cap on top of the volume so far.  *)
PolledFits ==
  ("cycle" \in Threads /\ pc["cycle"] = "poll")
    => dailyVolume + Size[cur["cycle"]] <= MaxDailyVolume

Budget == GateAgrees /\ BudgetHeld /\ PolledFits

(* A step of another thread, of the exchange or of the clock leaves the    *)
(* cycle's place and the volumes alone.                                    *)
CycleUntouched ==
  /\ UNCHANGED <<dailyVolume, gateVolume, riskRow, loaded, startVolume>>
  /\ "cycle" \in Threads => UNCHANGED <<pc["cycle"], cur["cycle"]>>

LEMMA OthersStep ==
  ASSUME Types, "sell" \notin Threads,
         \/ \E t \in Threads \ {"cycle"} :
              TradeStep(t) \/ SyncStep(t) \/ WriteRecord(t)
         \/ CancelStep
         \/ VenueStep
         \/ Midnight
  PROVE  CycleUntouched
<1> USE DEF CycleUntouched
<1>1. ASSUME NEW t \in Threads \ {"cycle"}, TradeStep(t)
      PROVE  CycleUntouched
  BY <1>1 DEF TradeStep, Trader, CanPlace, PlaceOrder, PlaceMatched,
    PlaceLost, ConfirmFill, PersistVolume, GiveUpPolling, SaveRecord
<1>2. ASSUME NEW t \in Threads \ {"cycle"}, SyncStep(t)
      PROVE  CycleUntouched
  <2> USE DEF Types, TypeOK, ControlTypes, Goto, locals, volumes, history
  <2>1. BeginSync(t) \/ SkipRow(t) => CycleUntouched
    BY DEF BeginSync, SkipRow
  <2>2. AskStatus(t) \/ UpdateRow(t) => CycleUntouched
    BY DEF AskStatus, UpdateRow
  <2>3. ListOpenOrders(t) \/ EndSync(t) => CycleUntouched
    BY DEF ListOpenOrders, EndSync
  <2>4. (\E o \in Order : ImportOrder(t, o)) => CycleUntouched
    BY DEF ImportOrder
  <2> QED
    BY <1>2, <2>1, <2>2, <2>3, <2>4 DEF SyncStep
<1>5. ASSUME NEW t \in Threads \ {"cycle"}, WriteRecord(t)
      PROVE  CycleUntouched
  BY <1>5 DEF WriteRecord, Types, TypeOK, ControlTypes, Goto, volumes, history
<1>3. CancelStep => CycleUntouched
  BY DEF CancelStep, CancelRequested, CancelOnVenue, CancelFails,
    WriteCancelled, Types, TypeOK, ControlTypes, Goto, locals, volumes, history
<1>4. VenueStep \/ Midnight => CycleUntouched
  BY DEF VenueStep, VenueFill, VenueExpire, Midnight, locals, volumes, history
<1> QED
  BY <1>1, <1>2, <1>3, <1>4, <1>5

LEMMA BudgetNext ==
  ASSUME "sell" \notin Threads
  PROVE  Types /\ Budget /\ [Next]_vars => Budget'
<1> SUFFICES ASSUME Types, Budget, [Next]_vars
             PROVE  Budget'
  OBVIOUS
<1> USE DEF Budget, GateAgrees, BudgetHeld, PolledFits, Executing
<1>1. ASSUME CycleUntouched
      PROVE  Budget'
  BY <1>1 DEF CycleUntouched
<1>2. CASE UNCHANGED vars
  BY <1>2, <1>1 DEF vars, volumes, locals, history, CycleUntouched
<1>3. CASE CycleStep
  <2> USE DEF Types, TypeOK, VolumeTypes, HistoryTypes, ControlTypes, Goto
  <2>1. CASE BeginCycle \/ SyncDailyVolume \/ SyncDailyVolumeFails
    BY <2>1 DEF BeginCycle, SyncDailyVolume, SyncDailyVolumeFails
  <2>2. CASE RefreshGate
    BY <2>2 DEF RefreshGate
  <2>3. CASE EngineAnswers \/ CycleFails \/ OnFill \/ PersistOnFill
    BY <2>3 DEF EngineAnswers, CycleFails, OnFill, PersistOnFill, volumes,
      history
  <2> QED
    BY <1>3, <2>1, <2>2, <2>3 DEF CycleStep
<1>4. CASE "cycle" \in Threads /\ TradeStep("cycle")
  <2> USE DEF Types, TypeOK, VolumeTypes, HistoryTypes, ControlTypes, Goto,
              volumes, history, locals
  <2>1. ASSUME NEW o \in Order,
               PlaceOrder("cycle", o) \/ PlaceMatched("cycle", o)
                 \/ PlaceLost("cycle", o)
        PROVE  Budget'
    BY <1>4, <2>1 DEF PlaceOrder, PlaceMatched, PlaceLost, CanPlace, Ready,
      CheckDailyVolume
  <2>2. CASE ConfirmFill("cycle")
    <3>1. /\ matched[cur["cycle"]] \in Nat
          /\ matched[cur["cycle"]] <= Size[cur["cycle"]]
          /\ Size[cur["cycle"]] \in Nat
      BY <1>4, <2>2, OrderAssumption
        DEF ConfirmFill, CurOK, Working, ExchangeTypes
    <3> QED
      BY <1>4, <2>2, <3>1, BoundAssumption DEF ConfirmFill, RecordFill, AddVolume, Raced
  <2>3. CASE PersistVolume("cycle") \/ GiveUpPolling("cycle")
               \/ SaveRecord("cycle")
    BY <1>4, <2>3 DEF PersistVolume, GiveUpPolling, SaveRecord
  <2> QED
    BY <1>4, <2>1, <2>2, <2>3 DEF TradeStep
<1>5. CASE "cycle" \in Threads /\ SyncStep("cycle")
  <2> USE DEF Types, TypeOK, ControlTypes, Goto, volumes, history, locals
  <2>1. BeginSync("cycle") \/ SkipRow("cycle") => Budget'
    BY <1>5 DEF BeginSync, SkipRow
  <2>2. AskStatus("cycle") \/ UpdateRow("cycle") => Budget'
    BY <1>5 DEF AskStatus, UpdateRow
  <2>3. ListOpenOrders("cycle") \/ EndSync("cycle") => Budget'
    BY <1>5 DEF ListOpenOrders, EndSync
  <2>4. (\E o \in Order : ImportOrder("cycle", o)) => Budget'
    BY <1>5 DEF ImportOrder
  <2> QED
    BY <1>5, <2>1, <2>2, <2>3, <2>4 DEF SyncStep
<1>6. CASE Crash
  BY <1>6 DEF Crash
<1>7. CASE "cycle" \in Threads /\ WriteRecord("cycle")
  BY <1>7 DEF WriteRecord, Ready, Types, TypeOK, ControlTypes, Goto, volumes,
    history
<1> QED
  BY <1>1, <1>2, <1>3, <1>4, <1>5, <1>6, <1>7, OthersStep DEF Next

(* Without a manual sell beside it, the cycle decides on the volume the    *)
(* trader holds, for any orders, sizes, cap and environment.               *)
THEOREM GateAgreesAlways ==
  ASSUME "sell" \notin Threads
  PROVE  Spec => []GateAgrees
<1>1. Init => Budget
  BY DEF Init, Budget, GateAgrees, BudgetHeld, PolledFits, Executing
<1>2. Spec => []Budget
  BY <1>1, TypesInit, TypesNext, BudgetNext, PTL DEF Spec
<1> QED
  BY <1>2, PTL DEF Budget

(* Without a manual sell beside it, no fill confirmed by the cycle takes   *)
(* the trader's volume over its cap.                                       *)
THEOREM BudgetHeldAlways ==
  ASSUME "sell" \notin Threads
  PROVE  Spec => []BudgetHeld
<1>1. Init => Budget
  BY DEF Init, Budget, GateAgrees, BudgetHeld, PolledFits, Executing
<1>2. Spec => []Budget
  BY <1>1, TypesInit, TypesNext, BudgetNext, PTL DEF Spec
<1> QED
  BY <1>2, PTL DEF Budget

-----------------------------------------------------------------------------
(* The persisted volume.                                                   *)

(* The steps of a cycle after it took its volume from the store.           *)
Synced ==
  {"context", "engine", "exec", "poll", "persist", "save_filled",
   "save_posted", "write_record", "rows", "refresh", "onfill", "onpersist",
   "import", "write_import"}

(* The row is never of a later day; what the cycle loaded is still the     *)
(* row; and from then on the cycle holds at least what the row holds.      *)
CoversRow ==
  /\ riskRow.day <= day
  /\ "cycle" \in Threads =>
       /\ pc["cycle"] = "load" => loaded = riskRow
       /\ pc["cycle"] \in Synced => dailyVolume >= StoredToday

(* The row of today does not lose volume.                                  *)
NoLoss == day' = day => StoredToday' >= StoredToday

LEMMA CoversRowNext ==
  ASSUME "sell" \notin Threads, "store_error" \notin Env
  PROVE  Types /\ CoversRow /\ [Next]_vars => CoversRow' /\ NoLoss
<1> SUFFICES ASSUME Types, CoversRow, [Next]_vars
             PROVE  CoversRow' /\ NoLoss
  OBVIOUS
<1> USE DEF CoversRow, NoLoss, StoredToday
<1>0. day \in Nat /\ riskRow.day \in Int /\ riskRow.volume \in Nat
      /\ dailyVolume \in Nat
  BY DEF Types, TypeOK, VolumeTypes
<1>1. ASSUME CycleUntouched, UNCHANGED day
      PROVE  CoversRow' /\ NoLoss
  BY <1>0, <1>1 DEF CycleUntouched
<1>2. CASE UNCHANGED vars
  BY <1>1, <1>2 DEF vars, volumes, locals, history, CycleUntouched
<1>3. CASE Midnight
  BY <1>0, <1>3, OthersStep DEF Midnight, CycleUntouched, volumes
<1>4. CASE \/ \E t \in Threads \ {"cycle"} :
                TradeStep(t) \/ SyncStep(t) \/ WriteRecord(t)
           \/ CancelStep
           \/ VenueStep
  <2>1. UNCHANGED day
    BY <1>4 DEF TradeStep, PlaceOrder, PlaceMatched, PlaceLost, ConfirmFill,
      PersistVolume, GiveUpPolling, SaveRecord, SyncStep, BeginSync, SkipRow,
      AskStatus, UpdateRow, ListOpenOrders, EndSync, ImportOrder, WriteRecord,
      CancelStep, CancelRequested, CancelOnVenue, CancelFails, WriteCancelled, VenueStep, VenueFill,
      VenueExpire
  <2> QED
    BY <1>1, <1>4, <2>1, OthersStep
<1>5. CASE CycleStep
  <2> USE DEF Types, TypeOK, ControlTypes, Goto, Synced
  <2>1. CASE BeginCycle
    BY <1>0, <2>1 DEF BeginCycle, volumes
  <2>2. CASE SyncDailyVolume
    BY <1>0, <2>2 DEF SyncDailyVolume, SyncedVolume
  <2>3. CASE SyncDailyVolumeFails
    BY <2>3 DEF SyncDailyVolumeFails
  <2>4. CASE RefreshGate
    BY <1>0, <2>4 DEF RefreshGate
  <2>5. CASE EngineAnswers \/ CycleFails
    BY <1>0, <2>5 DEF EngineAnswers, CycleFails, volumes
  <2>6. CASE OnFill
    <3>1. usd["cycle"] \in Nat
      BY <2>6 DEF OnFill, ValueTypes
    <3> QED
      BY <1>0, <2>6, <3>1 DEF OnFill, AddVolume
  <2>7. CASE PersistOnFill
    BY <1>0, <2>7 DEF PersistOnFill, PersistDailyVolume
  <2> QED
    BY <1>5, <2>1, <2>2, <2>3, <2>4, <2>5, <2>6, <2>7 DEF CycleStep
<1>6. CASE "cycle" \in Threads /\ TradeStep("cycle")
  <2> USE DEF Types, TypeOK, ControlTypes, Goto, Synced, locals
  <2>1. ASSUME NEW o \in Order,
               PlaceOrder("cycle", o) \/ PlaceMatched("cycle", o)
                 \/ PlaceLost("cycle", o)
        PROVE  CoversRow' /\ NoLoss
    BY <1>0, <1>6, <2>1 DEF PlaceOrder, PlaceMatched, PlaceLost, CanPlace,
      Ready, volumes
  <2>2. CASE ConfirmFill("cycle")
    <3>1. matched[cur["cycle"]] \in Nat
      BY <1>6, <2>2 DEF ConfirmFill, CurOK, Working, ExchangeTypes
    <3> QED
      BY <1>0, <1>6, <2>2, <3>1 DEF ConfirmFill, AddVolume
  <2>3. CASE PersistVolume("cycle")
    BY <1>0, <1>6, <2>3 DEF PersistVolume, PersistDailyVolume
  <2>4. CASE GiveUpPolling("cycle") \/ SaveRecord("cycle")
    BY <1>0, <1>6, <2>4 DEF GiveUpPolling, SaveRecord, volumes
  <2> QED
    BY <1>6, <2>1, <2>2, <2>3, <2>4 DEF TradeStep
<1>7. CASE "cycle" \in Threads /\ SyncStep("cycle")
  <2> USE DEF Types, TypeOK, ControlTypes, Goto, Synced, locals, volumes
  <2>1. BeginSync("cycle") \/ SkipRow("cycle") => CoversRow' /\ NoLoss
    BY <1>0, <1>7 DEF BeginSync, SkipRow
  <2>2. AskStatus("cycle") \/ UpdateRow("cycle") => CoversRow' /\ NoLoss
    BY <1>0, <1>7 DEF AskStatus, UpdateRow
  <2>3. ListOpenOrders("cycle") \/ EndSync("cycle") => CoversRow' /\ NoLoss
    BY <1>0, <1>7 DEF ListOpenOrders, EndSync
  <2>4. (\E o \in Order : ImportOrder("cycle", o)) => CoversRow' /\ NoLoss
    BY <1>0, <1>7 DEF ImportOrder
  <2> QED
    BY <1>7, <2>1, <2>2, <2>3, <2>4 DEF SyncStep
<1>8. CASE Crash
  BY <1>0, <1>8 DEF Crash, Synced
<1>9. CASE "cycle" \in Threads /\ WriteRecord("cycle")
  BY <1>0, <1>9 DEF WriteRecord, Ready, Types, TypeOK, ControlTypes, Goto,
    Synced, volumes
<1> QED
  BY <1>2, <1>3, <1>4, <1>5, <1>6, <1>7, <1>8, <1>9 DEF Next

(* While the database answers and no manual sell runs beside the cycle,    *)
(* the volume persisted for a day never shrinks: not when a cycle writes   *)
(* it, not across a crash and a restart.                                   *)
THEOREM StoredVolumeKept ==
  ASSUME "sell" \notin Threads, "store_error" \notin Env
  PROVE  Spec => StoredNeverShrinks
<1>1. Init => CoversRow
  BY DEF Init, CoversRow, NoRiskRow, Synced
<1>2. Types /\ CoversRow /\ [Next]_vars
        => CoversRow' /\ [NoLoss]_<<riskRow, day>>
  BY CoversRowNext
<1>3. Spec => [][NoLoss]_<<riskRow, day>>
  BY <1>1, <1>2, TypesInit, TypesNext, PTL DEF Spec
<1> QED
  BY <1>3 DEF NoLoss, StoredNeverShrinks
-----------------------------------------------------------------------------
(* Fills are counted once: without a manual sell and the sync endpoint,    *)
(* and when an order fills in one piece. Only the cycle counts, so what it *)
(* has in hand and what it has listed must not have been counted before,   *)
(* and the rows of a counted order must be ones the next sync skips.       *)

(* An order is matched whole or not at all.                                *)
MatchedWhole ==
  \A o \in Order : matched[o] = IF venue[o] = "matched" THEN Size[o] ELSE 0

(* Rows are of orders the exchange has seen, and an order has one.         *)
OneRowEach ==
  /\ \A i \in DOMAIN rows : venue[rows[i].order] # "none"
  /\ \A i, j \in DOMAIN rows : rows[i].order = rows[j].order => i = j

(* The steps at which the cycle holds an order: before it has a row, with  *)
(* an answer not yet written, and about to count.                          *)
Trading == {"poll", "persist", "save_filled", "save_posted", "write_record"}
Writing == {"write_record", "write_import"}
Refreshing == {"refresh", "onfill"}
Uncounted == {"poll", "save_posted", "write_import", "refresh", "onfill"}

(* The order the cycle works on: not counted when it is about to be,       *)
(* without a row until its outcome is saved, and no longer listed when it  *)
(* is refreshed.                                                           *)
InHand ==
  "cycle" \in Threads =>
    LET c == "cycle"
        o == cur[c]
    IN
    /\ pc[c] \in Trading \union Writing \union Refreshing => venue[o] # "none"
    /\ pc[c] \in Uncounted => counted[o] = 0
    /\ pc[c] \in Trading => RowsOf(o) = {}
    /\ pc[c] \in Writing => (put[c].absent <=> RowsOf(o) = {})
    /\ pc[c] = "write_record" => put[c].status = "filled" \/ counted[o] = 0
    /\ pc[c] \in Refreshing =>
         \A i \in DOMAIN list[c] : list[c][i].order # o
    /\ pc[c] = "onfill" \/ (pc[c] = "refresh" /\ put[c].status = "filled") =>
         usd[c] = matched[o] /\ venue[o] = "matched"
    /\ pc[c] = "onfill" => Settled(o)

(* The rows the cycle's sync has still to refresh.                         *)
InSync ==
  "cycle" \in Threads =>
    LET listed == list["cycle"] IN
    /\ pc["cycle"] \notin {"rows", "refresh", "onfill", "onpersist"} =>
         listed = <<>>
    /\ \A i \in DOMAIN listed :
         /\ venue[listed[i].order] # "none"
         /\ listed[i].status \notin Terminal => counted[listed[i].order] = 0
    /\ \A i, j \in DOMAIN listed : listed[i].order = listed[j].order => i = j

(* The open orders it has still to import.                                 *)
InImport ==
  "cycle" \in Threads =>
    /\ pc["cycle"] \notin {"import", "write_import"} => open["cycle"] = {}
    /\ \A o \in open["cycle"] : counted[o] = 0 /\ venue[o] # "none"

(* A counted order is counted in full, and every sync skips its rows.      *)
CountedSettled ==
  \A o \in Order : \/ counted[o] = 0
                   \/ /\ counted[o] = matched[o] /\ venue[o] = "matched"
                      /\ Settled(o)

Once ==
  /\ MatchedWhole /\ OneRowEach /\ InHand /\ InSync /\ InImport
  /\ CountedSettled

LEMMA OnceInit == Init => Once
<1> SUFFICES ASSUME Init
             PROVE  Once
  OBVIOUS
<1> USE DEF Init
<1>1. MatchedWhole /\ OneRowEach
  BY DEF MatchedWhole, OneRowEach
<1>2. InHand /\ InSync /\ InImport
  BY DEF InHand, InSync, InImport, Trading, Writing, Refreshing, Uncounted
<1>3. CountedSettled
  BY DEF CountedSettled
<1> QED
  BY <1>1, <1>2, <1>3 DEF Once

(* A step in which the cycle only moves on, to where nothing more is asked *)
(* of what it has in hand.                                                 *)
LEMMA OnceQuiet ==
  ASSUME Types, Once, UNCHANGED <<rows, exchange, counted>>,
         UNCHANGED <<usd, list, put, open>>,
         "cycle" \in Threads =>
           /\ UNCHANGED cur["cycle"]
           /\ \/ pc'["cycle"] = pc["cycle"]
              \/ <<pc["cycle"], pc'["cycle"]>> \in
                   {<<"idle", "load">>, <<"load", "context">>,
                    <<"context", "engine">>, <<"context", "idle">>,
                    <<"engine", "exec">>, <<"engine", "idle">>,
                    <<"onpersist", "rows">>, <<"persist", "save_filled">>,
                    <<"poll", "save_posted">>, <<"import", "idle">>},
         "cycle" \in Threads /\ pc["cycle"] = "import" /\ pc'["cycle"] = "idle"
           => open["cycle"] = {}
  PROVE  Once'
<1> USE DEF exchange
<1>1. MatchedWhole' /\ OneRowEach'
  BY DEF Once, MatchedWhole, OneRowEach
<1>2. CountedSettled'
  BY DEF Once, CountedSettled, Settled, RowsOf
<1>3. InHand'
  <2>1. \A o : RowsOf(o)' = RowsOf(o) /\ (Settled(o)' <=> Settled(o))
    BY DEF RowsOf, Settled
  <2> QED
    BY <2>1 DEF Once, InHand, Trading, Writing, Refreshing, Uncounted
<1>4. InSync' /\ InImport'
  BY DEF Once, InSync, InImport
<1> QED
  BY <1>1, <1>2, <1>3, <1>4 DEF Once

(* What becomes of the rows when UpdateOrderStatus writes over an order's. *)
RowsKept(o, s) ==
  /\ \A p : (RowsOf(p) = {}) <=> (RowsOf(p)' = {})
  /\ \A p : Settled(p) /\ (p = o => s \in Terminal) => Settled(p)'

LEMMA OnceUpdated ==
  ASSUME Types, Once, NEW o \in Order, NEW s \in RowStatus,
         UpdateOrderStatus(o, s), UNCHANGED <<exchange, counted>>,
         s \in Terminal \/ counted[o] = 0
  PROVE  OneRowEach' /\ CountedSettled' /\ MatchedWhole' /\ RowsKept(o, s)
<1>1. /\ DOMAIN rows' = DOMAIN rows
      /\ \A i \in DOMAIN rows :
           /\ rows'[i].order = rows[i].order
           /\ rows'[i].status = IF rows[i].order = o THEN s ELSE rows[i].status
  BY UpdateRows
<1>2. \A p : RowsOf(p)' = RowsOf(p)
  BY <1>1 DEF RowsOf
<1>3. ASSUME NEW p, Settled(p), p = o => s \in Terminal
      PROVE  Settled(p)'
  BY <1>1, <1>2, <1>3 DEF Settled, RowsOf
<1>4. RowsKept(o, s)
  BY <1>2, <1>3 DEF RowsKept
<1>5. OneRowEach' /\ MatchedWhole'
  BY <1>1 DEF Once, OneRowEach, MatchedWhole, exchange
<1>6. CountedSettled'
  BY <1>3 DEF Once, CountedSettled, exchange
<1> QED
  BY <1>4, <1>5, <1>6

(* Saving a record keeps one row an order, and leaves the other orders'    *)
(* rows alone.                                                             *)
LEMMA OnceSaved ==
  ASSUME Types, Once, NEW t \in Threads, Save(t), cur[t] \in Order,
         venue[cur[t]] # "none", put[t].absent <=> RowsOf(cur[t]) = {},
         put[t].status \in Terminal \/ counted[cur[t]] = 0,
         UNCHANGED <<exchange, counted>>
  PROVE  OneRowEach' /\ CountedSettled' /\ MatchedWhole'
<1> DEFINE o == cur[t]
           s == put[t].status
           n == Len(rows) + 1
<1>0. /\ put[t].absent =>
           /\ DOMAIN rows' = DOMAIN rows \union {n}
           /\ n \notin DOMAIN rows
           /\ \A i \in DOMAIN rows : rows'[i] = rows[i]
           /\ rows'[n].order = o /\ rows'[n].status = s
      /\ ~put[t].absent =>
           /\ DOMAIN rows' = DOMAIN rows
           /\ \A i \in DOMAIN rows :
                /\ rows'[i].order = rows[i].order
                /\ \/ rows'[i].status = rows[i].status
                   \/ rows[i].order = o /\ rows'[i].status = s
  BY SavedRows
<1>a. /\ o \in Order /\ venue[o] # "none"
      /\ put[t].absent <=> RowsOf(o) = {}
      /\ s \in Terminal \/ counted[o] = 0
  OBVIOUS
<1> HIDE DEF o, s, n
<1>1. MatchedWhole'
  BY DEF Once, MatchedWhole, exchange
<1>2. OneRowEach'
  <2>1. CASE put[t].absent
    <3>1. \A i \in DOMAIN rows : rows[i].order # o
      BY <1>a, <2>1 DEF RowsOf
    <3>2. \A i \in DOMAIN rows' : venue'[rows'[i].order] # "none"
      BY <1>0, <1>a, <2>1 DEF Once, OneRowEach, exchange
    <3>3. \A i, j \in DOMAIN rows' : rows'[i].order = rows'[j].order => i = j
      BY <1>0, <2>1, <3>1 DEF Once, OneRowEach
    <3> QED
      BY <3>2, <3>3 DEF OneRowEach
  <2>2. CASE ~put[t].absent
    BY <1>0, <2>2 DEF Once, OneRowEach, exchange
  <2> QED
    BY <2>1, <2>2
<1>3. CountedSettled'
  <2> SUFFICES ASSUME NEW p \in Order, counted[p] # 0
               PROVE  Settled(p)'
    BY DEF Once, CountedSettled, exchange
  <2>1. Settled(p)
    BY DEF Once, CountedSettled
  <2>2. ASSUME NEW i \in DOMAIN rows', rows'[i].order = p
        PROVE  rows'[i].status \in Terminal
    <3>1. p = o => s \in Terminal
      BY <1>a
    <3>2. CASE put[t].absent /\ i = n
      BY <1>0, <2>2, <3>1, <3>2
    <3>3. CASE put[t].absent /\ i # n
      <4>1. i \in DOMAIN rows /\ rows'[i] = rows[i]
        BY <1>0, <3>3
      <4> QED
        BY <2>1, <2>2, <4>1 DEF Settled, RowsOf
    <3>4. CASE ~put[t].absent
      BY <1>0, <2>1, <2>2, <3>1, <3>4 DEF Settled, RowsOf
    <3> QED
      BY <3>2, <3>3, <3>4
  <2> QED
    BY <2>2 DEF Settled, RowsOf
<1> QED
  BY <1>1, <1>2, <1>3

LEMMA OnceTrade ==
  ASSUME Types, Once, "cycle" \in Threads, TradeStep("cycle")
  PROVE  Once'
<1> DEFINE c == "cycle"
<1> USE DEF Types, TypeOK, ControlTypes, ExchangeTypes, ListTypes,
            ValueTypes, HistoryTypes, Goto
<1>1. ASSUME NEW o \in Order,
             PlaceOrder(c, o) \/ PlaceMatched(c, o) \/ PlaceLost(c, o)
      PROVE  Once'
  <2>1. /\ venue[o] = "none" /\ RowsOf(o) = {} /\ counted[o] = 0
        /\ pc[c] = "exec" /\ list[c] = <<>> /\ open[c] = {}
        /\ matched[o] = 0
    BY <1>1 DEF PlaceOrder, PlaceMatched, PlaceLost, CanPlace, Ready, Once,
      MatchedWhole, OneRowEach, InSync, InImport, CountedSettled, RowsOf
  <2>2. /\ UNCHANGED <<rows, counted, usd, list, put, open>>
        /\ \E s \in {"live", "matched"} :
             /\ venue' = [venue EXCEPT ![o] = s]
             /\ matched' = [matched EXCEPT ![o] = IF s = "matched" THEN Size[o] ELSE @]
        /\ \/ pc'[c] \in {"poll", "save_filled"} /\ cur'[c] = o
           \/ pc'[c] = "exec"
    BY <1>1, <2>1 DEF PlaceOrder, PlaceMatched, PlaceLost, history, locals
  <2>3. \A p : RowsOf(p)' = RowsOf(p) /\ (Settled(p)' <=> Settled(p))
    BY <2>2 DEF RowsOf, Settled
  <2>4. MatchedWhole' /\ CountedSettled'
    BY <2>1, <2>2, <2>3 DEF Once, MatchedWhole, CountedSettled
  <2>5. OneRowEach'
    <3>1. \A i \in DOMAIN rows : rows[i].order # o
      BY <2>1 DEF RowsOf
    <3> QED
      BY <2>2, <3>1 DEF Once, OneRowEach
  <2>6. InHand'
    BY <2>1, <2>2, <2>3 DEF InHand, Trading, Writing, Refreshing, Uncounted
  <2>7. InSync' /\ InImport'
    BY <2>1, <2>2 DEF Once, InSync, InImport
  <2> QED
    BY <2>4, <2>5, <2>6, <2>7 DEF Once
<1>2. CASE ConfirmFill(c)
  <2> DEFINE o == cur[c]
  <2>1. /\ o \in Order /\ pc[c] = "poll" /\ matched[o] > 0
        /\ counted[o] = 0 /\ RowsOf(o) = {} /\ list[c] = <<>> /\ open[c] = {}
    BY <1>2 DEF ConfirmFill, CurOK, Working, Once, InHand, InSync, InImport,
      Trading, Uncounted
  <2>2. venue[o] = "matched"
    BY <2>1 DEF Once, MatchedWhole
  <2>3. /\ UNCHANGED <<rows, exchange, cur, usd, list, put, open>>
        /\ pc'[c] = "persist"
    BY <1>2, <2>1 DEF ConfirmFill, locals
  <2>c. counted' = [counted EXCEPT ![o] = matched[o]]
    <3>1. counted' = [counted EXCEPT ![o] = @ + matched[o]]
      BY <1>2 DEF ConfirmFill, AddVolume
    <3>2. counted[o] + matched[o] = matched[o]
      BY <2>1
    <3> QED
      BY <3>1, <3>2
  <2>d. \A p : RowsOf(p)' = RowsOf(p) /\ (Settled(p)' <=> Settled(p))
    BY <2>3 DEF RowsOf, Settled
  <2>e. Settled(o)
    BY <2>1 DEF Settled
  <2>4. MatchedWhole' /\ OneRowEach'
    BY <2>3 DEF Once, MatchedWhole, OneRowEach, exchange
  <2>5. CountedSettled'
    BY <2>1, <2>2, <2>3, <2>c, <2>d, <2>e DEF Once, CountedSettled, exchange
  <2>6. InHand'
    BY <2>1, <2>2, <2>3, <2>d DEF InHand, Trading, Writing, Refreshing,
      Uncounted, exchange
  <2>7. InSync' /\ InImport'
    BY <2>1, <2>3 DEF Once, InSync, InImport, exchange
  <2> QED
    BY <2>4, <2>5, <2>6, <2>7 DEF Once
<1>3. CASE PersistVolume(c)
  BY <1>3, OnceQuiet DEF PersistVolume, locals, history
<1>4. CASE GiveUpPolling(c)
  BY <1>4, OnceQuiet DEF GiveUpPolling, locals, history
<1>5. CASE SaveRecord(c)
  <2> DEFINE o == cur[c]
             s == OutcomeStatus(c)
  <2>1. /\ o \in Order /\ pc[c] \in {"save_filled", "save_posted"}
        /\ venue[o] # "none" /\ list[c] = <<>> /\ open[c] = {}
        /\ RowsOf(o) = {}
        /\ pc[c] = "save_posted" => counted[o] = 0
    BY <1>5 DEF SaveRecord, CurOK, Working, Once, InHand, InSync, InImport,
      Trading, Uncounted
  <2>2. /\ UNCHANGED <<rows, exchange, cur, usd, list, open, counted>>
        /\ pc'[c] = "write_record"
        /\ s = "filled" \/ counted[o] = 0
    BY <1>5, <2>1 DEF SaveRecord, OutcomeStatus, history
  <2>3. put'[c].absent /\ put'[c].status = s
    BY <1>5, <2>1, LookedUp DEF SaveRecord
  <2>4. \A p : RowsOf(p)' = RowsOf(p) /\ (Settled(p)' <=> Settled(p))
    BY <2>2 DEF RowsOf, Settled
  <2>5. MatchedWhole' /\ OneRowEach' /\ CountedSettled'
    BY <2>2, <2>4 DEF Once, MatchedWhole, OneRowEach, CountedSettled, exchange
  <2>6. InHand'
    BY <2>1, <2>2, <2>3, <2>4 DEF InHand, Trading, Writing, Refreshing,
      Uncounted, exchange
  <2>7. InSync' /\ InImport'
    BY <2>1, <2>2 DEF Once, InSync, InImport, exchange
  <2> QED
    BY <2>5, <2>6, <2>7 DEF Once
<1> QED
  BY <1>1, <1>2, <1>3, <1>4, <1>5 DEF TradeStep

LEMMA OnceWrite ==
  ASSUME Types, Once, "cycle" \in Threads, WriteRecord("cycle")
  PROVE  Once'
<1> DEFINE c == "cycle"
<1> USE DEF Types, TypeOK, ControlTypes, Goto
<1>1. /\ pc[c] \in Writing /\ cur[c] \in Order /\ Save(c)
      /\ venue[cur[c]] # "none"
      /\ put[c].absent <=> RowsOf(cur[c]) = {}
      /\ put[c].status \in Terminal \/ counted[cur[c]] = 0
  BY DEF WriteRecord, Writing, Uncounted, CurOK, Working, Once, InHand,
    Terminal
<1>2. /\ UNCHANGED <<exchange, usd, list, open, counted>>
      /\ pc[c] = "write_import" => pc'[c] = "import"
      /\ pc[c] = "write_record" => pc'[c] = "exec"
  BY DEF WriteRecord, Ready, history
<1>3. OneRowEach' /\ CountedSettled' /\ MatchedWhole'
  BY <1>1, <1>2, OnceSaved
<1>4. InHand'
  BY <1>1, <1>2 DEF InHand, Trading, Writing, Refreshing, Uncounted
<1>5. InSync' /\ InImport'
  BY <1>1, <1>2 DEF Once, InSync, InImport, Writing, exchange
<1> QED
  BY <1>3, <1>4, <1>5 DEF Once

LEMMA OnceListed ==
  ASSUME Types, Once
  PROVE  /\ \A i \in DOMAIN Listed :
              /\ venue[Listed[i].order] # "none"
              /\ Listed[i].status \notin Terminal
                   => counted[Listed[i].order] = 0
         /\ \A i, j \in DOMAIN Listed :
              Listed[i].order = Listed[j].order => i = j
<1> DEFINE n == IF Len(rows) < ListLimit THEN Len(rows) ELSE ListLimit
           At(i) == Len(rows) + 1 - i
<1>0. rows \in Seq(Row)
  BY DEF Types, TypeOK, RecordTypes
<1>1. n \in Nat /\ n <= Len(rows)
  BY <1>0, BoundAssumption
<1>2. DOMAIN Listed = 1..n
  BY DEF Listed
<1>3. \A i \in 1..n : Listed[i] = rows[At(i)] /\ At(i) \in DOMAIN rows
  BY <1>0, <1>1 DEF Listed
<1>4. \A i, j \in 1..n : At(i) = At(j) => i = j
  BY <1>0, <1>1
<1> HIDE DEF n, At
<1>5. ASSUME NEW k \in DOMAIN rows
      PROVE  /\ venue[rows[k].order] # "none"
             /\ rows[k].status \notin Terminal => counted[rows[k].order] = 0
  <2>1. rows[k].order \in Order
    BY <1>0, RowAt
  <2> QED
    BY <2>1 DEF Once, OneRowEach, CountedSettled, Settled, RowsOf
<1>6. \A i, j \in 1..n : Listed[i].order = Listed[j].order => i = j
  BY <1>3, <1>4 DEF Once, OneRowEach
<1> QED
  BY <1>2, <1>3, <1>5, <1>6

(* What is left of a list is the list, one place on.                       *)
LEMMA TailShifts ==
  ASSUME NEW S, NEW s \in Seq(S), s # <<>>
  PROVE  /\ Head(s) \in S
         /\ Head(s) = s[1] /\ 1 \in DOMAIN s
         /\ Tail(s) \in Seq(S)
         /\ \A i \in DOMAIN Tail(s) : /\ i + 1 \in DOMAIN s /\ i + 1 # 1
                                      /\ Tail(s)[i] = s[i + 1]
         /\ \A i, j \in DOMAIN Tail(s) : i + 1 = j + 1 => i = j
<1>1. /\ Len(s) \in Nat \ {0} /\ DOMAIN s = 1..Len(s)
      /\ Head(s) = s[1] /\ Head(s) \in S
      /\ Tail(s) \in Seq(S) /\ Len(Tail(s)) = Len(s) - 1
      /\ \A i \in 1..Len(Tail(s)) : Tail(s)[i] = s[i + 1]
  BY HeadTailProperties
<1>2. DOMAIN Tail(s) = 1..Len(Tail(s))
  BY <1>1
<1> QED
  BY <1>1, <1>2

(* What a thread has listed are orders.                                    *)
LEMMA ListOrders ==
  ASSUME Types, NEW t \in Threads
  PROVE  /\ \A i \in DOMAIN list[t] : list[t][i].order \in Order
         /\ open[t] \subseteq Order
<1>1. list[t] \in Seq(Row) /\ open[t] \subseteq Order
  BY DEF Types, TypeOK, ListTypes
<1> QED
  BY <1>1, RowAt

(* The cycle's sync drops the first row of its list.                       *)
LEMMA OnceDropped ==
  ASSUME Types, Once, "cycle" \in Threads, list["cycle"] # <<>>,
         UNCHANGED <<exchange, counted>>, pc["cycle"] = "rows",
         list'["cycle"] = Tail(list["cycle"]),
         pc'["cycle"] \in {"rows", "refresh"}
  PROVE  /\ Head(list["cycle"]).order \in Order
         /\ venue[Head(list["cycle"]).order] # "none"
         /\ Head(list["cycle"]).status \notin Terminal =>
              counted[Head(list["cycle"]).order] = 0
         /\ \A i \in DOMAIN list'["cycle"] :
              list'["cycle"][i].order # Head(list["cycle"]).order
         /\ InSync'
<1> DEFINE l == list["cycle"]
<1>0. l \in Seq(Row) /\ l # <<>> /\ list'["cycle"] = Tail(l)
  BY DEF Types, TypeOK, ListTypes
<1>a. /\ \A i \in DOMAIN l :
           /\ venue[l[i].order] # "none"
           /\ l[i].status \notin Terminal => counted[l[i].order] = 0
      /\ \A i, j \in DOMAIN l : l[i].order = l[j].order => i = j
  BY DEF Once, InSync
<1> HIDE DEF l
<1>1. /\ Head(l) = l[1] /\ 1 \in DOMAIN l
      /\ \A i \in DOMAIN Tail(l) : /\ i + 1 \in DOMAIN l /\ i + 1 # 1
                                   /\ Tail(l)[i] = l[i + 1]
      /\ \A i, j \in DOMAIN Tail(l) : i + 1 = j + 1 => i = j
  BY <1>0, TailShifts
<1>2. l[1].order \in Order
  BY <1>0, <1>1, RowAt
<1>3. \A i \in DOMAIN Tail(l) :
        /\ venue[Tail(l)[i].order] # "none"
        /\ Tail(l)[i].status \notin Terminal => counted[Tail(l)[i].order] = 0
        /\ Tail(l)[i].order # l[1].order
  BY <1>a, <1>1
<1>4. \A i, j \in DOMAIN Tail(l) : Tail(l)[i].order = Tail(l)[j].order => i = j
  BY <1>a, <1>1
<1>5. InSync'
  BY <1>0, <1>3, <1>4 DEF InSync, exchange
<1> QED
  BY <1>0, <1>1, <1>2, <1>3, <1>5, <1>a DEF l

LEMMA OnceSync ==
  ASSUME Types, Once, "cycle" \in Threads, SyncStep("cycle")
  PROVE  Once'
<1> DEFINE c == "cycle"
<1> USE DEF Types, TypeOK, ControlTypes, ExchangeTypes, ListTypes,
            ValueTypes, HistoryTypes, Goto
<1>0. ASSUME UNCHANGED <<rows, exchange, counted>>
      PROVE  /\ MatchedWhole' /\ OneRowEach' /\ CountedSettled'
             /\ \A p : RowsOf(p)' = RowsOf(p) /\ (Settled(p)' <=> Settled(p))
  BY <1>0 DEF Once, MatchedWhole, OneRowEach, CountedSettled, RowsOf, Settled,
    exchange
<1>1. CASE BeginSync(c)
  <2>1. /\ UNCHANGED <<rows, exchange, counted, open>>
        /\ pc[c] = "exec" /\ pc'[c] = "rows" /\ list'[c] = Listed
    BY <1>1 DEF BeginSync, history
  <2>2. InHand'
    BY <2>1 DEF InHand, Trading, Writing, Refreshing, Uncounted
  <2>3. InSync' /\ InImport'
    BY <2>1, OnceListed DEF Once, InSync, InImport, exchange
  <2> QED
    BY <1>0, <2>1, <2>2, <2>3 DEF Once
<1>2. CASE SkipRow(c)
  <2>1. /\ UNCHANGED <<rows, exchange, counted, open, pc>>
        /\ list[c] # <<>> /\ pc[c] = "rows" /\ list'[c] = Tail(list[c])
    BY <1>2 DEF SkipRow, history
  <2>2. InHand' /\ InImport'
    BY <2>1 DEF Once, InHand, InImport, Trading, Writing, Refreshing,
      Uncounted, exchange
  <2>3. InSync'
    BY <2>1, OnceDropped
  <2> QED
    BY <1>0, <2>1, <2>2, <2>3 DEF Once
<1>3. CASE AskStatus(c)
  <2> DEFINE r == Head(list[c])
             o == r.order
             new == NewStatus(o)
  <2>1. /\ UNCHANGED <<rows, exchange, counted, open>>
        /\ list[c] # <<>> /\ pc[c] = "rows" /\ list'[c] = Tail(list[c])
        /\ pc'[c] = "refresh" /\ r.status \notin Terminal
        /\ cur'[c] = o /\ usd'[c] = matched[o]
        /\ put'[c] = [status |-> new, absent |-> FALSE]
    BY <1>3 DEF AskStatus, history, RecordTypes
  <2>2. /\ o \in Order /\ venue[o] # "none" /\ counted[o] = 0
        /\ \A i \in DOMAIN list'[c] : list'[c][i].order # o
        /\ InSync'
    BY <2>1, OnceDropped
  <2>3. new = "filled" => venue[o] = "matched"
    <3>1. Size[o] \in Nat \ {0} /\ matched[o] \in Nat
      BY <2>2, OrderAssumption
    <3>2. matched[o] >= Size[o] => venue[o] = "matched"
      BY <2>2, <3>1 DEF Once, MatchedWhole
    <3>3. venue[o] # "filled"
      BY <2>2 DEF VenueState
    <3> QED
      BY <3>2, <3>3 DEF NewStatus
  <2>4. put'[c].status = new
    BY <2>1
  <2> HIDE DEF new, o, r
  <2>5. InHand'
    BY <2>1, <2>2, <2>3, <2>4 DEF InHand, Trading, Writing, Refreshing,
      Uncounted, exchange
  <2>6. InImport'
    BY <2>1 DEF Once, InImport
  <2> QED
    BY <1>0, <2>1, <2>2, <2>5, <2>6 DEF Once
<1>4. CASE UpdateRow(c)
  <2> DEFINE o == cur[c]
             s == put[c].status
  <2>1. /\ UpdateOrderStatus(o, s) /\ pc[c] = "refresh"
        /\ UNCHANGED <<exchange, counted, list, open>>
        /\ \/ pc'[c] = "rows"
           \/ /\ pc'[c] = "onfill" /\ s = "filled"
              /\ UNCHANGED <<cur, usd>>
    BY <1>4 DEF UpdateRow, history
  <2>2. /\ o \in Order /\ s \in RowStatus /\ venue[o] # "none"
        /\ counted[o] = 0
        /\ \A i \in DOMAIN list[c] : list[c][i].order # o
        /\ s = "filled" => usd[c] = matched[o] /\ venue[o] = "matched"
    BY <2>1 DEF CurOK, Working, RecordTypes, Once, InHand, Refreshing,
      Uncounted
  <2>3. OneRowEach' /\ CountedSettled' /\ MatchedWhole'
    BY <2>1, <2>2, OnceUpdated
  <2>4. \A i \in DOMAIN rows' : rows'[i].order = o => rows'[i].status = s
    <3> HIDE DEF o, s
    <3>1. /\ DOMAIN rows' = DOMAIN rows
          /\ \A i \in DOMAIN rows :
               /\ rows'[i].order = rows[i].order
               /\ rows'[i].status = IF rows[i].order = o THEN s
                                    ELSE rows[i].status
      BY <2>1, <2>2, UpdateRows
    <3> QED
      BY <3>1
  <2>5. InHand'
    BY <2>1, <2>2, <2>4 DEF InHand, Trading, Writing, Refreshing, Uncounted,
      Settled, RowsOf, Terminal, exchange
  <2>6. InSync' /\ InImport'
    BY <2>1 DEF Once, InSync, InImport, exchange
  <2> QED
    BY <2>3, <2>5, <2>6 DEF Once
<1>5. CASE ListOpenOrders(c)
  <2>1. /\ UNCHANGED <<rows, exchange, counted, list>>
        /\ pc[c] = "rows" /\ pc'[c] = "import" /\ list[c] = <<>>
        /\ \A o \in open'[c] : o \in Order /\ venue[o] = "live"
    BY <1>5 DEF ListOpenOrders, history
  <2>2. InHand' /\ InSync'
    BY <2>1 DEF Once, InHand, InSync, Trading, Writing, Refreshing, Uncounted,
      exchange
  <2>3. InImport'
    BY <2>1 DEF Once, CountedSettled, InImport, exchange
  <2> QED
    BY <1>0, <2>1, <2>2, <2>3 DEF Once
<1>6. CASE EndSync(c)
  BY <1>6, OnceQuiet DEF EndSync, locals, history
<1>7. ASSUME NEW o \in Order, ImportOrder(c, o)
      PROVE  Once'
  <2>1. /\ UNCHANGED <<rows, exchange, counted, list>>
        /\ pc[c] = "import" /\ open'[c] \subseteq open[c]
        /\ pc'[c] = "write_import" /\ cur'[c] = o
        /\ counted[o] = 0 /\ venue[o] # "none" /\ list[c] = <<>>
    BY <1>7 DEF ImportOrder, Once, InImport, InSync, history
  <2>2. put'[c].absent <=> RowsOf(o) = {}
    BY <1>7, LookedUp DEF ImportOrder
  <2>3. InHand'
    BY <1>0, <2>1, <2>2 DEF InHand, Trading, Writing, Refreshing, Uncounted,
      exchange
  <2>4. InSync' /\ InImport'
    BY <2>1 DEF Once, InSync, InImport, exchange
  <2> QED
    BY <1>0, <2>1, <2>3, <2>4 DEF Once
<1> QED
  BY <1>1, <1>2, <1>3, <1>4, <1>5, <1>6, <1>7 DEF SyncStep

(* An order of the cycle's may be cancelled, or filled, under its hands.   *)
LEMMA OnceExchange ==
  ASSUME Types, Once, UNCHANGED <<rows, usd, list, put, open, counted>>,
         "cycle" \in Threads => UNCHANGED <<pc["cycle"], cur["cycle"]>>,
         MatchedWhole',
         \A o \in Order : /\ venue[o] # "none" => venue'[o] # "none"
                          /\ venue[o] = "matched" =>
                               /\ venue'[o] = "matched"
                               /\ matched'[o] = matched[o]
  PROVE  Once'
<1>0. /\ \A i \in DOMAIN rows : rows[i].order \in Order
      /\ "cycle" \in Threads =>
           /\ \A i \in DOMAIN list["cycle"] : list["cycle"][i].order \in Order
           /\ open["cycle"] \subseteq Order
           /\ pc["cycle"] \in Trading \union Writing \union Refreshing
                => cur["cycle"] \in Order
  BY ListOrders, RowAt
    DEF Types, TypeOK, RecordTypes, CurOK, Working, Trading, Writing,
        Refreshing
<1>1. \A p : RowsOf(p)' = RowsOf(p) /\ (Settled(p)' <=> Settled(p))
  BY DEF RowsOf, Settled
<1>2. OneRowEach' /\ CountedSettled'
  BY <1>0, <1>1 DEF Once, OneRowEach, CountedSettled
<1>3. InHand'
  BY <1>0, <1>1 DEF Once, InHand, Trading, Writing, Refreshing, Uncounted
<1>4. InSync' /\ InImport'
  BY <1>0 DEF Once, InSync, InImport
<1> QED
  BY <1>2, <1>3, <1>4 DEF Once

LEMMA OnceCancel ==
  ASSUME Types, Once, CancelStep
  PROVE  Once'
<1> DEFINE k == "cancel"
<1> USE DEF Types, TypeOK, ControlTypes, ExchangeTypes, Goto
<1>1. /\ "cycle" \in Threads => UNCHANGED <<pc["cycle"], cur["cycle"]>>
      /\ UNCHANGED <<matched, usd, list, put, open, counted>>
  BY DEF CancelStep, CancelRequested, CancelOnVenue, CancelFails,
    WriteCancelled, locals, exchange, history
<1>2. ASSUME NEW i \in DOMAIN rows, CancelRequested(i)
      PROVE  Once'
  BY <1>1, <1>2, OnceQuiet DEF CancelRequested
<1>3. CASE CancelOnVenue \/ CancelFails
  <2>1. /\ UNCHANGED rows /\ cur[k] \in Order
        /\ \/ venue' = venue
           \/ /\ venue[cur[k]] = "live"
              /\ venue' = [venue EXCEPT ![cur[k]] = "cancelled"]
    BY <1>3 DEF CancelOnVenue, CancelFails, CancelOrder, CurOK, Working
  <2>2. MatchedWhole'
    BY <1>1, <2>1 DEF Once, MatchedWhole
  <2>3. \A o \in Order : /\ venue[o] # "none" => venue'[o] # "none"
                         /\ venue[o] = "matched" => venue'[o] = "matched"
    BY <2>1
  <2> QED
    BY <1>1, <2>1, <2>2, <2>3, OnceExchange
<1>4. CASE WriteCancelled
  <2> DEFINE o == cur[k]
  <2>1. /\ UNCHANGED exchange /\ o \in Order
        /\ UpdateOrderStatus(o, "cancelled")
    BY <1>4 DEF WriteCancelled, CurOK, Working
  <2>2. "cancelled" \in RowStatus /\ "cancelled" \in Terminal
    BY DEF RowStatus, VenueState, Terminal
  <2>3. /\ OneRowEach' /\ CountedSettled' /\ MatchedWhole'
        /\ RowsKept(o, "cancelled")
    BY <1>1, <2>1, <2>2, OnceUpdated
  <2>4. /\ \A p : (RowsOf(p) = {}) <=> (RowsOf(p)' = {})
        /\ \A p : Settled(p) => Settled(p)'
    BY <2>2, <2>3 DEF RowsKept
  <2>5. InHand'
    BY <1>1, <2>1, <2>4 DEF Once, InHand, Trading, Writing, Refreshing,
      Uncounted, exchange
  <2>6. InSync' /\ InImport'
    BY <1>1, <2>1 DEF Once, InSync, InImport, exchange
  <2> QED
    BY <2>3, <2>5, <2>6 DEF Once
<1> QED
  BY <1>2, <1>3, <1>4 DEF CancelStep

LEMMA OnceVenue ==
  ASSUME Types, Once, VenueStep, "partial" \notin Env
  PROVE  Once'
<1> USE DEF Types, TypeOK, ExchangeTypes
<1>1. PICK o \in Order : VenueFill(o) \/ VenueExpire(o)
  BY DEF VenueStep
<1>2. /\ UNCHANGED <<rows, pc, cur, usd, list, put, open, counted>>
      /\ venue[o] = "live" /\ matched[o] = 0
      /\ \E s \in {"matched", "expired"} :
           /\ venue' = [venue EXCEPT ![o] = s]
           /\ matched' = [matched EXCEPT ![o] = IF s = "matched" THEN Size[o] ELSE @]
  BY <1>1 DEF VenueFill, VenueExpire, Once, MatchedWhole, locals, history
<1>3. MatchedWhole'
  BY <1>2 DEF Once, MatchedWhole
<1>4. \A p \in Order : /\ venue[p] # "none" => venue'[p] # "none"
                       /\ venue[p] = "matched" =>
                            venue'[p] = "matched" /\ matched'[p] = matched[p]
  BY <1>2
<1> QED
  BY <1>2, <1>3, <1>4, OnceExchange

LEMMA OnceCycle ==
  ASSUME Types, Once, CycleStep
  PROVE  Once'
<1> DEFINE c == "cycle"
<1> USE DEF Types, TypeOK, ControlTypes, Goto, locals, volumes, history
<1>1. CASE BeginCycle \/ SyncDailyVolume \/ SyncDailyVolumeFails
  BY <1>1, OnceQuiet DEF BeginCycle, SyncDailyVolume, SyncDailyVolumeFails
<1>2. CASE RefreshGate \/ EngineAnswers \/ CycleFails \/ PersistOnFill
  BY <1>2, OnceQuiet DEF RefreshGate, EngineAnswers, CycleFails, PersistOnFill
<1>3. CASE OnFill
  <2> DEFINE o == cur[c]
             u == usd[c]
  <2>1. /\ c \in Threads /\ o \in Order /\ pc[c] = "onfill" /\ u \in Nat
        /\ pc'[c] = "onpersist" /\ open[c] = {}
        /\ UNCHANGED <<rows, exchange, list, open>>
    BY <1>3 DEF OnFill, CurOK, Working, ValueTypes, Once, InImport
  <2>2. /\ counted[o] = 0 /\ u = matched[o] /\ Settled(o)
        /\ venue[o] = "matched"
        /\ \A i \in DOMAIN list[c] : list[c][i].order # o
    BY <2>1 DEF Once, InHand, Refreshing, Uncounted
  <2>3. counted' = [counted EXCEPT ![o] = u]
    <3>1. counted' = [counted EXCEPT ![o] = @ + u]
      BY <1>3 DEF OnFill, AddVolume
    <3>2. counted[o] + u = u
      BY <2>1, <2>2
    <3> QED
      BY <3>1, <3>2
  <2> HIDE DEF o, u
  <2>a. \A p : Settled(p)' <=> Settled(p)
    BY <2>1 DEF RowsOf, Settled
  <2>4. MatchedWhole' /\ OneRowEach' /\ CountedSettled'
    BY <2>1, <2>2, <2>3, <2>a DEF Once, MatchedWhole, OneRowEach,
      CountedSettled, exchange, HistoryTypes
  <2>5. InHand'
    BY <2>1 DEF InHand, Trading, Writing, Refreshing, Uncounted
  <2>6. InSync' /\ InImport'
    <3>1. \A i \in DOMAIN list[c] : list[c][i].order \in Order
      BY <2>1, ListOrders
    <3> QED
      BY <2>1, <2>2, <2>3, <3>1 DEF Once, InSync, InImport, exchange,
        HistoryTypes
  <2> QED
    BY <2>4, <2>5, <2>6 DEF Once
<1> QED
  BY <1>1, <1>2, <1>3 DEF CycleStep

LEMMA OnceNext ==
  ASSUME Threads \subseteq {"cycle", "cancel"}, "partial" \notin Env
  PROVE  Types /\ Once /\ [Next]_vars => Once'
<1> SUFFICES ASSUME Types, Once, [Next]_vars
             PROVE  Once'
  OBVIOUS
<1>1. CASE UNCHANGED vars
  BY <1>1, OnceQuiet DEF vars, locals, history
<1>2. CASE \E t \in Threads : TradeStep(t) \/ SyncStep(t) \/ WriteRecord(t)
  <2>1. PICK t \in Threads : TradeStep(t) \/ SyncStep(t) \/ WriteRecord(t)
    BY <1>2
  <2>2. t = "cycle"
    BY <2>1 DEF TradeStep, PlaceOrder, PlaceMatched, PlaceLost, CanPlace,
      Trader, ConfirmFill, PersistVolume, GiveUpPolling, SaveRecord,
      SyncStep, Syncer, BeginSync, SkipRow, AskStatus, UpdateRow,
      ListOpenOrders, EndSync, ImportOrder, WriteRecord
  <2> QED
    BY <2>1, <2>2, OnceTrade, OnceSync, OnceWrite
<1>3. CASE Midnight
  BY <1>3, OnceQuiet DEF Midnight, locals
<1>4. CASE Crash
  <2>1. /\ UNCHANGED <<rows, exchange, counted>>
        /\ \A t \in Threads : pc'[t] = "idle" /\ list'[t] = <<>> /\ open'[t] = {}
    BY <1>4 DEF Crash, history
  <2>2. MatchedWhole' /\ OneRowEach' /\ CountedSettled'
    BY <2>1 DEF Once, MatchedWhole, OneRowEach, CountedSettled, Settled,
      RowsOf, exchange
  <2>3. InHand' /\ InSync' /\ InImport'
    BY <2>1 DEF InHand, InSync, InImport, Trading, Writing, Refreshing,
      Uncounted
  <2> QED
    BY <2>2, <2>3 DEF Once
<1> QED
  BY <1>1, <1>2, <1>3, <1>4, OnceCycle, OnceCancel, OnceVenue DEF Next

(* Beside the cancel endpoint, with crashes and lost replies at any step,  *)
(* a cycle whose orders fill in one piece counts no fill twice: neither    *)
(* the poll and a later sync, nor two syncs.                               *)
THEOREM FillsCountedOnceAlways ==
  ASSUME Threads \subseteq {"cycle", "cancel"}, "partial" \notin Env
  PROVE  Spec => []FillsCountedOnce
<1>1. Types /\ Once => FillsCountedOnce
  <2> SUFFICES ASSUME Types, Once, NEW o \in Order
               PROVE  counted[o] <= matched[o]
    BY DEF FillsCountedOnce
  <2>1. matched[o] \in Nat
    BY DEF Types, TypeOK, ExchangeTypes
  <2>2. counted[o] = 0 \/ counted[o] = matched[o]
    BY DEF Once, CountedSettled
  <2> QED
    BY <2>1, <2>2
<1> QED
  BY <1>1, OnceInit, OnceNext, TypesInit, TypesNext, PTL DEF Spec
=============================================================================
