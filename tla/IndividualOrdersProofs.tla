------------------------ MODULE IndividualOrdersProofs ------------------------
(***************************************************************************)
(* Proofs about IndividualOrders, for any quantity and any set of requests.*)
(***************************************************************************)
EXTENDS IndividualOrders, TLAPS

USE OrderedAssumption

-----------------------------------------------------------------------------
(* Types.                                                                  *)

\* Quantities read from a row are natural numbers within what was ordered.
LEMMA QuantityTypes ==
  ASSUME NEW r \in Row
  PROVE  /\ Cancelled(r) \in 0 .. Ordered
         /\ Active(r) \in 0 .. Ordered /\ AtSupplier(r) \in 0 .. Ordered
         /\ ReceiveLimit(r) \in 0 .. Ordered /\ Expected(r) \in 1 .. Ordered
<1>1. Cancelled(r) \in 0 .. Ordered
  BY DEF Row, Cancelled, NonNegative
<1>2. Active(r) \in 0 .. Ordered /\ AtSupplier(r) \in 0 .. Ordered
  BY <1>1 DEF Row, Active, AtSupplier, NonNegative
<1>3. ReceiveLimit(r) \in 0 .. Ordered
  BY <1>1, <1>2 DEF ReceiveLimit
<1>4. Expected(r) \in 1 .. Ordered
  BY <1>3 DEF Expected
<1> QED
  BY <1>1, <1>2, <1>3, <1>4

\* An update of a row is a row.
LEMMA MergeType ==
  ASSUME NEW r \in Row, NEW u \in Update
  PROVE  Merge(r, u) \in Row
BY DEF Merge, Row, Update

LEMMA NewRowType == NewRow \in Row
BY DEF NewRow, Row, Statuses, Phases

LEMMA SetType ==
  ASSUME NEW r \in Row, NEW fields \in SUBSET Fields
  PROVE  Set(fields, r) \in Update
<1>1. Merge(NewRow, [fields |-> fields, to |-> r]) \in Row
  BY NewRowType, MergeType DEF Update
<1> QED
  BY <1>1 DEF Set, Update

\* The phase a withdrawal gets, when there is something to withdraw.
LEMMA CancelPhaseType ==
  ASSUME NEW r \in Row, NEW n \in 1 .. MaxCancel(r)
  PROVE  CancelPhase(r) \in Phases /\ ~r.acked /\ r.status # "Anulowane"
<1>1. CancelPhase(r) # "none"
  BY DEF MaxCancel
<1>2. CancelPhase(r) \in Phases \cup {"none"}
  BY DEF CancelPhase, Phases
<1> QED
  BY <1>1, <1>2 DEF CancelPhase

LEMMA WithCancelledType ==
  ASSUME NEW r \in Row, NEW n \in 1 .. MaxCancel(r), n \in 1 .. Ordered
  PROVE  WithCancelled(r, n) \in Row /\ CancelFields(r, n) \in SUBSET Fields
<1>1. CancelPhase(r) \in Phases /\ Cancelled(r) \in 0 .. Ordered
  BY CancelPhaseType, QuantityTypes
<1>2. PlannedStatus(r, n) \in Statuses
  BY DEF PlannedStatus, Row, Statuses
<1>3. StoredQuantity(Cancelled(r) + n) \in 0 .. Ordered - 1
  BY <1>1 DEF StoredQuantity
<1>4. KeepsLine(r, n) \in BOOLEAN /\ SettlesItself(r, n) \in BOOLEAN
  BY DEF KeepsLine, SettlesItself
<1>5. \A a : NoticePending(a) \in BOOLEAN
  BY DEF NoticePending
<1>6. WithCancelled(r, n) \in Row
  BY <1>1, <1>2, <1>3, <1>4, <1>5 DEF WithCancelled, StoredQuantity, Row
<1>7. CancelFields(r, n) \in SUBSET Fields
  BY DEF CancelFields, Fields
<1> QED
  BY <1>6, <1>7

LEMMA WithDeliveredType ==
  ASSUME NEW r \in Row, NEW n \in 0 .. Ordered
  PROVE  WithDelivered(r, n) \in Row /\ DeliveryFields(r, n) \in SUBSET Fields
<1>1. Expected(r) \in 1 .. Ordered
  BY QuantityTypes
<1>2. StatusFromDelivered(Expected(r), n) \in Statuses
  BY DEF StatusFromDelivered, Statuses
<1>3. WithDelivered(r, n) \in Row
  <2>1. (IF StatusFromDelivered(Expected(r), n) = "Zrealizowane"
         THEN Expected(r) ELSE n) \in 0 .. Ordered
    BY <1>1
  <2>2. (r.acked /\ ~(CompletesPartial(r.status, StatusFromDelivered(Expected(r), n))
                       /\ ~r.cancelled)) \in BOOLEAN
    OBVIOUS
  <2> QED
    BY <1>2, <2>1, <2>2 DEF WithDelivered, Row
<1>4. DeliveryFields(r, n) \in SUBSET Fields
  BY DEF DeliveryFields, Fields
<1> QED
  BY <1>3, <1>4

LEMMA IdleType == Idle \in Request /\ Nothing \in Update
<1>1. Nothing \in Update
  BY NewRowType, SetType DEF Nothing, Fields
<1> QED
  BY <1>1 DEF Idle, Request, Ops, Steps, Statuses

\* Sending an update and learning keep everything in its type.
LEMMA SendType ==
  ASSUME TypeOK, NEW q \in Requests, NEW u \in Update,
         NEW basis, NEW kept, Send(q, u, basis, kept)
  PROVE  /\ row' \in Row /\ purged' \in BOOLEAN /\ seen' \in 0 .. Ordered
         /\ overlapped' \in BOOLEAN /\ hasty' \in BOOLEAN
         /\ fresh' \in [Requests -> SUBSET {"page", "undo", "write"}]
<1>1. Merge(row, u) \in Row
  BY MergeType DEF TypeOK
<1>2. row' \in Row
  BY <1>1 DEF Send
<1>3. overlapped' \in BOOLEAN /\ hasty' \in BOOLEAN /\ purged' \in BOOLEAN
  BY DEF Send, TypeOK
<1>4. seen' \in 0 .. Ordered
  BY DEF Send, TypeOK, Row
<1>5. fresh' \in [Requests -> SUBSET {"page", "undo", "write"}]
  BY DEF Send, TypeOK
<1> QED
  BY <1>2, <1>3, <1>4, <1>5

LEMMA LearnType ==
  ASSUME TypeOK, NEW q \in Requests, NEW new \in Request,
         NEW known \in SUBSET {"page", "undo", "write"}, Learn(q, new, known)
  PROVE  TypeOK'
BY DEF Learn, TypeOK

LEMMA TypeStep == TypeOK /\ [Next]_vars => TypeOK'
<1> SUFFICES ASSUME TypeOK, [Next]_vars PROVE TypeOK'
  OBVIOUS
<1> USE IdleType
<1>t. \A q \in Requests : /\ req[q] \in Request
                          /\ fresh[q] \in SUBSET {"page", "undo", "write"}
  BY DEF TypeOK
<1>r. row \in Row /\ NewRow \in Row
  BY NewRowType DEF TypeOK
<1>f. ASSUME NEW fields \in SUBSET Fields, NEW r \in Row
      PROVE  Set(fields, r) \in Update
  BY <1>f, SetType
<1>1. ASSUME NEW q \in Requests, Board(q) PROVE TypeOK'
  <2>1. CASE CaptureBoard(q)
    <3>1. [Idle EXCEPT !.op = "board", !.step = "captured",
                       !.undo = Set({"status"}, row)] \in Request
      BY <1>r, <1>f DEF Request, Ops, Steps, Fields
    <3> QED
      BY <2>1, <3>1, LearnType DEF CaptureBoard
  <2>2. CASE CheckBoard(q)
    <3>1. [req[q] EXCEPT !.step = "checked"] \in Request
      BY <1>t DEF Request, Steps
    <3>2. fresh[q] \cup {"write"} \in SUBSET {"page", "undo", "write"}
      BY <1>t
    <3> QED
      BY <2>2, <3>1, <3>2, LearnType DEF CheckBoard
  <2>3. CASE Skip(q)
    <3>1. [req[q] EXCEPT !.step = "written"] \in Request
      BY <1>t DEF Request, Steps
    <3> QED
      BY <1>t, <2>3, <3>1, LearnType DEF Skip
  <2>4. ASSUME NEW status \in Statuses, SnapshotBoard(q, status) PROVE TypeOK'
    <3>1. Set({"status"}, [row EXCEPT !.status = status]) \in Update
      <4>1. [row EXCEPT !.status = status] \in Row
        BY <1>r DEF Row
      <4> QED
        BY <1>f, <4>1 DEF Fields
    <3>2. [req[q] EXCEPT !.step = "planned", !.before = row.status,
              !.write = Set({"status"}, [row EXCEPT !.status = status])] \in Request
      BY <1>t, <1>r, <3>1 DEF Request, Steps, Row
    <3> QED
      BY <1>t, <2>4, <3>2, LearnType DEF SnapshotBoard
  <2>5. CASE WriteBoard(q)
    <3>1. req[q].write \in Update
      BY <1>t DEF Request
    <3>2. req' \in [Requests -> Request]
      BY <1>t, <2>5 DEF WriteBoard, Request, Steps, TypeOK
    <3> QED
      BY <2>5, <3>1, <3>2, SendType DEF WriteBoard, TypeOK
  <2>6. CASE FinishBoard(q)
    <3>1. [req[q] EXCEPT !.step = "written", !.write = Nothing,
                         !.before = "Nowe"] \in Request
      BY <1>t DEF Request, Steps, Statuses
    <3>2. fresh[q] \ {"write"} \in SUBSET {"page", "undo", "write"}
      BY <1>t
    <3> QED
      BY <2>6, <3>1, <3>2, LearnType DEF FinishBoard
  <2>7. CASE Rollback(q)
    <3>1. [NewRow EXCEPT !.status = req[q].before] \in Row
      BY <1>t, <1>r DEF Request, Row
    <3>2. RollbackUpdate(req[q].before) \in Update
      BY <1>f, <3>1 DEF Fields, RollbackUpdate
    <3>3. req' \in [Requests -> Request]
      BY <2>7 DEF Rollback, End, TypeOK
    <3> QED
      BY <2>7, <3>2, <3>3, SendType DEF Rollback, TypeOK
  <2>8. CASE CancelOrder(q)
    <3>1. [row EXCEPT !.status = "Anulowane"] \in Row
      BY <1>r DEF Row, Statuses
    <3>2. Set({"status"}, [row EXCEPT !.status = "Anulowane"]) \in Update
      BY <1>f, <3>1 DEF Fields
    <3> QED
      BY <2>8, <3>2, SendType DEF CancelOrder, TypeOK
  <2> QED
    BY <1>1, <2>1, <2>2, <2>3, <2>4, <2>5, <2>6, <2>7, <2>8 DEF Board
<1>2. ASSUME NEW q \in Requests, Warehouse(q) PROVE TypeOK'
  <2>1. CASE OpenQueue(q)
    <3>1. [Idle EXCEPT !.op = "receive", !.step = "page"] \in Request
      BY DEF Request, Ops, Steps
    <3> QED
      BY <2>1, <3>1, LearnType DEF OpenQueue
  <2>2. CASE CaptureDelivery(q)
    <3>1. [req[q] EXCEPT !.step = "captured",
                         !.undo = Set(DeliverySnapshot, row)] \in Request
      BY <1>t, <1>r, <1>f DEF Request, Steps, Fields, DeliverySnapshot
    <3>2. fresh[q] \cup {"undo"} \in SUBSET {"page", "undo", "write"}
      BY <1>t
    <3> QED
      BY <2>2, <3>1, <3>2, LearnType DEF CaptureDelivery
  <2>3. ASSUME NEW n \in 0 .. Ordered, ReadDelivery(q, n) PROVE TypeOK'
    <3>1. Set(DeliveryFields(row, n), WithDelivered(row, n)) \in Update
      BY <1>r, <1>f, WithDeliveredType
    <3>2. [req[q] EXCEPT !.step = "planned",
             !.write = Set(DeliveryFields(row, n), WithDelivered(row, n))] \in Request
      BY <1>t, <3>1 DEF Request, Steps
    <3>3. fresh[q] \cup {"write"} \in SUBSET {"page", "undo", "write"}
      BY <1>t
    <3> QED
      BY <2>3, <3>2, <3>3, LearnType DEF ReadDelivery
  <2>4. CASE WriteDelivery(q)
    <3>1. req[q].write \in Update
      BY <1>t DEF Request
    <3>2. req' \in [Requests -> Request]
      BY <1>t, <2>4 DEF WriteDelivery, Request, Steps, TypeOK
    <3> QED
      BY <2>4, <3>1, <3>2, SendType DEF WriteDelivery, TypeOK
  <2>5. CASE ReadRevert(q)
    <3>1. [NewRow EXCEPT !.status = "Zamowione"] \in Row
      BY <1>r DEF Row, Statuses
    <3>2. [Idle EXCEPT !.op = "revert", !.step = "planned",
                       !.write = RevertUpdate] \in Request
      BY <1>f, <3>1 DEF Request, Ops, Steps, Fields, RevertUpdate
    <3> QED
      BY <2>5, <3>2, LearnType DEF ReadRevert
  <2>6. CASE WriteRevert(q)
    <3>1. req[q].write \in Update
      BY <1>t DEF Request
    <3>2. req' \in [Requests -> Request]
      BY <2>6 DEF WriteRevert, End, TypeOK
    <3>3. CASE RevertMatches(row)
      BY <2>6, <3>1, <3>2, <3>3, SendType DEF WriteRevert, TypeOK
    <3>4. CASE ~RevertMatches(row)
      BY <2>6, <3>2, <3>4 DEF WriteRevert, SendNothing, history, TypeOK
    <3> QED
      BY <3>3, <3>4
  <2> QED
    BY <1>2, <2>1, <2>2, <2>3, <2>4, <2>5, <2>6 DEF Warehouse
<1>3. ASSUME NEW q \in Requests, Sales(q) PROVE TypeOK'
  <2>1. CASE OpenMine(q)
    <3>1. [row EXCEPT !.acked = FALSE] \in Row
      BY <1>r DEF Row
    <3>2. [Idle EXCEPT !.op = "sales", !.step = "page",
             !.undo = Set(SalesSnapshot, [row EXCEPT !.acked = FALSE])] \in Request
      BY <1>f, <3>1 DEF Request, Ops, Steps, Fields, SalesSnapshot
    <3> QED
      BY <2>1, <3>2, LearnType DEF OpenMine
  <2>2. ASSUME NEW n \in 1 .. Ordered, PlanCancel(q, n) PROVE TypeOK'
    <3>1. Set(CancelFields(row, n), WithCancelled(row, n)) \in Update
      BY <1>r, <1>f, <2>2, WithCancelledType DEF PlanCancel
    <3>2. [req[q] EXCEPT !.step = "planned",
             !.write = Set(CancelFields(row, n), WithCancelled(row, n))] \in Request
      BY <1>t, <3>1 DEF Request, Steps
    <3>3. fresh[q] \cup {"write"} \in SUBSET {"page", "undo", "write"}
      BY <1>t
    <3> QED
      BY <2>2, <3>2, <3>3, LearnType DEF PlanCancel
  <2>3. CASE WriteCancel(q)
    <3>1. req[q].write \in Update
      BY <1>t DEF Request
    <3>2. req' \in [Requests -> Request]
      BY <1>t, <2>3 DEF WriteCancel, End, Request, Steps, TypeOK
    <3>3. CASE row.acked
      BY <2>3, <3>2, <3>3 DEF WriteCancel, SendNothing, history, TypeOK
    <3>4. CASE ~row.acked
      BY <2>3, <3>1, <3>2, <3>4, SendType DEF WriteCancel, TypeOK
    <3> QED
      BY <3>3, <3>4
  <2>4. ASSUME NEW op \in {"pickup", "dismiss"}, ReadAck(q, op) PROVE TypeOK'
    <3>1. [NewRow EXCEPT !.acked = TRUE] \in Row
      BY <1>r DEF Row
    <3>2. [Idle EXCEPT !.op = op, !.step = "planned",
             !.write = Set({"acked"}, [NewRow EXCEPT !.acked = TRUE]),
             !.undo = Set({"acked"}, NewRow)] \in Request
      BY <1>r, <1>f, <3>1 DEF Request, Ops, Steps, Fields
    <3> QED
      BY <2>4, <3>2, LearnType DEF ReadAck
  <2>5. CASE ReadShelf(q)
    <3>1. [NewRow EXCEPT !.acked = TRUE] \in Row
      BY <1>r DEF Row
    <3>2. [Idle EXCEPT !.op = "shelf", !.step = "planned",
             !.write = Set({"acked"}, [NewRow EXCEPT !.acked = TRUE])] \in Request
      BY <1>f, <3>1 DEF Request, Ops, Steps, Fields
    <3> QED
      BY <2>5, <3>2, LearnType DEF ReadShelf
  <2>6. CASE WriteAck(q)
    <3>1. req[q].write \in Update
      BY <1>t DEF Request
    <3>2. req' \in [Requests -> Request]
      BY <1>t, <2>6 DEF WriteAck, End, Request, Steps, TypeOK
    <3>3. CASE row.acked
      BY <2>6, <3>2, <3>3 DEF WriteAck, SendNothing, history, TypeOK
    <3>4. CASE ~row.acked
      BY <2>6, <3>1, <3>2, <3>4, SendType DEF WriteAck, TypeOK
    <3> QED
      BY <3>3, <3>4
  <2> QED
    BY <1>3, <2>1, <2>2, <2>3, <2>4, <2>5, <2>6 DEF Sales
<1>4. ASSUME NEW q \in Requests, Decision(q) PROVE TypeOK'
  <2>1. CASE ReadDecision(q)
    <3>1. [NewRow EXCEPT !.disposed = TRUE] \in Row
      BY <1>r DEF Row
    <3>2. [Idle EXCEPT !.op = "decide", !.step = "planned",
             !.write = Set({"disposed"}, [NewRow EXCEPT !.disposed = TRUE])] \in Request
      BY <1>f, <3>1 DEF Request, Ops, Steps, Fields
    <3> QED
      BY <2>1, <3>2, LearnType DEF ReadDecision
  <2>2. CASE WriteDecision(q)
    <3>1. req[q].write \in Update
      BY <1>t DEF Request
    <3>2. req' \in [Requests -> Request]
      BY <2>2 DEF WriteDecision, End, TypeOK
    <3>3. CASE row.disposed
      BY <2>2, <3>2, <3>3 DEF WriteDecision, SendNothing, history, TypeOK
    <3>4. CASE ~row.disposed
      BY <2>2, <3>1, <3>2, <3>4, SendType DEF WriteDecision, TypeOK
    <3> QED
      BY <3>3, <3>4
  <2>3. CASE ReadSettle(q)
    <3>1. [Idle EXCEPT !.op = "settle", !.step = "planned"] \in Request
      BY DEF Request, Ops, Steps
    <3> QED
      BY <2>3, <3>1, LearnType DEF ReadSettle
  <2>4. CASE WriteSettle(q)
    <3>1. SettleUpdate \in Update
      <4>1. [NewRow EXCEPT !.settled = TRUE] \in Row
        BY <1>r DEF Row
      <4> QED
        BY <1>f, <4>1 DEF SettleUpdate, Fields
    <3>2. req' \in [Requests -> Request]
      BY <2>4 DEF WriteSettle, End, TypeOK
    <3>3. CASE row.settled
      BY <2>4, <3>2, <3>3 DEF WriteSettle, SendNothing, history, TypeOK
    <3>4. CASE ~row.settled
      BY <2>4, <3>1, <3>2, <3>4, SendType DEF WriteSettle, TypeOK
    <3> QED
      BY <3>3, <3>4
  <2> QED
    BY <1>4, <2>1, <2>2, <2>3, <2>4 DEF Decision
<1>5. ASSUME NEW q \in Requests, Undo(q) PROVE TypeOK'
  <2>1. req[q].undo \in Update
    BY <1>t DEF Request
  <2>2. req' \in [Requests -> Request]
    BY <1>5 DEF Undo, End, TypeOK
  <2> QED
    BY <1>5, <2>1, <2>2, SendType DEF Undo, TypeOK
<1>6. ASSUME NEW q \in Requests, GiveUp(q) PROVE TypeOK'
  BY <1>6 DEF GiveUp, End, TypeOK
<1>7. CASE Purge
  BY <1>7 DEF Purge, history, TypeOK
<1>8. CASE UNCHANGED vars
  BY <1>8 DEF vars, history, TypeOK
<1> QED
  BY <1>1, <1>2, <1>3, <1>4, <1>5, <1>6, <1>7, <1>8 DEF Next, Gone

\* Every reachable state is well typed; in particular no sequence of requests, not
\* even of overlapping ones, delivers or withdraws more than was ordered.
THEOREM TypeCorrect == Spec => []TypeOK
<1>1. ASSUME Init PROVE TypeOK
  <2>1. row \in Row /\ req \in [Requests -> Request]
    BY <1>1, NewRowType, IdleType DEF Init
  <2>2. fresh \in [Requests -> SUBSET {"page", "undo", "write"}]
    BY <1>1 DEF Init
  <2>3. overlapped \in BOOLEAN /\ hasty \in BOOLEAN /\ purged \in BOOLEAN
    BY <1>1 DEF Init
  <2>4. seen = 0
    BY <1>1, Zenon DEF Init
  <2>5. seen \in 0 .. Ordered
    BY <2>4
  <2> QED
    BY <2>1, <2>2, <2>3, <2>5, Zenon DEF TypeOK
<1> QED
  BY <1>1, TypeStep, PTL DEF Spec

\* The values a Set carries are those of the row it was made from.
LEMMA SetValues ==
  ASSUME NEW r \in Row, NEW fields \in SUBSET Fields
  PROVE  LET u == Set(fields, r)
         IN /\ u.fields = fields
            /\ "status" \in fields => u.to.status = r.status
            /\ "delivered" \in fields => u.to.delivered = r.delivered
            /\ "cancelled" \in fields => u.to.cancelled = r.cancelled
            /\ "qty" \in fields => u.to.qty = r.qty
            /\ "phase" \in fields => u.to.phase = r.phase
            /\ "acked" \in fields => u.to.acked = r.acked
            /\ "disposed" \in fields => u.to.disposed = r.disposed
            /\ "settled" \in fields => u.to.settled = r.settled
BY DEF Set, Merge

-----------------------------------------------------------------------------
(* Rows that tell the truth, and the operations that keep them so.         *)

\* What Coherent and NotForgotten say of a row, with what they need: only a
\* withdrawal is settled, and of a new order only a part can be withdrawn.
Sound(r) ==
  /\ StatusFits(r) /\ (Shown(r) \/ Over(r))
  /\ r.settled => r.cancelled
  /\ r.status = "Nowe" => ~r.settled /\ (r.cancelled => r.qty > 0)

\* A new order that is placed or cancelled; without a withdrawal nothing else is.
LEMMA BoardSound ==
  ASSUME NEW r \in Row, Sound(r), r.status = "Nowe",
         NEW status \in {"Nowe", "Zamowione", "Anulowane"}
  PROVE  Sound([r EXCEPT !.status = status])
<1> DEFINE after == [r EXCEPT !.status = status]
<1>1. /\ after.status = status /\ after.delivered = 0
      /\ after.cancelled = r.cancelled /\ after.qty = r.qty /\ after.settled = FALSE
      /\ r.cancelled => r.qty \in 1 .. Ordered - 1
  BY DEF Sound, StatusFits, Row
<1>2. StatusFits(after)
  BY <1>1 DEF StatusFits
<1>3. status = "Zamowione" => InReceiveQueue(after)
  BY <1>1 DEF InReceiveQueue, HasActiveFulfillment, SupplierRemaining, Active,
              Cancelled, NonNegative
<1> HIDE DEF after
<1>4. Sound(after)
  BY <1>1, <1>2, <1>3 DEF Sound, Shown, Over
<1> QED
  BY <1>4 DEF after

\* A row the warehouse receives: something is wanted, and a withdrawal took a part.
LEMMA InQueueFacts ==
  ASSUME NEW r \in Row, Sound(r), InReceiveQueue(r)
  PROVE  /\ r.status \in {"Zamowione", "Czesciowo_zrealizowane"} /\ ~r.settled
         /\ r.cancelled => r.qty > 0
         /\ Cancelled(r) = (IF r.cancelled THEN r.qty ELSE 0)
         /\ Active(r) = Ordered - Cancelled(r) /\ Active(r) \in 1 .. Ordered
         /\ ReceiveLimit(r) = Active(r) /\ Expected(r) = Active(r)
<1>1. /\ r.status \in {"Zamowione", "Czesciowo_zrealizowane"} /\ ~r.settled
      /\ r.cancelled => SupplierRemaining(r) > 0
      /\ r.qty \in 0 .. Ordered - 1 /\ r.delivered \in 0 .. Ordered
      /\ r.cancelled \in BOOLEAN
  BY DEF Sound, InReceiveQueue, HasActiveFulfillment, Row
<1>2. r.cancelled => r.qty > 0
  BY <1>1 DEF SupplierRemaining, Active, Cancelled, NonNegative
<1>3. Cancelled(r) = (IF r.cancelled THEN r.qty ELSE 0)
  BY <1>1, <1>2 DEF Cancelled
<1>4. Active(r) = Ordered - Cancelled(r) /\ Active(r) \in 1 .. Ordered
  BY <1>1, <1>3 DEF Active, NonNegative
<1>5. ReceiveLimit(r) = Active(r) /\ Expected(r) = Active(r)
  BY <1>4 DEF ReceiveLimit, ReceivesWithdrawn, Expected
<1> QED
  BY <1>1, <1>2, <1>3, <1>4, <1>5

\* A receipt within the limit.
LEMMA ReceiveSound ==
  ASSUME NEW r \in Row, Sound(r), InReceiveQueue(r),
         NEW n \in 0 .. Ordered, ReceiveLimit(r) > 0 => n <= ReceiveLimit(r)
  PROVE  Sound(WithDelivered(r, n))
<1> DEFINE after == WithDelivered(r, n)
<1>1. /\ r.status \in {"Zamowione", "Czesciowo_zrealizowane"} /\ ~r.settled
      /\ r.cancelled => r.qty > 0
      /\ r.cancelled \in BOOLEAN /\ r.qty \in Nat
      /\ Cancelled(r) = (IF r.cancelled THEN r.qty ELSE 0)
      /\ Active(r) = Ordered - Cancelled(r) /\ Active(r) \in 1 .. Ordered
      /\ n <= Active(r) /\ Expected(r) = Active(r)
  BY InQueueFacts DEF Row
<1>2. /\ after.status = StatusFromDelivered(Active(r), n) /\ after.delivered = n
      /\ after.cancelled = r.cancelled /\ after.qty = r.qty /\ after.settled = r.settled
      /\ after.status \in {"Zamowione", "Czesciowo_zrealizowane", "Zrealizowane"}
      /\ after.status = "Zrealizowane" <=> n = Active(r)
      /\ after.status = "Zamowione" <=> n = 0
      /\ after.acked \in BOOLEAN
  BY <1>1 DEF WithDelivered, StatusFromDelivered, Row
<1> HIDE DEF after
<1>3. Cancelled(after) = Cancelled(r) /\ Active(after) = Active(r)
  BY <1>1, <1>2 DEF Cancelled, Active, NonNegative
<1>4. StatusFits(after)
  BY <1>1, <1>2, <1>3 DEF StatusFits
<1>5. CASE after.status = "Zrealizowane"
  <2>1. ~after.acked => AwaitsPickup(after)
    BY <1>1, <1>2, <1>3, <1>5 DEF AwaitsPickup, PickupAfterPartialCancel
  <2> QED
    BY <1>1, <1>2, <1>4, <1>5, <2>1 DEF Sound, Shown, Over, after
<1>6. CASE after.status # "Zrealizowane"
  <2>1. InReceiveQueue(after)
    BY <1>1, <1>2, <1>3, <1>6
       DEF InReceiveQueue, HasActiveFulfillment, SupplierRemaining, NonNegative
  <2> QED
    BY <1>1, <1>2, <1>4, <1>6, <2>1 DEF Sound, Shown, after
<1> QED
  BY <1>5, <1>6

\* The undo of a receipt restores status and quantity, the acknowledgement that a
\* completing receipt took away stays away: the row is in the queue again.
LEMMA ReceiveUndoSound ==
  ASSUME NEW r \in Row, Sound(r), InReceiveQueue(r), NEW acked \in BOOLEAN
  PROVE  Sound([r EXCEPT !.acked = acked])
<1> DEFINE after == [r EXCEPT !.acked = acked]
<1>1. /\ after.status = r.status /\ after.delivered = r.delivered
      /\ after.cancelled = r.cancelled /\ after.qty = r.qty /\ after.settled = r.settled
  BY DEF Row
<1> HIDE DEF after
<1>2. Cancelled(after) = Cancelled(r) /\ Active(after) = Active(r)
  BY <1>1 DEF Cancelled, Active
<1>3. StatusFits(after) /\ InReceiveQueue(after)
  BY <1>1, <1>2 DEF Sound, StatusFits, InReceiveQueue, HasActiveFulfillment,
                    SupplierRemaining
<1>4. Sound(after)
  BY <1>1, <1>3 DEF Sound, Shown
<1> QED
  BY <1>4 DEF after

\* A revert of a complete or partly complete order without a withdrawal.
Reverted(r) == [r EXCEPT !.status = "Zamowione", !.delivered = 0, !.acked = FALSE]

LEMMA RevertSound ==
  ASSUME NEW r \in Row, Sound(r), Revertible(r)
  PROVE  Sound(Reverted(r))
<1> DEFINE after == Reverted(r)
<1>1. /\ after.status = "Zamowione" /\ after.delivered = 0
      /\ after.cancelled = FALSE /\ after.settled = FALSE
  BY DEF Row, Revertible, Sound, Reverted
<1> HIDE DEF after
<1>2. Sound(after)
  BY <1>1 DEF Sound, StatusFits, Shown, InReceiveQueue
<1> QED
  BY <1>2 DEF after

\* An acknowledgement of goods picked up, of a cancelled or withdrawn order, or by
\* the clearing of the shelf.
LEMMA AckSound ==
  ASSUME NEW r \in Row, Sound(r), ~r.acked,
         \/ r.status \in {"Zrealizowane", "Anulowane"}
         \/ NoticePending(r) \/ OnShelf(r)
  PROVE  Sound([r EXCEPT !.acked = TRUE])
<1> DEFINE after == [r EXCEPT !.acked = TRUE]
<1>1. /\ after.status = r.status /\ after.delivered = r.delivered /\ after.acked
      /\ after.cancelled = r.cancelled /\ after.qty = r.qty /\ after.settled = r.settled
  BY DEF Row
<1> HIDE DEF after
<1>2. Cancelled(after) = Cancelled(r) /\ Active(after) = Active(r)
  BY <1>1 DEF Cancelled, Active
<1>3. StatusFits(after) /\ (InReceiveQueue(r) => InReceiveQueue(after))
  BY <1>1, <1>2 DEF Sound, StatusFits, InReceiveQueue, HasActiveFulfillment,
                    SupplierRemaining
<1>4. Shown(after) \/ Over(after)
  <2>1. CASE r.status \in {"Zrealizowane", "Anulowane", "Nowe"}
    BY <1>1, <2>1 DEF Shown, Over
  <2>2. CASE r.status \notin {"Zrealizowane", "Anulowane", "Nowe"}
    <3>1. InReceiveQueue(r)
      BY <2>2 DEF Sound, Shown, Over, AwaitsPickup
    <3> QED
      BY <1>3, <3>1 DEF Shown
  <2> QED
    BY <2>1, <2>2
<1>5. Sound(after)
  BY <1>1, <1>3, <1>4 DEF Sound
<1> QED
  BY <1>5 DEF after

\* What the salesperson can withdraw from: before the order, on its way, on stock.
LEMMA CancelFacts ==
  ASSUME NEW r \in Row, Sound(r), NEW n \in 1 .. Ordered, n <= MaxCancel(r)
  PROVE  /\ ~r.acked
         /\ Cancelled(r) + n \in 1 .. Ordered
         /\ \/ /\ CancelPhase(r) = "before_order" /\ r.status = "Nowe"
               /\ r.delivered = 0 /\ ~r.settled
            \/ /\ CancelPhase(r) = "on_stock" /\ r.status = "Zrealizowane"
               /\ r.delivered > 0 /\ r.delivered >= Ordered - Cancelled(r)
            \/ /\ CancelPhase(r) = "on_stock" /\ r.status = "Czesciowo_zrealizowane"
               /\ r.delivered > 0 /\ ~r.settled
            \/ /\ CancelPhase(r) = "in_transit" /\ r.status = "Zamowione"
               /\ r.delivered = 0 /\ ~r.settled
<1>1. MaxCancel(r) >= 1 /\ CancelPhase(r) # "none"
  <2>1. MaxCancel(r) \in 0 .. Ordered
    BY QuantityTypes DEF MaxCancel
  <2>2. MaxCancel(r) >= 1
    BY <2>1
  <2> QED
    BY <2>2 DEF MaxCancel
<1>2. ~r.acked /\ r.status # "Anulowane" /\ r.acked \in BOOLEAN
  BY <1>1 DEF CancelPhase, Row
<1>3. /\ Cancelled(r) \in 0 .. Ordered /\ r.delivered \in 0 .. Ordered
      /\ r.status \in Statuses
  BY QuantityTypes DEF Row
<1>4. Shown(r)
  BY <1>2 DEF Sound, Over
<1>5. r.status = "Zamowione" \/ r.status = "Czesciowo_zrealizowane" => ~r.settled
  BY <1>2, <1>4 DEF Sound, Shown, InReceiveQueue, AwaitsPickup
<1>6. CASE r.status = "Nowe"
  <2>1. CancelPhase(r) = "before_order"
    BY <1>1, <1>6 DEF CancelPhase
  <2>2. MaxCancel(r) = NonNegative(Ordered - r.delivered - Cancelled(r))
    BY <2>1 DEF MaxCancel, AtSupplier
  <2>3. r.delivered = 0 /\ ~r.settled
    BY <1>6 DEF Sound, StatusFits
  <2>4. Cancelled(r) + n \in 1 .. Ordered
    BY <1>3, <2>2, <2>3 DEF NonNegative
  <2> QED
    BY <1>2, <1>6, <2>1, <2>3, <2>4
<1>7. CASE r.status = "Zrealizowane"
  <2>1. CancelPhase(r) = "on_stock"
    BY <1>1, <1>7 DEF CancelPhase
  <2>2. MaxCancel(r) = NonNegative(Ordered - Cancelled(r))
    BY <2>1 DEF MaxCancel, Active
  <2>3. r.delivered > 0 /\ r.delivered >= Ordered - Cancelled(r)
    BY <1>3, <1>7 DEF Sound, StatusFits, Active, NonNegative
  <2>4. Cancelled(r) + n \in 1 .. Ordered
    BY <1>3, <2>2 DEF NonNegative
  <2> QED
    BY <1>2, <1>7, <2>1, <2>3, <2>4
<1>8. CASE r.status = "Czesciowo_zrealizowane"
  <2>1. r.delivered > 0
    BY <1>3, <1>8, QuantityTypes DEF Sound, StatusFits
  <2>2. CancelPhase(r) = "on_stock"
    BY <1>1, <1>8, <2>1 DEF CancelPhase, IsOnStock
  <2>3. MaxCancel(r) = NonNegative(Ordered - Cancelled(r))
    BY <2>2 DEF MaxCancel, Active
  <2>4. Cancelled(r) + n \in 1 .. Ordered
    BY <1>3, <2>3 DEF NonNegative
  <2> QED
    BY <1>2, <1>5, <1>8, <2>1, <2>2, <2>4
<1>9. CASE r.status = "Zamowione"
  <2>1. r.delivered = 0
    BY <1>9 DEF Sound, StatusFits
  <2>2. CancelPhase(r) = "in_transit"
    BY <1>1, <1>9, <2>1 DEF CancelPhase, IsOnStock
  <2>3. MaxCancel(r) = NonNegative(Ordered - r.delivered - Cancelled(r))
    BY <2>2 DEF MaxCancel, AtSupplier
  <2>4. Cancelled(r) + n \in 1 .. Ordered
    BY <1>3, <2>1, <2>3 DEF NonNegative
  <2> QED
    BY <1>2, <1>5, <1>9, <2>1, <2>2, <2>4
<1> QED
  BY <1>2, <1>3, <1>6, <1>7, <1>8, <1>9 DEF Statuses

\* The row with n more pieces withdrawn, column by column.
LEMMA WithCancelledFields ==
  ASSUME NEW r \in Row, Sound(r), NEW n \in 1 .. Ordered, n <= MaxCancel(r)
  PROVE  LET after == WithCancelled(r, n)
             total == Cancelled(r) + n
         IN /\ after.cancelled = TRUE /\ after.delivered = r.delivered
            /\ after.status = PlannedStatus(r, n)
            /\ after.qty = (IF total = Ordered THEN 0 ELSE total)
            /\ after.settled = (r.settled \/ SettlesItself(r, n))
            /\ ~KeepsLine(r, n) => after.acked
            /\ after.acked => \/ ~KeepsLine(r, n)
                              \/ NoticePending([after EXCEPT !.acked = FALSE])
<1> DEFINE total == Cancelled(r) + n
           after == [r EXCEPT !.cancelled = TRUE, !.phase = CancelPhase(r),
                              !.qty = StoredQuantity(total),
                              !.status = PlannedStatus(r, n)]
<1>1. total \in 1 .. Ordered /\ ~r.acked /\ r.acked \in BOOLEAN
  BY CancelFacts DEF Row
<1>2. StoredQuantity(total) = (IF total = Ordered THEN 0 ELSE total)
  BY <1>1 DEF StoredQuantity
<1>3. WithCancelled(r, n) =
        [after EXCEPT !.acked = ~KeepsLine(r, n) \/ NoticePending(after),
                      !.disposed = @ \/ SettlesItself(r, n),
                      !.settled = @ \/ SettlesItself(r, n)]
  BY DEF WithCancelled
<1>4. /\ after.acked = FALSE /\ after.delivered = r.delivered
      /\ after.status = PlannedStatus(r, n) /\ after.cancelled = TRUE
      /\ after.qty = StoredQuantity(total) /\ after.settled = r.settled
  BY <1>1 DEF Row
<1>5. NoticePending(after) <=> NoticePending([WithCancelled(r, n) EXCEPT !.acked = FALSE])
  <2>1. LET b == [WithCancelled(r, n) EXCEPT !.acked = FALSE]
        IN /\ b.acked = after.acked /\ b.delivered = after.delivered
           /\ b.status = after.status /\ b.cancelled = after.cancelled
           /\ b.qty = after.qty /\ b.phase = after.phase
    BY <1>1, <1>3 DEF Row
  <2> HIDE DEF after
  <2> QED
    BY <2>1 DEF NoticePending, PickupAfterPartialCancel, HasActiveFulfillment,
                SupplierRemaining, Active, Cancelled
<1> QED
  BY <1>2, <1>3, <1>4, <1>5 DEF Row

\* A withdrawal, of a part or of all that is left.
LEMMA CancelSound ==
  ASSUME NEW r \in Row, Sound(r), NEW n \in 1 .. Ordered, n <= MaxCancel(r)
  PROVE  Sound(WithCancelled(r, n))
<1> DEFINE after == WithCancelled(r, n)
           total == Cancelled(r) + n
<1>1. /\ after.cancelled = TRUE /\ after.delivered = r.delivered
      /\ after.status = PlannedStatus(r, n)
      /\ after.qty = (IF total = Ordered THEN 0 ELSE total)
      /\ after.settled = (r.settled \/ SettlesItself(r, n))
      /\ ~KeepsLine(r, n) => after.acked
      /\ after.acked => \/ ~KeepsLine(r, n)
                        \/ NoticePending([after EXCEPT !.acked = FALSE])
  BY WithCancelledFields
<1>2. total \in 1 .. Ordered /\ r.delivered \in 0 .. Ordered /\ r.settled \in BOOLEAN
  BY CancelFacts DEF Row
<1> DEFINE back == [after EXCEPT !.acked = FALSE]
<1>3. after \in Row /\ back.acked = FALSE /\ back.status = after.status /\ back.cancelled = after.cancelled
      /\ back.qty = after.qty /\ back.delivered = after.delivered
      /\ after.acked \in BOOLEAN
  BY <1>2, WithCancelledType DEF Row
<1> HIDE DEF after, total, back
\* With a part of the order left, nothing but that part matters.
<1>4. ASSUME total < Ordered
      PROVE  /\ Cancelled(after) = total /\ Active(after) = Ordered - total
             /\ Cancelled(back) = total /\ Active(back) = Ordered - total
  BY <1>1, <1>2, <1>3, <1>4 DEF Cancelled, Active, NonNegative
<1>5. CASE CancelPhase(r) = "before_order"
  <2>1. r.status = "Nowe" /\ r.delivered = 0 /\ ~r.settled
    BY <1>5, CancelFacts
  <2>2. ~SettlesItself(r, n)
    BY <1>5 DEF SettlesItself
  <2>3. CASE total = Ordered
    <3>1. after.status = "Anulowane"
      BY <1>1, <1>5, <2>3 DEF PlannedStatus, PlansStatus, total
    <3> QED
      BY <1>1, <1>3, <2>1, <2>2, <3>1 DEF Sound, StatusFits, Over, after
  <2>4. CASE total < Ordered
    <3>1. after.status = "Nowe"
      BY <1>1, <1>2, <1>5, <2>1, <2>4 DEF PlannedStatus, PlansStatus, total
    <3> QED
      BY <1>1, <1>2, <2>1, <2>2, <2>4, <3>1 DEF Sound, StatusFits, Shown, after
  <2> QED
    BY <1>2, <2>3, <2>4
<1>6. CASE CancelPhase(r) # "before_order" /\ total = Ordered
  <2>1. ~KeepsLine(r, n)
    BY <1>6 DEF KeepsLine, total
  <2>2. after.settled /\ after.acked
    BY <1>1, <1>6, <2>1, CancelFacts DEF SettlesItself
  <2>3. Active(after) <= after.delivered \/ after.status = "Anulowane"
    BY <1>1, <1>2, <1>6 DEF Active, Cancelled, NonNegative
  <2>4. after.status = IF r.delivered > 0 THEN "Zrealizowane" ELSE r.status
    BY <1>1, <1>2, <1>6 DEF PlannedStatus, PlansStatus, total
  <2>5. after.status # "Nowe" /\ StatusFits(after)
    <3>1. CASE r.delivered > 0
      BY <1>1, <1>2, <2>3, <2>4, <3>1 DEF StatusFits
    <3>2. CASE r.delivered = 0
      BY <1>1, <1>2, <1>6, <2>4, <3>2, CancelFacts DEF StatusFits
    <3> QED
      BY <1>2, <3>1, <3>2
  <2> QED
    BY <1>1, <2>2, <2>5 DEF Sound, Over, after
<1>7. CASE CancelPhase(r) # "before_order" /\ total < Ordered
  <2>1. CASE r.delivered > 0 /\ r.delivered >= Ordered - total
    <3>1. after.status = "Zrealizowane" /\ KeepsLine(r, n)
      BY <1>1, <1>7, <2>1 DEF PlannedStatus, PlansStatus, KeepsLine, total
    <3>2. PickupAfterPartialCancel(back)
      BY <1>1, <1>2, <1>3, <1>4, <1>7, <2>1, <3>1 DEF PickupAfterPartialCancel
    <3>3. ~after.acked
      BY <1>1, <3>1, <3>2 DEF NoticePending, back
    <3>4. AwaitsPickup(after)
      BY <1>1, <1>2, <1>4, <1>7, <2>1, <3>1, <3>3
         DEF AwaitsPickup, PickupAfterPartialCancel
    <3>5. StatusFits(after)
      BY <1>1, <1>2, <1>4, <1>7, <2>1, <3>1 DEF StatusFits
    <3> QED
      BY <1>1, <3>1, <3>4, <3>5 DEF Sound, Shown, after
  <2>2. CASE ~(r.delivered > 0 /\ r.delivered >= Ordered - total)
    <3>1. /\ r.status \in {"Zamowione", "Czesciowo_zrealizowane"} /\ ~r.settled
          /\ r.status = "Zamowione" => r.delivered = 0
          /\ r.status = "Czesciowo_zrealizowane" => r.delivered > 0
      <4>1. Cancelled(r) \in 0 .. Ordered
        BY QuantityTypes
      <4>2. ~(r.delivered > 0 /\ r.delivered >= Ordered - Cancelled(r))
        BY <1>2, <2>2, <4>1 DEF total
      <4> QED
        BY <1>7, <4>2, CancelFacts
    <3>2. r.delivered < Ordered - total
      BY <1>2, <1>7, <2>2
    <3>3. after.status = r.status /\ KeepsLine(r, n) /\ ~SettlesItself(r, n)
      BY <1>1, <1>2, <1>7, <2>2, <3>2
         DEF PlannedStatus, PlansStatus, KeepsLine, SettlesItself, total
    <3>4. InReceiveQueue(after)
      BY <1>1, <1>2, <1>4, <1>7, <3>1, <3>2, <3>3
         DEF InReceiveQueue, HasActiveFulfillment, SupplierRemaining, NonNegative
    <3>5. StatusFits(after)
      BY <1>1, <1>2, <1>4, <1>7, <3>1, <3>2, <3>3 DEF StatusFits
    <3> QED
      BY <1>1, <3>1, <3>3, <3>4, <3>5 DEF Sound, Shown, after
  <2> QED
    BY <2>1, <2>2
<1> QED
  BY <1>2, <1>5, <1>6, <1>7

-----------------------------------------------------------------------------
(* What updates do to a row.                                               *)

LEMMA RowEqual ==
  ASSUME NEW r \in Row, NEW s \in Row,
         r.status = s.status, r.delivered = s.delivered, r.cancelled = s.cancelled,
         r.qty = s.qty, r.phase = s.phase, r.acked = s.acked,
         r.disposed = s.disposed, r.settled = s.settled
  PROVE  r = s
BY DEF Row

\* The columns of a row after the update Set(fields, s).
LEMMA MergeSet ==
  ASSUME NEW r \in Row, NEW s \in Row, NEW fields \in SUBSET Fields
  PROVE  LET m == Merge(r, Set(fields, s))
         IN /\ m \in Row
            /\ m.status = IF "status" \in fields THEN s.status ELSE r.status
            /\ m.delivered = IF "delivered" \in fields THEN s.delivered ELSE r.delivered
            /\ m.cancelled = IF "cancelled" \in fields THEN s.cancelled ELSE r.cancelled
            /\ m.qty = IF "qty" \in fields THEN s.qty ELSE r.qty
            /\ m.phase = IF "phase" \in fields THEN s.phase ELSE r.phase
            /\ m.acked = IF "acked" \in fields THEN s.acked ELSE r.acked
            /\ m.disposed = IF "disposed" \in fields THEN s.disposed ELSE r.disposed
            /\ m.settled = IF "settled" \in fields THEN s.settled ELSE r.settled
<1> DEFINE u == Set(fields, s)
<1>1. u \in Update /\ Merge(r, u) \in Row
  BY SetType, MergeType
<1>2. /\ u.fields = fields
      /\ "status" \in fields => u.to.status = s.status
      /\ "delivered" \in fields => u.to.delivered = s.delivered
      /\ "cancelled" \in fields => u.to.cancelled = s.cancelled
      /\ "qty" \in fields => u.to.qty = s.qty
      /\ "phase" \in fields => u.to.phase = s.phase
      /\ "acked" \in fields => u.to.acked = s.acked
      /\ "disposed" \in fields => u.to.disposed = s.disposed
      /\ "settled" \in fields => u.to.settled = s.settled
  BY SetValues
<1> HIDE DEF u
<1> QED
  BY <1>1, <1>2 DEF Merge, u

LEMMA MergeStatus ==
  ASSUME NEW r \in Row, NEW u \in Update, u.fields = {"status"}
  PROVE  Merge(r, u) = [r EXCEPT !.status = u.to.status]
<1>1. Merge(r, u) \in Row /\ [r EXCEPT !.status = u.to.status] \in Row
  BY MergeType DEF Row, Update
<1> QED
  BY <1>1, RowEqual DEF Merge, Row

\* An update with the values of the row changes nothing.
LEMMA MergeSelf ==
  ASSUME NEW r \in Row, NEW fields \in SUBSET Fields
  PROVE  Merge(r, Set(fields, r)) = r
BY MergeSet, RowEqual

\* An update hides an earlier one that sets no other columns.
LEMMA MergeHides ==
  ASSUME NEW r \in Row, NEW w \in Update, NEW u \in Update, w.fields \subseteq u.fields
  PROVE  Merge(Merge(r, w), u) = Merge(r, u)
BY DEF Merge

LEMMA MergeDelivered ==
  ASSUME NEW r \in Row, NEW n \in 0 .. Ordered
  PROVE  Merge(r, Set(DeliveryFields(r, n), WithDelivered(r, n))) = WithDelivered(r, n)
<1> DEFINE after == WithDelivered(r, n)
           fields == DeliveryFields(r, n)
<1>1. after \in Row /\ fields \in SUBSET Fields
  BY WithDeliveredType
<1>2. /\ after.cancelled = r.cancelled /\ after.qty = r.qty /\ after.phase = r.phase
      /\ after.disposed = r.disposed /\ after.settled = r.settled
      /\ r.acked \in BOOLEAN /\ after.acked => r.acked
  BY DEF WithDelivered, Row
<1>3. /\ "status" \in fields /\ "delivered" \in fields
      /\ "acked" \in fields <=> r.acked /\ ~after.acked
      /\ fields \subseteq {"status", "delivered", "acked"}
  BY DEF DeliveryFields
<1> HIDE DEF after, fields
<1> QED
  BY <1>1, <1>2, <1>3, MergeSet, RowEqual DEF Row, after, fields

LEMMA MergeCancelled ==
  ASSUME NEW r \in Row, NEW n \in 1 .. Ordered, n <= MaxCancel(r)
  PROVE  Merge(r, Set(CancelFields(r, n), WithCancelled(r, n))) = WithCancelled(r, n)
<1> DEFINE after == WithCancelled(r, n)
           fields == CancelFields(r, n)
<1>1. after \in Row /\ fields \in SUBSET Fields /\ ~r.acked /\ r.acked \in BOOLEAN
  BY WithCancelledType, CancelPhaseType DEF Row
<1>2. /\ after.delivered = r.delivered
      /\ "status" \notin fields => after.status = r.status
      /\ "acked" \notin fields => ~after.acked
      /\ ("disposed" \in fields <=> SettlesItself(r, n)) /\ ("settled" \in fields <=> SettlesItself(r, n))
      /\ {"cancelled", "phase", "qty"} \subseteq fields
  BY DEF WithCancelled, CancelFields, PlannedStatus, Row
<1>3. ~SettlesItself(r, n) => after.disposed = r.disposed /\ after.settled = r.settled
  BY DEF WithCancelled, Row
<1> HIDE DEF after, fields
<1> QED
  BY <1>1, <1>2, <1>3, MergeSet, RowEqual DEF Row, after, fields

AckUpdate == Set({"acked"}, [NewRow EXCEPT !.acked = TRUE])
DecideUpdate == Set({"disposed"}, [NewRow EXCEPT !.disposed = TRUE])

LEMMA MergeAck ==
  ASSUME NEW r \in Row
  PROVE  AckUpdate \in Update /\ AckUpdate.fields = {"acked"}
         /\ Merge(r, AckUpdate) = [r EXCEPT !.acked = TRUE]
<1>1. [NewRow EXCEPT !.acked = TRUE] \in Row
  BY NewRowType DEF Row
<1>2. AckUpdate \in Update
  BY <1>1, SetType DEF AckUpdate, Fields
<1>3. Merge(r, AckUpdate) = [r EXCEPT !.acked = TRUE]
  <2>1. [r EXCEPT !.acked = TRUE] \in Row
    BY DEF Row
  <2> QED
    BY <1>1, <2>1, MergeSet, RowEqual DEF AckUpdate, Fields, Row, NewRow
<1> QED
  BY <1>1, <1>2, <1>3, SetValues DEF AckUpdate, Fields

LEMMA MergeDecide ==
  ASSUME NEW r \in Row
  PROVE  DecideUpdate \in Update /\ Merge(r, DecideUpdate) = [r EXCEPT !.disposed = TRUE]
<1>1. [NewRow EXCEPT !.disposed = TRUE] \in Row
  BY NewRowType DEF Row
<1>2. DecideUpdate \in Update
  BY <1>1, SetType DEF DecideUpdate, Fields
<1>3. Merge(r, DecideUpdate) = [r EXCEPT !.disposed = TRUE]
  <2>1. [r EXCEPT !.disposed = TRUE] \in Row
    BY DEF Row
  <2> QED
    BY <1>1, <2>1, MergeSet, RowEqual DEF DecideUpdate, Fields, Row, NewRow
<1> QED
  BY <1>1, <1>2, <1>3, SetValues DEF DecideUpdate, Fields

LEMMA MergeRevert ==
  ASSUME NEW r \in Row
  PROVE  /\ RevertUpdate \in Update
         /\ Merge(r, RevertUpdate) = Reverted(r)
<1>1. [NewRow EXCEPT !.status = "Zamowione"] \in Row
  BY NewRowType DEF Row, Statuses
<1>2. RevertUpdate \in Update
  BY <1>1, SetType DEF RevertUpdate, Fields
<1> DEFINE from == [NewRow EXCEPT !.status = "Zamowione"]
           to == Reverted(r)
<1>3. from.status = "Zamowione" /\ from.delivered = 0 /\ from.acked = FALSE
  BY DEF NewRow
<1>4. /\ to.status = "Zamowione" /\ to.delivered = 0 /\ to.acked = FALSE
      /\ to.cancelled = r.cancelled /\ to.qty = r.qty /\ to.phase = r.phase
      /\ to.disposed = r.disposed /\ to.settled = r.settled
      /\ 0 \in 0 .. Ordered
  BY DEF Row, Reverted
<1>5. to \in Row
  BY <1>4 DEF Row, Statuses, Reverted
<1>6. from \in Row /\ RevertUpdate = Set({"status", "delivered", "acked"}, from)
  BY <1>1 DEF RevertUpdate
<1> HIDE DEF from, to
<1>7. Merge(r, RevertUpdate) = to
  <2> DEFINE m == Merge(r, RevertUpdate)
  <2>1. {"status", "delivered", "acked"} \in SUBSET Fields
    BY DEF Fields
  <2>2. /\ m \in Row /\ m.status = from.status /\ m.delivered = from.delivered
        /\ m.acked = from.acked /\ m.cancelled = r.cancelled /\ m.qty = r.qty
        /\ m.phase = r.phase /\ m.disposed = r.disposed /\ m.settled = r.settled
    BY <1>6, <2>1, MergeSet
  <2> HIDE DEF m
  <2>3. m = to
    BY <1>3, <1>4, <1>5, <2>2, RowEqual
  <2> QED
    BY <2>3 DEF m
<1> QED
  BY <1>2, <1>7 DEF to

LEMMA MergeRollback ==
  ASSUME NEW r \in Row, NEW status \in Statuses
  PROVE  /\ RollbackUpdate(status) \in Update /\ RollbackUpdate(status).fields = {"status"}
         /\ Merge(r, RollbackUpdate(status)) = [r EXCEPT !.status = status]
<1>1. [NewRow EXCEPT !.status = status] \in Row
  BY NewRowType DEF Row
<1>2. RollbackUpdate(status) \in Update /\ RollbackUpdate(status).fields = {"status"}
      /\ RollbackUpdate(status).to.status = status
  BY <1>1, SetType, SetValues DEF RollbackUpdate, Fields, Row, NewRow
<1> QED
  BY <1>2, MergeStatus

\* A decision on withdrawn goods is no matter of Sound.
LEMMA DecideSound ==
  ASSUME NEW r \in Row, Sound(r)
  PROVE  Sound([r EXCEPT !.disposed = TRUE])
<1> DEFINE after == [r EXCEPT !.disposed = TRUE]
<1>1. /\ after.status = r.status /\ after.delivered = r.delivered /\ after.acked = r.acked
      /\ after.cancelled = r.cancelled /\ after.qty = r.qty /\ after.settled = r.settled
  BY DEF Row
<1> HIDE DEF after
<1>2. Cancelled(after) = Cancelled(r) /\ Active(after) = Active(r)
  BY <1>1 DEF Cancelled, Active
<1>3. Sound(after)
  BY <1>1, <1>2 DEF Sound, StatusFits, Shown, Over, InReceiveQueue, AwaitsPickup,
       PickupAfterPartialCancel, HasActiveFulfillment, SupplierRemaining
<1> QED
  BY <1>3 DEF after

LEMMA MergeSettle ==
  ASSUME NEW r \in Row
  PROVE  SettleUpdate \in Update /\ Merge(r, SettleUpdate) = [r EXCEPT !.settled = TRUE]
<1>1. [NewRow EXCEPT !.settled = TRUE] \in Row
  BY NewRowType DEF Row
<1>2. SettleUpdate \in Update
  BY <1>1, SetType DEF SettleUpdate, Fields
<1>3. Merge(r, SettleUpdate) = [r EXCEPT !.settled = TRUE]
  <2>1. [r EXCEPT !.settled = TRUE] \in Row
    BY DEF Row
  <2> QED
    BY <1>1, <2>1, MergeSet, RowEqual DEF SettleUpdate, Fields, Row, NewRow
<1> QED
  BY <1>2, <1>3

\* A settlement of goods that nobody waits for: the row was in no receive queue, and
\* stays on the page of pickups if it was there.
LEMMA SettleSound ==
  ASSUME NEW r \in Row, Sound(r), Settleable(r)
  PROVE  Sound([r EXCEPT !.settled = TRUE])
<1> DEFINE after == [r EXCEPT !.settled = TRUE]
<1>1. /\ after.status = r.status /\ after.delivered = r.delivered /\ after.acked = r.acked
      /\ after.cancelled = r.cancelled /\ after.qty = r.qty /\ after.settled = TRUE
  BY DEF Row
<1> HIDE DEF after
<1>2. Cancelled(after) = Cancelled(r) /\ Active(after) = Active(r)
  BY <1>1 DEF Cancelled, Active
<1>3. StatusFits(after) /\ (AwaitsPickup(r) => AwaitsPickup(after))
  BY <1>1, <1>2 DEF Sound, StatusFits, AwaitsPickup, PickupAfterPartialCancel
<1>4. r.status # "Nowe" /\ ~InReceiveQueue(r) /\ r.cancelled
  <2>1. r.cancelled /\ ~HasActiveFulfillment(r)
    BY DEF Settleable
  <2>2. ~InReceiveQueue(r)
    BY <2>1 DEF InReceiveQueue
  <2>3. ASSUME r.status = "Nowe" PROVE FALSE
    <3>1. r.qty \in 1 .. Ordered - 1 /\ r.delivered = 0
      BY <2>1, <2>3 DEF Sound, StatusFits, Row
    <3> QED
      BY <2>1, <3>1 DEF HasActiveFulfillment, SupplierRemaining, Active, Cancelled,
                        NonNegative
  <2> QED
    BY <2>1, <2>2, <2>3
<1>5. Shown(after) \/ Over(after)
  BY <1>1, <1>3, <1>4 DEF Sound, Shown, Over
<1>6. Sound(after)
  BY <1>1, <1>3, <1>4, <1>5 DEF Sound
<1> QED
  BY <1>6 DEF after

-----------------------------------------------------------------------------
(* What requests know of the row.                                          *)

Planned(t, op) == t.op = op /\ t.step = "planned"

\* The updates a request carries, whatever has become of the row.
Formed(t) ==
  /\ t.op = "board" /\ t.step # "idle" => t.undo.fields = {"status"}
  /\ t.op = "board" /\ t.step \in {"planned", "placed"} =>
       t.write.fields = {"status"} /\ t.write.to.status \in {"Zamowione", "Anulowane"}
  /\ t.op = "receive" /\ t.step # "page" => t.undo.fields = DeliverySnapshot
  /\ t.op = "revert" => t.write = RevertUpdate
  /\ t.op = "sales" => t.undo.fields = SalesSnapshot
  /\ t.op \in {"pickup", "dismiss"} => t.undo.fields = {"acked"}
  /\ t.op \in {"pickup", "dismiss", "shelf"} /\ t.step = "planned" => t.write = AckUpdate
  /\ t.op = "decide" => t.write = DecideUpdate

\* What a request that has read row r and knows that it is still so goes by.
Expects(t, r) ==
  /\ t.op = "board" /\ t.step \in {"checked", "planned"} => r.status = "Nowe"
  /\ t.op = "board" /\ t.step \in {"planned", "placed"} => t.before = "Nowe"
  /\ t.op = "board" /\ t.step = "placed" => r.status = t.write.to.status
  /\ Planned(t, "receive") =>
       \E n \in 0 .. Ordered :
         /\ ReceiveLimit(r) > 0 => n <= ReceiveLimit(r)
         /\ t.write = Set(DeliveryFields(r, n), WithDelivered(r, n))
  /\ Planned(t, "sales") =>
       \E n \in 1 .. Ordered :
         n <= MaxCancel(r) /\ t.write = Set(CancelFields(r, n), WithCancelled(r, n))
  /\ Planned(t, "pickup") => r.status = "Zrealizowane"
  /\ Planned(t, "dismiss") => r.status = "Anulowane" \/ NoticePending(r)
  /\ Planned(t, "shelf") => OnShelf(r)
  /\ Planned(t, "settle") => Settleable(r)

Knows(t, known, r) ==
  /\ "write" \in known => Expects(t, r)
  /\ "page" \in known /\ t.op = "receive" => InReceiveQueue(r)
  /\ "undo" \in known /\ t.op = "receive" /\ t.step \in {"captured", "planned"}
       => Merge(r, t.undo) = r

\* An undo, or a rollback, that is still possible leads back to a sound row.
Undoable(t, known, r) ==
  /\ "undo" \in known => Sound(Merge(r, t.undo))
  /\ "write" \in known /\ t.op = "board" /\ t.step = "placed"
       => Sound(Merge(r, RollbackUpdate(t.before)))

FormInv == \A q \in Requests : Formed(req[q])
KnowInv == \A q \in Requests : Knows(req[q], fresh[q], row)
SoundInv ==
  ~overlapped => Sound(row) /\ \A q \in Requests : Undoable(req[q], fresh[q], row)

KnowledgeInv == FormInv /\ KnowInv /\ SoundInv

\* A request that learns something: only its own knowledge matters.
LEMMA LearnKnowledge ==
  ASSUME TypeOK, KnowledgeInv, NEW q \in Requests, NEW new, NEW known,
         Learn(q, new, known), Formed(new), Knows(new, known, row),
         ~overlapped => Undoable(new, known, row)
  PROVE  KnowledgeInv'
<1>1. /\ row' = row /\ overlapped' = overlapped
      /\ \A p \in Requests : /\ req'[p] = IF p = q THEN new ELSE req[p]
                             /\ fresh'[p] = IF p = q THEN known ELSE fresh[p]
  BY DEF Learn, TypeOK
<1>2. FormInv'
  BY <1>1 DEF KnowledgeInv, FormInv
<1>3. KnowInv'
  BY <1>1 DEF KnowledgeInv, KnowInv
<1>4. SoundInv'
  BY <1>1 DEF KnowledgeInv, SoundInv
<1> QED
  BY <1>2, <1>3, <1>4 DEF KnowledgeInv

\* A request that writes: the others know nothing of the row, or nothing has changed.
\* Its own update is sound if it knows what it goes by, or changes nothing.
LEMMA SendKnowledge ==
  ASSUME TypeOK, KnowledgeInv, NEW q \in Requests, NEW u \in Update, NEW basis, NEW kept,
         NEW new, Send(q, u, basis, kept), req' = [req EXCEPT ![q] = new],
         Formed(new), Knows(new, fresh[q] \cap kept, Merge(row, u)),
         ~overlapped /\ (basis \subseteq fresh[q] \/ Merge(row, u) = row) =>
           /\ Sound(Merge(row, u))
           /\ Undoable(new, fresh[q] \cap kept, Merge(row, u))
  PROVE  KnowledgeInv'
<1>1. /\ row' = Merge(row, u)
      /\ ~overlapped' => ~overlapped /\ (basis \subseteq fresh[q] \/ Merge(row, u) = row)
      /\ \A p \in Requests :
           /\ req'[p] = IF p = q THEN new ELSE req[p]
           /\ p = q => fresh'[p] = fresh[q] \cap kept
           /\ p # q => fresh'[p] = {} \/ (fresh'[p] = fresh[p] /\ row' = row)
  BY DEF Send, TypeOK
<1>2. FormInv'
  BY <1>1 DEF KnowledgeInv, FormInv
<1>3. KnowInv'
  <2> SUFFICES ASSUME NEW p \in Requests PROVE Knows(req'[p], fresh'[p], row')
    BY DEF KnowInv
  <2>1. CASE p = q
    BY <1>1, <2>1
  <2>2. CASE p # q /\ fresh'[p] = {}
    BY <2>2 DEF Knows
  <2>3. CASE p # q /\ fresh'[p] = fresh[p] /\ row' = row
    BY <1>1, <2>3 DEF KnowledgeInv, KnowInv
  <2> QED
    BY <1>1, <2>1, <2>2, <2>3
<1>4. SoundInv'
  <2> SUFFICES ASSUME ~overlapped', NEW p \in Requests
               PROVE  Sound(row') /\ Undoable(req'[p], fresh'[p], row')
    BY DEF SoundInv
  <2>1. ~overlapped /\ (basis \subseteq fresh[q] \/ Merge(row, u) = row)
    BY <1>1
  <2>2. Sound(row') /\ Undoable(new, fresh'[q], row')
    BY <1>1, <2>1
  <2>3. CASE p = q
    BY <1>1, <2>2, <2>3
  <2>4. CASE p # q /\ fresh'[p] = {}
    BY <2>2, <2>4 DEF Undoable
  <2>5. CASE p # q /\ fresh'[p] = fresh[p] /\ row' = row
    BY <1>1, <2>1, <2>2, <2>5 DEF KnowledgeInv, SoundInv
  <2> QED
    BY <1>1, <2>3, <2>4, <2>5
<1> QED
  BY <1>2, <1>3, <1>4 DEF KnowledgeInv

\* An idle request knows nothing that matters.
LEMMA IdleKnowledge ==
  ASSUME NEW r \in Row, NEW known
  PROVE  Formed(Idle) /\ Knows(Idle, known, r) /\ (Sound(r) => Undoable(Idle, known, r))
<1>1. Idle.op = "board" /\ Idle.step = "idle" /\ Idle.undo = Nothing
  BY DEF Idle
<1>2. Merge(r, Nothing) = r
  BY NewRowType, MergeSet, RowEqual DEF Nothing, Fields
<1> QED
  BY <1>1, <1>2 DEF Formed, Knows, Expects, Planned, Undoable

\* A request that ends without having written.
LEMMA EndKnowledge ==
  ASSUME TypeOK, KnowledgeInv, NEW q \in Requests, End(q),
         row' = row, overlapped' = overlapped,
         \A p \in Requests : fresh'[p] = fresh[p] \/ fresh'[p] = {}
  PROVE  KnowledgeInv'
<1>1. \A p \in Requests : req'[p] = IF p = q THEN Idle ELSE req[p]
  BY DEF End, TypeOK
<1>2. /\ Formed(Idle) /\ \A known : Knows(Idle, known, row)
      /\ \A known : Sound(row) => Undoable(Idle, known, row)
  BY IdleKnowledge DEF TypeOK
<1>3. FormInv'
  BY <1>1, <1>2 DEF KnowledgeInv, FormInv
<1>4. KnowInv'
  <2> SUFFICES ASSUME NEW p \in Requests PROVE Knows(req'[p], fresh'[p], row')
    BY DEF KnowInv
  <2>1. Knows(req[p], fresh[p], row) /\ Knows(req[p], {}, row)
    BY DEF KnowledgeInv, KnowInv, Knows
  <2> QED
    BY <1>1, <1>2, <2>1
<1>5. SoundInv'
  <2>1. ASSUME ~overlapped, NEW p \in Requests
        PROVE  Undoable(req'[p], fresh'[p], row')
    <3>1. /\ Sound(row) /\ Undoable(req[p], fresh[p], row) /\ Undoable(req[p], {}, row)
      BY <2>1 DEF KnowledgeInv, SoundInv, Undoable
    <3> QED
      BY <1>1, <1>2, <3>1
  <2> QED
    BY <2>1 DEF KnowledgeInv, SoundInv
<1> QED
  BY <1>3, <1>4, <1>5 DEF KnowledgeInv

\* The undo of a receipt over the receipt: the acknowledgement is not restored.
LEMMA MergeReceiptUndo ==
  ASSUME NEW r \in Row, NEW u \in Update, u.fields = DeliverySnapshot, Merge(r, u) = r,
         NEW n \in 0 .. Ordered
  PROVE  Merge(WithDelivered(r, n), u) = [r EXCEPT !.acked = WithDelivered(r, n).acked]
<1> DEFINE after == WithDelivered(r, n)
           m == Merge(after, u)
           e == [r EXCEPT !.acked = after.acked]
<1>1. after \in Row
  BY WithDeliveredType
<1>2. u.to.status = r.status /\ u.to.delivered = r.delivered
  BY DEF Merge, DeliverySnapshot
<1>3. /\ after.cancelled = r.cancelled /\ after.qty = r.qty /\ after.phase = r.phase
      /\ after.disposed = r.disposed /\ after.settled = r.settled
  BY DEF WithDelivered, Row
<1> HIDE DEF after
<1>4. m \in Row /\ e \in Row
  BY <1>1, MergeType DEF Row
<1>5. /\ m.status = r.status /\ m.delivered = r.delivered /\ m.cancelled = r.cancelled
      /\ m.qty = r.qty /\ m.phase = r.phase /\ m.acked = after.acked
      /\ m.disposed = r.disposed /\ m.settled = r.settled
  BY <1>2, <1>3 DEF Merge, DeliverySnapshot
<1>6. /\ e.status = r.status /\ e.delivered = r.delivered /\ e.cancelled = r.cancelled
      /\ e.qty = r.qty /\ e.phase = r.phase /\ e.acked = after.acked
      /\ e.disposed = r.disposed /\ e.settled = r.settled
  BY DEF Row
<1> HIDE DEF m, e
<1>7. m = e
  BY <1>4, <1>5, <1>6, RowEqual
<1> QED
  BY <1>7 DEF m, e, after

\* The revert of a row that is still as its condition wants it.
LEMMA RevertMerged ==
  ASSUME NEW r \in Row
  PROVE  /\ RevertUpdate \in Update /\ Merge(r, RevertUpdate) \in Row
         /\ Sound(r) /\ Revertible(r) => Sound(Merge(r, RevertUpdate))
<1>1. RevertUpdate \in Update /\ Merge(r, RevertUpdate) = Reverted(r)
  BY MergeRevert
<1>2. Sound(r) /\ Revertible(r) => Sound(Reverted(r))
  BY RevertSound
<1> QED
  BY <1>1, <1>2, MergeType

LEMMA BoardKnowledge ==
  ASSUME TypeOK, KnowledgeInv, NEW q \in Requests, Board(q)
  PROVE  KnowledgeInv'
<1>t. /\ req[q] \in Request /\ req[q].write \in Update /\ req[q].undo \in Update
      /\ row \in Row /\ NewRow \in Row /\ req \in [Requests -> Request]
  BY NewRowType DEF TypeOK, Request
<1>k. /\ Formed(req[q]) /\ Knows(req[q], fresh[q], row)
      /\ ~overlapped => Sound(row) /\ Undoable(req[q], fresh[q], row)
  BY DEF KnowledgeInv, FormInv, KnowInv, SoundInv
<1>1. CASE CaptureBoard(q)
  <2> DEFINE u == Set({"status"}, row)
             new == [Idle EXCEPT !.op = "board", !.step = "captured", !.undo = u]
  <2>1. u.fields = {"status"} /\ Merge(row, u) = row
    BY <1>t, SetValues, MergeSelf DEF Fields
  <2> HIDE DEF u
  <2>2. new.op = "board" /\ new.step = "captured" /\ new.undo = u
    BY DEF Idle
  <2> HIDE DEF new
  <2>3. Formed(new) /\ Knows(new, {"undo"}, row) /\ (~overlapped => Undoable(new, {"undo"}, row))
    BY <1>k, <2>1, <2>2 DEF Formed, Knows, Undoable
  <2> QED
    BY <1>1, <2>3, LearnKnowledge DEF CaptureBoard, new, u
<1>2. CASE CheckBoard(q)
  <2> DEFINE new == [req[q] EXCEPT !.step = "checked"]
             known == fresh[q] \cup {"write"}
  <2>1. new.op = "board" /\ new.step = "checked" /\ new.undo = req[q].undo
    BY <1>t, <1>2 DEF Request, CheckBoard, At
  <2>2. req[q].op = "board" /\ req[q].step = "captured" /\ row.status = "Nowe"
    BY <1>2 DEF CheckBoard, At, Processable
  <2>3. Learn(q, new, known)
    BY <1>2 DEF CheckBoard
  <2> HIDE DEF new
  <2>4. Formed(new) /\ Knows(new, known, row) /\ (~overlapped => Undoable(new, known, row))
    BY <1>k, <2>1, <2>2 DEF Formed, Knows, Expects, Planned, Undoable
  <2> QED
    BY <2>3, <2>4, LearnKnowledge
<1>3. CASE Skip(q)
  <2> DEFINE new == [req[q] EXCEPT !.step = "written"]
  <2>1. new.op = "board" /\ new.step = "written" /\ new.undo = req[q].undo
    BY <1>t, <1>3 DEF Request, Skip, At
  <2>2. req[q].op = "board" /\ req[q].step = "captured" /\ Learn(q, new, fresh[q])
    BY <1>3 DEF Skip, At
  <2> HIDE DEF new
  <2>3. Formed(new) /\ Knows(new, fresh[q], row)
        /\ (~overlapped => Undoable(new, fresh[q], row))
    BY <1>k, <2>1, <2>2 DEF Formed, Knows, Expects, Planned, Undoable
  <2> QED
    BY <2>2, <2>3, LearnKnowledge
<1>4. ASSUME NEW status \in Statuses, SnapshotBoard(q, status) PROVE KnowledgeInv'
  <2> DEFINE r == [row EXCEPT !.status = status]
             u == Set({"status"}, r)
             new == [req[q] EXCEPT !.step = "planned", !.before = row.status, !.write = u]
  <2>1. r \in Row /\ r.status = status /\ {"status"} \in SUBSET Fields
    BY <1>t DEF Row, Fields
  <2>3. status \in {"Zamowione", "Anulowane"} /\ Learn(q, new, fresh[q])
        /\ req[q].op = "board" /\ req[q].step = "checked"
    BY <1>4 DEF SnapshotBoard, At
  <2> HIDE DEF r
  <2>2. u.fields = {"status"} /\ u.to.status = status
    BY <2>1, SetValues
  <2> HIDE DEF u
  <2>4. /\ new.op = "board" /\ new.step = "planned" /\ new.undo = req[q].undo
        /\ new.write = u /\ new.before = row.status
    BY <1>t, <2>3 DEF Request
  <2> HIDE DEF new
  <2>5. Formed(new) /\ Knows(new, fresh[q], row)
        /\ (~overlapped => Undoable(new, fresh[q], row))
    BY <1>k, <2>2, <2>3, <2>4 DEF Formed, Knows, Expects, Planned, Undoable
  <2> QED
    BY <2>3, <2>5, LearnKnowledge
<1>5. CASE WriteBoard(q)
  <2> DEFINE new == [req[q] EXCEPT !.step = "placed"]
             u == req[q].write
             after == Merge(row, u)
             known == fresh[q] \cap {"undo", "write"}
  <2>1. /\ req[q].op = "board" /\ req[q].step = "planned"
        /\ Send(q, u, {"write"}, {"undo", "write"})
    BY <1>5 DEF WriteBoard, At
  <2>2. /\ new.op = "board" /\ new.step = "placed" /\ new.undo = req[q].undo
        /\ new.write = u /\ new.before = req[q].before
        /\ req' = [req EXCEPT ![q] = new]
    BY <1>t, <1>5, <2>1 DEF Request, WriteBoard
  <2>3. u.fields = {"status"} /\ u.to.status \in {"Zamowione", "Anulowane"}
        /\ req[q].undo.fields = {"status"}
    BY <1>k, <2>1 DEF Formed
  <2>4. after = [row EXCEPT !.status = u.to.status] /\ after \in Row
        /\ after.status = u.to.status
    <3>1. after = [row EXCEPT !.status = u.to.status] /\ after \in Row
      BY <1>t, <2>3, MergeStatus, MergeType
    <3> QED
      BY <1>t, <3>1 DEF Row
  <2>5. Merge(after, req[q].undo) = Merge(row, req[q].undo)
    BY <1>t, <2>3, MergeHides
  <2>6. "write" \in fresh[q] => row.status = "Nowe" /\ req[q].before = "Nowe"
    BY <1>k, <2>1 DEF Knows, Expects
  <2>7. "write" \in fresh[q] => Merge(after, RollbackUpdate("Nowe")) = row
    <3>1. ASSUME "write" \in fresh[q]
          PROVE  [after EXCEPT !.status = "Nowe"] = row
      BY <1>t, <2>4, <2>6, <3>1 DEF Row
    <3> QED
      BY <2>4, <3>1, MergeRollback DEF Statuses
  <2>8. ASSUME ~overlapped, "write" \in fresh[q] PROVE Sound(after)
    <3>1. Sound(row) /\ row.status = "Nowe" /\ u.to.status \in {"Nowe", "Zamowione", "Anulowane"}
      BY <1>k, <2>3, <2>6, <2>8
    <3> HIDE DEF u, after
    <3> QED
      BY <1>t, <2>4, <3>1, BoardSound
  <2> HIDE DEF new, u, after
  <2>9. Formed(new) /\ Knows(new, known, after)
    BY <2>2, <2>3, <2>4, <2>6, <1>k, <2>1 DEF Formed, Knows, Expects, Planned
  <2>10. ASSUME ~overlapped, {"write"} \subseteq fresh[q] \/ after = row
         PROVE  Sound(after) /\ Undoable(new, known, after)
    <3>1. Sound(after)
      BY <1>k, <2>8, <2>10
    <3>2. "undo" \in fresh[q] => Sound(Merge(after, new.undo))
      BY <1>k, <2>2, <2>5, <2>10 DEF Undoable
    <3>3. "write" \in fresh[q] => Sound(Merge(after, RollbackUpdate(new.before)))
      BY <1>k, <2>2, <2>6, <2>7, <2>10
    <3> QED
      BY <3>1, <3>2, <3>3 DEF Undoable
  <2> QED
    BY <1>t, <2>1, <2>2, <2>9, <2>10, SendKnowledge DEF after, u
<1>6. CASE FinishBoard(q)
  <2> DEFINE new == [req[q] EXCEPT !.step = "written", !.write = Nothing, !.before = "Nowe"]
             known == fresh[q] \ {"write"}
  <2>1. req[q].op = "board" /\ req[q].step = "placed" /\ Learn(q, new, known)
    BY <1>6 DEF FinishBoard, At
  <2>2. new.op = "board" /\ new.step = "written" /\ new.undo = req[q].undo
    BY <1>t, <2>1 DEF Request
  <2> HIDE DEF new
  <2>3. Formed(new) /\ Knows(new, known, row) /\ (~overlapped => Undoable(new, known, row))
    BY <1>k, <2>1, <2>2 DEF Formed, Knows, Undoable
  <2> QED
    BY <2>1, <2>3, LearnKnowledge
<1>7. CASE Rollback(q)
  <2> DEFINE u == RollbackUpdate(req[q].before)
             after == Merge(row, u)
  <2>1. /\ req[q].op = "board" /\ req[q].step = "placed"
        /\ Send(q, u, {"write"}, {}) /\ req' = [req EXCEPT ![q] = Idle]
    BY <1>7 DEF Rollback, At, End
  <2>2. u \in Update /\ after \in Row
    BY <1>t, MergeRollback, MergeType DEF Request
  <2>3. ASSUME ~overlapped, {"write"} \subseteq fresh[q] \/ after = row
        PROVE  Sound(after)
    BY <1>k, <2>1, <2>3 DEF Undoable
  <2> HIDE DEF u, after
  <2>4. Formed(Idle) /\ Knows(Idle, fresh[q] \cap {}, after)
        /\ (Sound(after) => Undoable(Idle, fresh[q] \cap {}, after))
    BY <2>2, IdleKnowledge
  <2> QED
    BY <2>1, <2>2, <2>3, <2>4, SendKnowledge DEF after
<1>8. CASE CancelOrder(q)
  <2> DEFINE r == [row EXCEPT !.status = "Anulowane"]
             u == Set({"status"}, r)
             after == Merge(row, u)
  <2>1. /\ row.status = "Nowe" /\ Send(q, u, {}, {})
        /\ req' = [req EXCEPT ![q] = req[q]]
    BY <1>8, <1>t DEF CancelOrder
  <2>2. r \in Row /\ r.status = "Anulowane" /\ {"status"} \in SUBSET Fields
    BY <1>t DEF Row, Statuses, Fields
  <2>s. ~overlapped => Sound(r)
    BY <1>t, <1>k, <2>1, BoardSound
  <2>m. ASSUME NEW w \in Update, w.fields = {"status"}, w.to.status = "Anulowane"
        PROVE  Merge(row, w) = r
    BY <1>t, <2>m, MergeStatus
  <2> HIDE DEF r
  <2>3. u \in Update /\ u.fields = {"status"} /\ u.to.status = "Anulowane"
    BY <2>2, SetType, SetValues
  <2> HIDE DEF u
  <2>4. after = r /\ (~overlapped => Sound(after))
    BY <2>3, <2>s, <2>m
  <2> HIDE DEF after
  <2>5. Formed(req[q]) /\ Knows(req[q], fresh[q] \cap {}, after)
        /\ Undoable(req[q], fresh[q] \cap {}, after)
    BY <1>k DEF Knows, Undoable
  <2> QED
    BY <2>1, <2>3, <2>4, <2>5, SendKnowledge DEF after
<1> QED
  BY <1>1, <1>2, <1>3, <1>4, <1>5, <1>6, <1>7, <1>8 DEF Board

LEMMA WarehouseKnowledge ==
  ASSUME TypeOK, KnowledgeInv, NEW q \in Requests, Warehouse(q)
  PROVE  KnowledgeInv'
<1>t. /\ req[q] \in Request /\ req[q].write \in Update /\ req[q].undo \in Update
      /\ row \in Row /\ req \in [Requests -> Request]
  BY DEF TypeOK, Request
<1>k. /\ Formed(req[q]) /\ Knows(req[q], fresh[q], row)
      /\ ~overlapped => Sound(row) /\ Undoable(req[q], fresh[q], row)
  BY DEF KnowledgeInv, FormInv, KnowInv, SoundInv
<1>1. CASE OpenQueue(q)
  <2> DEFINE new == [Idle EXCEPT !.op = "receive", !.step = "page"]
  <2>1. new.op = "receive" /\ new.step = "page"
    BY DEF Idle
  <2>2. Learn(q, new, {"page"}) /\ InReceiveQueue(row)
    BY <1>1 DEF OpenQueue
  <2> HIDE DEF new
  <2>3. Formed(new) /\ Knows(new, {"page"}, row) /\ Undoable(new, {"page"}, row)
    BY <2>1, <2>2 DEF Formed, Knows, Undoable
  <2> QED
    BY <2>2, <2>3, LearnKnowledge
<1>2. CASE CaptureDelivery(q)
  <2> DEFINE u == Set(DeliverySnapshot, row)
             new == [req[q] EXCEPT !.step = "captured", !.undo = u]
             known == fresh[q] \cup {"undo"}
  <2>1. req[q].op = "receive" /\ req[q].step = "page" /\ Learn(q, new, known)
    BY <1>2 DEF CaptureDelivery, At
  <2>2. u.fields = DeliverySnapshot /\ Merge(row, u) = row
    BY <1>t, SetValues, MergeSelf DEF DeliverySnapshot, Fields
  <2> HIDE DEF u
  <2>3. new.op = "receive" /\ new.step = "captured" /\ new.undo = u
    BY <1>t, <2>1 DEF Request
  <2> HIDE DEF new
  <2>4. Formed(new) /\ Knows(new, known, row) /\ (~overlapped => Undoable(new, known, row))
    BY <1>k, <2>1, <2>2, <2>3 DEF Formed, Knows, Expects, Planned, Undoable
  <2> QED
    BY <2>1, <2>4, LearnKnowledge
<1>3. ASSUME NEW n \in 0 .. Ordered, ReadDelivery(q, n) PROVE KnowledgeInv'
  <2> DEFINE u == Set(DeliveryFields(row, n), WithDelivered(row, n))
             new == [req[q] EXCEPT !.step = "planned", !.write = u]
             known == fresh[q] \cup {"write"}
  <2>1. /\ req[q].op = "receive" /\ req[q].step = "captured" /\ Learn(q, new, known)
        /\ ReceiveLimit(row) > 0 => n <= ReceiveLimit(row)
    BY <1>3 DEF ReadDelivery, At
  <2>2. /\ new.op = "receive" /\ new.step = "planned" /\ new.undo = req[q].undo
        /\ new.write = u
    BY <1>t, <2>1 DEF Request
  <2> HIDE DEF new
  <2>3. Expects(new, row)
    BY <2>1, <2>2 DEF Expects, Planned
  <2>4. Formed(new) /\ Knows(new, known, row) /\ (~overlapped => Undoable(new, known, row))
    BY <1>k, <2>1, <2>2, <2>3 DEF Formed, Knows, Undoable
  <2> QED
    BY <2>1, <2>4, LearnKnowledge
<1>4. CASE WriteDelivery(q)
  <2> DEFINE u == req[q].write
             new == [req[q] EXCEPT !.step = "written", !.write = Nothing]
             after == Merge(row, u)
             known == fresh[q] \cap {"undo"}
  <2>1. /\ req[q].op = "receive" /\ req[q].step = "planned"
        /\ Send(q, u, {"page", "write"}, {"undo"})
        /\ req[q].undo.fields = DeliverySnapshot
    BY <1>4, <1>k DEF WriteDelivery, At, Formed
  <2>2. /\ new.op = "receive" /\ new.step = "written" /\ new.undo = req[q].undo
        /\ req' = [req EXCEPT ![q] = new]
    BY <1>t, <1>4, <2>1 DEF Request, WriteDelivery
  <2>3. Formed(new) /\ Knows(new, known, after)
    <3> HIDE DEF new, after
    <3> QED
      BY <1>k, <2>1, <2>2 DEF Formed, Knows
  <2>4. ASSUME ~overlapped, {"page", "write"} \subseteq fresh[q] \/ after = row
        PROVE  Sound(after) /\ Undoable(new, known, after)
    <3> HIDE DEF new
    <3>1. CASE after = row
      BY <1>k, <2>2, <2>4, <3>1 DEF Undoable
    <3>2. CASE {"page", "write"} \subseteq fresh[q]
      <4>1. Sound(row) /\ InReceiveQueue(row) /\ Expects(req[q], row)
        BY <1>k, <2>1, <2>4, <3>2 DEF Knows
      <4>2. PICK n \in 0 .. Ordered :
              /\ ReceiveLimit(row) > 0 => n <= ReceiveLimit(row)
              /\ u = Set(DeliveryFields(row, n), WithDelivered(row, n))
        BY <2>1, <4>1 DEF Expects, Planned
      <4>3. after = WithDelivered(row, n)
        BY <1>t, <4>2, MergeDelivered
      <4>4. Sound(WithDelivered(row, n))
        BY <1>t, <4>1, <4>2, ReceiveSound
      <4>5. ASSUME "undo" \in fresh[q]
            PROVE  Sound(Merge(WithDelivered(row, n), req[q].undo))
        <5>1. Merge(row, req[q].undo) = row
          BY <1>k, <2>1, <4>5 DEF Knows
        <5>2. Merge(WithDelivered(row, n), req[q].undo)
                = [row EXCEPT !.acked = WithDelivered(row, n).acked]
          BY <1>t, <2>1, <5>1, MergeReceiptUndo
        <5>3. WithDelivered(row, n).acked \in BOOLEAN
          BY <1>t, WithDeliveredType DEF Row
        <5> QED
          BY <1>t, <4>1, <5>2, <5>3, ReceiveUndoSound
      <4> HIDE DEF after, u
      <4> QED
        BY <2>2, <4>3, <4>4, <4>5 DEF Undoable
    <3> QED
      BY <2>4, <3>1, <3>2
  <2> QED
    BY <1>t, <2>1, <2>2, <2>3, <2>4, SendKnowledge
<1>5. CASE ReadRevert(q)
  <2> DEFINE new == [Idle EXCEPT !.op = "revert", !.step = "planned", !.write = RevertUpdate]
  <2>1. Learn(q, new, {})
    BY <1>5 DEF ReadRevert
  <2>2. new.op = "revert" /\ new.write = RevertUpdate
    BY DEF Idle
  <2> HIDE DEF new
  <2>3. Formed(new) /\ Knows(new, {}, row) /\ Undoable(new, {}, row)
    BY <2>2 DEF Formed, Knows, Undoable
  <2> QED
    BY <2>1, <2>3, LearnKnowledge
<1>6. CASE WriteRevert(q)
  <2>1. req[q].write = RevertUpdate
    BY <1>6, <1>k DEF WriteRevert, At, Formed
  <2>2. CASE ~RevertMatches(row)
    BY <1>6, <2>2, EndKnowledge DEF WriteRevert, SendNothing, history
  <2>3. CASE RevertMatches(row)
    <3> DEFINE after == Merge(row, RevertUpdate)
    <3>1. Send(q, RevertUpdate, {}, {}) /\ req' = [req EXCEPT ![q] = Idle]
      BY <1>6, <2>1, <2>3 DEF WriteRevert, End
    <3>2. ~overlapped => Sound(after)
      BY <1>t, <1>k, <2>3, RevertMerged DEF RevertMatches
    <3>3. after \in Row /\ RevertUpdate \in Update
      BY <1>t, RevertMerged
    <3> HIDE DEF after
    <3>4. Formed(Idle) /\ Knows(Idle, fresh[q] \cap {}, after)
          /\ (Sound(after) => Undoable(Idle, fresh[q] \cap {}, after))
      BY <3>3, IdleKnowledge
    <3> QED
      BY <3>1, <3>2, <3>3, <3>4, SendKnowledge DEF after
  <2> QED
    BY <2>2, <2>3
<1> QED
  BY <1>1, <1>2, <1>3, <1>4, <1>5, <1>6 DEF Warehouse

LEMMA SalesKnowledge ==
  ASSUME TypeOK, KnowledgeInv, NEW q \in Requests, Sales(q)
  PROVE  KnowledgeInv'
<1>t. /\ req[q] \in Request /\ req[q].write \in Update /\ req[q].undo \in Update
      /\ row \in Row /\ NewRow \in Row /\ req \in [Requests -> Request]
  BY NewRowType DEF TypeOK, Request
<1>k. /\ Formed(req[q]) /\ Knows(req[q], fresh[q], row)
      /\ ~overlapped => Sound(row) /\ Undoable(req[q], fresh[q], row)
  BY DEF KnowledgeInv, FormInv, KnowInv, SoundInv
<1>1. CASE OpenMine(q)
  <2> DEFINE r == [row EXCEPT !.acked = FALSE]
             u == Set(SalesSnapshot, r)
             new == [Idle EXCEPT !.op = "sales", !.step = "page", !.undo = u]
  <2>1. Learn(q, new, {"page", "undo"}) /\ ~row.acked
    BY <1>1 DEF OpenMine, CancelPhase
  <2>2. r = row
    BY <1>t, <2>1 DEF Row
  <2>3. u.fields = SalesSnapshot /\ Merge(row, u) = row
    <3>1. SalesSnapshot \in SUBSET Fields
      BY DEF SalesSnapshot, Fields
    <3> HIDE DEF r
    <3> QED
      BY <1>t, <2>2, <3>1, SetValues, MergeSelf
  <2> HIDE DEF u
  <2>4. new.op = "sales" /\ new.step = "page" /\ new.undo = u
    BY DEF Idle
  <2> HIDE DEF new
  <2>5. /\ Formed(new) /\ Knows(new, {"page", "undo"}, row)
        /\ ~overlapped => Undoable(new, {"page", "undo"}, row)
    BY <1>k, <2>3, <2>4 DEF Formed, Knows, Undoable
  <2> QED
    BY <2>1, <2>5, LearnKnowledge
<1>2. ASSUME NEW n \in 1 .. Ordered, PlanCancel(q, n) PROVE KnowledgeInv'
  <2> DEFINE u == Set(CancelFields(row, n), WithCancelled(row, n))
             new == [req[q] EXCEPT !.step = "planned", !.write = u]
             known == fresh[q] \cup {"write"}
  <2>1. /\ req[q].op = "sales" /\ req[q].step = "page" /\ Learn(q, new, known)
        /\ n \in 1 .. MaxCancel(row)
    BY <1>2 DEF PlanCancel, At
  <2>2. MaxCancel(row) \in 0 .. Ordered
    BY <1>t, QuantityTypes DEF MaxCancel
  <2>3. /\ new.op = "sales" /\ new.step = "planned" /\ new.undo = req[q].undo
        /\ new.write = u
    BY <1>t, <2>1 DEF Request
  <2> HIDE DEF new
  <2>4. Expects(new, row)
    BY <2>1, <2>2, <2>3 DEF Expects, Planned
  <2>5. Formed(new) /\ Knows(new, known, row) /\ (~overlapped => Undoable(new, known, row))
    BY <1>k, <2>1, <2>3, <2>4 DEF Formed, Knows, Undoable
  <2> QED
    BY <2>1, <2>5, LearnKnowledge
<1>3. CASE WriteCancel(q) /\ row.acked
  BY <1>3, EndKnowledge DEF WriteCancel, SendNothing, history
<1>4. CASE WriteCancel(q) /\ ~row.acked
  <2> DEFINE u == req[q].write
             new == [req[q] EXCEPT !.step = "written", !.write = Nothing]
             after == Merge(row, u)
             known == fresh[q] \cap {"undo"}
  <2>1. /\ req[q].op = "sales" /\ req[q].step = "planned"
        /\ Send(q, u, {"write"}, {"undo"})
        /\ req[q].undo.fields = SalesSnapshot
    BY <1>4, <1>k DEF WriteCancel, At, Formed
  <2>2. /\ new.op = "sales" /\ new.step = "written" /\ new.undo = req[q].undo
        /\ req' = [req EXCEPT ![q] = new]
    BY <1>t, <1>4, <2>1 DEF Request, WriteCancel
  <2>3. Formed(new) /\ Knows(new, known, after)
    <3> HIDE DEF new, after
    <3> QED
      BY <1>k, <2>1, <2>2 DEF Formed, Knows
  <2>4. ASSUME ~overlapped, {"write"} \subseteq fresh[q] \/ after = row
        PROVE  Sound(after) /\ Undoable(new, known, after)
    <3> HIDE DEF new
    <3>1. CASE after = row
      BY <1>k, <2>1, <2>2, <2>4, <3>1 DEF Undoable
    <3>2. CASE {"write"} \subseteq fresh[q]
      <4>1. Sound(row) /\ Expects(req[q], row) /\ Undoable(req[q], fresh[q], row)
        BY <1>k, <2>4, <3>2 DEF Knows
      <4>2. PICK n \in 1 .. Ordered :
              n <= MaxCancel(row) /\ u = Set(CancelFields(row, n), WithCancelled(row, n))
        BY <2>1, <4>1 DEF Expects, Planned
      <4>3. MaxCancel(row) \in 0 .. Ordered /\ n \in 1 .. MaxCancel(row)
        BY <1>t, <4>2, QuantityTypes DEF MaxCancel
      <4>4. after = WithCancelled(row, n) /\ Sound(WithCancelled(row, n))
        BY <1>t, <4>1, <4>2, <4>3, MergeCancelled, CancelSound
      <4>5. u.fields \subseteq req[q].undo.fields
        <5>1. CancelFields(row, n) \in SUBSET Fields /\ WithCancelled(row, n) \in Row
          BY <1>t, <4>3, WithCancelledType
        <5>2. u.fields = CancelFields(row, n)
          BY <4>2, <5>1, SetValues
        <5> QED
          BY <2>1, <5>2 DEF CancelFields, SalesSnapshot
      <4>6. Merge(after, req[q].undo) = Merge(row, req[q].undo)
        BY <1>t, <4>5, MergeHides
      <4> HIDE DEF after, u
      <4> QED
        BY <2>2, <4>1, <4>4, <4>6 DEF Undoable
    <3> QED
      BY <2>4, <3>1, <3>2
  <2> QED
    BY <1>t, <2>1, <2>2, <2>3, <2>4, SendKnowledge
<1>5. ASSUME NEW op \in {"pickup", "dismiss"}, ReadAck(q, op) PROVE KnowledgeInv'
  <2> DEFINE u == Set({"acked"}, NewRow)
             new == [Idle EXCEPT !.op = op, !.step = "planned", !.write = AckUpdate, !.undo = u]
             known == {"undo", "write"}
  <2>1. /\ Learn(q, new, known) /\ ~row.acked
        /\ \/ op = "pickup" /\ row.status = "Zrealizowane"
           \/ op = "dismiss" /\ (row.status = "Anulowane" \/ NoticePending(row))
    BY <1>5 DEF ReadAck, AckUpdate
  <2>2. u.fields = {"acked"} /\ Merge(row, u) = row
    <3> DEFINE only == {"acked"}
               m == Merge(row, Set(only, NewRow))
    <3>1. /\ only \in SUBSET Fields /\ NewRow.acked = row.acked
          /\ {"status", "delivered", "cancelled", "qty", "phase", "disposed", "settled"}
               \cap only = {}
      BY <1>t, <2>1 DEF Fields, NewRow, Row
    <3>2. u.fields = {"acked"}
      BY <1>t, <3>1, SetValues
    <3> HIDE DEF only
    <3>3. /\ m \in Row /\ m.status = row.status /\ m.delivered = row.delivered
          /\ m.cancelled = row.cancelled /\ m.qty = row.qty /\ m.phase = row.phase
          /\ m.acked = row.acked /\ m.disposed = row.disposed /\ m.settled = row.settled
      BY <1>t, <3>1, MergeSet
    <3> HIDE DEF m
    <3>4. m = row
      BY <1>t, <3>3, RowEqual
    <3> QED
      BY <3>2, <3>4 DEF m, only
  <2> HIDE DEF u
  <2>3. new.op = op /\ new.step = "planned" /\ new.write = AckUpdate /\ new.undo = u
    BY DEF Idle
  <2> HIDE DEF new
  <2>4. Formed(new) /\ Knows(new, known, row) /\ (~overlapped => Undoable(new, known, row))
    BY <1>k, <2>1, <2>2, <2>3 DEF Formed, Knows, Expects, Planned, Undoable
  <2> QED
    BY <2>1, <2>4, LearnKnowledge
<1>6. CASE ReadShelf(q)
  <2> DEFINE new == [Idle EXCEPT !.op = "shelf", !.step = "planned", !.write = AckUpdate]
  <2>1. Learn(q, new, {"write"}) /\ OnShelf(row)
    BY <1>6 DEF ReadShelf, AckUpdate
  <2>2. new.op = "shelf" /\ new.step = "planned" /\ new.write = AckUpdate
    BY DEF Idle
  <2> HIDE DEF new
  <2>3. Formed(new) /\ Knows(new, {"write"}, row) /\ Undoable(new, {"write"}, row)
    BY <2>1, <2>2 DEF Formed, Knows, Expects, Planned, Undoable
  <2> QED
    BY <2>1, <2>3, LearnKnowledge
<1>7. CASE WriteAck(q) /\ row.acked
  BY <1>7, EndKnowledge DEF WriteAck, SendNothing, history
<1>8. CASE WriteAck(q) /\ ~row.acked
  <2> DEFINE new == IF req[q].op = "shelf" THEN Idle
                    ELSE [req[q] EXCEPT !.step = "written", !.write = Nothing]
             after == Merge(row, AckUpdate)
             known == fresh[q] \cap {"undo"}
  <2>1. /\ req[q].op \in {"pickup", "dismiss", "shelf"} /\ req[q].step = "planned"
        /\ req[q].write = AckUpdate
        /\ req[q].op # "shelf" => req[q].undo.fields = {"acked"}
    BY <1>8, <1>k DEF WriteAck, Formed
  <2>2. Send(q, AckUpdate, {"write"}, {"undo"}) /\ req' = [req EXCEPT ![q] = new]
    BY <1>t, <1>8, <2>1 DEF WriteAck, End
  <2>3. req[q].op # "shelf" =>
          new.op = req[q].op /\ new.step = "written" /\ new.undo = req[q].undo
    BY <1>t DEF Request
  <2>4. /\ AckUpdate \in Update /\ AckUpdate.fields = {"acked"}
        /\ after = [row EXCEPT !.acked = TRUE] /\ after \in Row
    BY <1>t, MergeAck, MergeType
  <2>5. req[q].op = "shelf" => new = Idle
    OBVIOUS
  <2> HIDE DEF new
  <2>6. Formed(new) /\ Knows(new, known, after)
    <3>1. CASE req[q].op = "shelf"
      BY <2>4, <2>5, <3>1, IdleKnowledge
    <3>2. CASE req[q].op # "shelf"
      BY <2>1, <2>3, <3>2 DEF Formed, Knows
    <3> QED
      BY <3>1, <3>2
  <2>7. ASSUME ~overlapped, {"write"} \subseteq fresh[q] \/ after = row
        PROVE  Sound(after) /\ Undoable(new, known, after)
    <3>1. Sound(after)
      <4>1. CASE after = row
        BY <1>k, <2>7, <4>1
      <4>2. CASE {"write"} \subseteq fresh[q]
        <5>1. \/ row.status \in {"Zrealizowane", "Anulowane"}
              \/ NoticePending(row) \/ OnShelf(row)
          BY <1>k, <2>1, <4>2 DEF Knows, Expects, Planned
        <5> QED
          BY <1>t, <1>k, <1>8, <2>4, <2>7, <5>1, AckSound
      <4> QED
        BY <2>7, <4>1, <4>2
    <3>2. CASE req[q].op = "shelf"
      BY <2>4, <2>5, <3>1, <3>2, IdleKnowledge
    <3>3. CASE req[q].op # "shelf"
      <4>1. Merge(after, req[q].undo) = Merge(row, req[q].undo)
        <5>1. AckUpdate \in Update /\ AckUpdate.fields \subseteq req[q].undo.fields
          BY <2>1, <2>4, <3>3
        <5> QED
          BY <1>t, <5>1, MergeHides
      <4> HIDE DEF after
      <4> QED
        BY <1>k, <2>1, <2>3, <2>7, <3>1, <3>3, <4>1 DEF Undoable
    <3> QED
      BY <3>1, <3>2, <3>3
  <2> QED
    BY <2>2, <2>4, <2>6, <2>7, SendKnowledge
<1> QED
  BY <1>1, <1>2, <1>3, <1>4, <1>5, <1>6, <1>7, <1>8 DEF Sales

LEMMA DecisionKnowledge ==
  ASSUME TypeOK, KnowledgeInv, NEW q \in Requests, Decision(q)
  PROVE  KnowledgeInv'
<1>t. row \in Row /\ req \in [Requests -> Request]
  BY DEF TypeOK
<1>k. Formed(req[q]) /\ (~overlapped => Sound(row))
  BY DEF KnowledgeInv, FormInv, SoundInv
<1>1. CASE ReadDecision(q)
  <2> DEFINE new == [Idle EXCEPT !.op = "decide", !.step = "planned", !.write = DecideUpdate]
  <2>1. Learn(q, new, {"write"})
    BY <1>1 DEF ReadDecision, DecideUpdate
  <2>2. new.op = "decide" /\ new.step = "planned" /\ new.write = DecideUpdate
    BY DEF Idle
  <2> HIDE DEF new
  <2>3. Formed(new) /\ Knows(new, {"write"}, row) /\ Undoable(new, {"write"}, row)
    BY <2>2 DEF Formed, Knows, Expects, Planned, Undoable
  <2> QED
    BY <2>1, <2>3, LearnKnowledge
<1>2. CASE WriteDecision(q) /\ row.disposed
  BY <1>2, EndKnowledge DEF WriteDecision, SendNothing, history
<1>3. CASE WriteDecision(q) /\ ~row.disposed
  <2> DEFINE after == Merge(row, DecideUpdate)
  <2>1. Send(q, DecideUpdate, {"write"}, {}) /\ req' = [req EXCEPT ![q] = Idle]
    BY <1>3, <1>k DEF WriteDecision, At, Formed, End
  <2>2. DecideUpdate \in Update /\ after \in Row /\ (~overlapped => Sound(after))
    BY <1>t, <1>k, MergeDecide, MergeType, DecideSound
  <2> HIDE DEF after
  <2>3. Formed(Idle) /\ Knows(Idle, fresh[q] \cap {}, after)
        /\ (Sound(after) => Undoable(Idle, fresh[q] \cap {}, after))
    BY <2>2, IdleKnowledge
  <2> QED
    BY <2>1, <2>2, <2>3, SendKnowledge DEF after
<1>4. CASE ReadSettle(q)
  <2> DEFINE new == [Idle EXCEPT !.op = "settle", !.step = "planned"]
  <2>1. Learn(q, new, {"write"}) /\ Settleable(row)
    BY <1>4 DEF ReadSettle
  <2>2. new.op = "settle" /\ new.step = "planned"
    BY DEF Idle
  <2> HIDE DEF new
  <2>3. Formed(new) /\ Knows(new, {"write"}, row) /\ Undoable(new, {"write"}, row)
    BY <2>1, <2>2 DEF Formed, Knows, Expects, Planned, Undoable
  <2> QED
    BY <2>1, <2>3, LearnKnowledge
<1>5. CASE WriteSettle(q) /\ row.settled
  BY <1>5, EndKnowledge DEF WriteSettle, SendNothing, history
<1>6. CASE WriteSettle(q) /\ ~row.settled
  <2> DEFINE after == Merge(row, SettleUpdate)
  <2>1. Send(q, SettleUpdate, {"write"}, {}) /\ req' = [req EXCEPT ![q] = Idle]
    BY <1>6 DEF WriteSettle, End
  <2>2. /\ SettleUpdate \in Update /\ after \in Row
        /\ after = [row EXCEPT !.settled = TRUE] /\ after # row
    BY <1>t, <1>6, MergeSettle, MergeType DEF Row
  <2>3. ASSUME ~overlapped, {"write"} \subseteq fresh[q] \/ after = row
        PROVE  Sound(after)
    <3>1. Settleable(row)
      BY <1>6, <2>2, <2>3 DEF WriteSettle, At, KnowledgeInv, KnowInv, Knows, Expects,
                              Planned
    <3> QED
      BY <1>t, <1>k, <2>2, <2>3, <3>1, SettleSound
  <2> HIDE DEF after
  <2>4. Formed(Idle) /\ Knows(Idle, fresh[q] \cap {}, after)
        /\ (Sound(after) => Undoable(Idle, fresh[q] \cap {}, after))
    BY <2>2, IdleKnowledge
  <2> QED
    BY <2>1, <2>2, <2>3, <2>4, SendKnowledge DEF after
<1> QED
  BY <1>1, <1>2, <1>3, <1>4, <1>5, <1>6 DEF Decision

LEMMA UndoKnowledge ==
  ASSUME TypeOK, KnowledgeInv, NEW q \in Requests, Undo(q)
  PROVE  KnowledgeInv'
<1> DEFINE u == req[q].undo
           after == Merge(row, u)
<1>1. /\ u \in Update /\ row \in Row /\ after \in Row
      /\ Send(q, u, {"undo"}, {}) /\ req' = [req EXCEPT ![q] = Idle]
  BY MergeType DEF Undo, End, TypeOK, Request
<1>2. ASSUME ~overlapped, {"undo"} \subseteq fresh[q] \/ after = row
      PROVE  Sound(after)
  BY <1>2 DEF KnowledgeInv, SoundInv, Undoable
<1> HIDE DEF u, after
<1>3. Formed(Idle) /\ Knows(Idle, fresh[q] \cap {}, after)
      /\ (Sound(after) => Undoable(Idle, fresh[q] \cap {}, after))
  BY <1>1, IdleKnowledge
<1> QED
  BY <1>1, <1>2, <1>3, SendKnowledge DEF after

LEMMA KnowledgeStep == TypeOK /\ KnowledgeInv /\ [Next]_vars => KnowledgeInv'
<1> SUFFICES ASSUME TypeOK, KnowledgeInv, [Next]_vars PROVE KnowledgeInv'
  OBVIOUS
<1>1. ASSUME NEW q \in Requests, GiveUp(q) PROVE KnowledgeInv'
  <2>1. \A p \in Requests : fresh'[p] = fresh[p] \/ fresh'[p] = {}
    BY <1>1 DEF GiveUp, TypeOK
  <2> QED
    BY <1>1, <2>1, EndKnowledge DEF GiveUp
<1>2. CASE Purge \/ UNCHANGED vars
  BY <1>2 DEF Purge, vars, history, KnowledgeInv, FormInv, KnowInv, SoundInv
<1> QED
  BY <1>1, <1>2, BoardKnowledge, WarehouseKnowledge, SalesKnowledge, DecisionKnowledge,
     UndoKnowledge DEF Next, Gone

LEMMA KnowledgeInit == Init => KnowledgeInv
<1> SUFFICES ASSUME Init PROVE KnowledgeInv
  OBVIOUS
<1>1. /\ row = NewRow /\ \A q \in Requests : req[q] = Idle /\ fresh[q] = {}
  BY DEF Init
<1>2. Sound(NewRow)
  BY DEF NewRow, Sound, StatusFits, Shown
<1>3. Formed(Idle) /\ Knows(Idle, {}, NewRow) /\ Undoable(Idle, {}, NewRow)
  BY <1>2, IdleKnowledge, NewRowType
<1> QED
  BY <1>1, <1>2, <1>3 DEF KnowledgeInv, FormInv, KnowInv, SoundInv

\* Status and quantities of a row agree through any sequence of orders, receipts,
\* withdrawals, acknowledgements, undos, rollbacks and reverts, of any number of
\* requests and for any quantity, until one of them writes on an outdated read.
THEOREM StatusAgrees == Spec => []Coherent
<1>1. KnowledgeInv => Coherent
  BY DEF KnowledgeInv, SoundInv, Sound, Coherent
<1> QED
  BY <1>1, KnowledgeInit, KnowledgeStep, TypeCorrect, PTL DEF Spec

\* Likewise, no order that still has its row falls between the pages of the program.
THEOREM NobodyForgets == Spec => []NotForgotten
<1>1. KnowledgeInv => NotForgotten
  BY DEF KnowledgeInv, SoundInv, Sound, NotForgotten
<1> QED
  BY <1>1, KnowledgeInit, KnowledgeStep, TypeCorrect, PTL DEF Spec

-----------------------------------------------------------------------------
(* Columns that are written together.                                      *)

\* A row that WrittenTogether speaks of.
Together(r) == Halves(r) /\ (r.settled => r.disposed \/ hasty)

\* An update sets all columns of a group or none, to values that go together.
Paired(u) ==
  /\ "cancelled" \in u.fields <=> "phase" \in u.fields
  /\ "cancelled" \in u.fields <=> "qty" \in u.fields
  /\ "cancelled" \in u.fields =>
       /\ u.to.cancelled <=> u.to.phase # "none"
       /\ u.to.qty > 0 => u.to.cancelled
  /\ "settled" \in u.fields => "disposed" \in u.fields /\ (u.to.settled => u.to.disposed \/ hasty)
  /\ "disposed" \in u.fields /\ "settled" \notin u.fields => u.to.disposed

LEMMA MergeTogether ==
  ASSUME NEW r \in Row, NEW u \in Update, Together(r), Paired(u)
  PROVE  Together(Merge(r, u))
BY DEF Together, Halves, Paired, Merge

\* Updates of other columns, and the ones that set both groups from a sound row.
LEMMA SetPaired ==
  ASSUME NEW r \in Row, NEW fields \in SUBSET Fields,
         \/ fields \subseteq {"status", "delivered", "acked"}
         \/ Together(r) /\ fields = SalesSnapshot
         \/ r.disposed /\ fields = {"disposed"}
  PROVE  Paired(Set(fields, r))
<1>1. CASE fields \subseteq {"status", "delivered", "acked"}
  BY <1>1, SetValues DEF Paired
<1>2. CASE Together(r) /\ fields = SalesSnapshot
  BY <1>2, SetValues DEF Paired, Together, Halves, SalesSnapshot
<1>3. CASE r.disposed /\ fields = {"disposed"}
  BY <1>3, SetValues DEF Paired
<1> QED
  BY <1>1, <1>2, <1>3

\* What a withdrawal writes goes together.
LEMMA CancelPaired ==
  ASSUME NEW r \in Row, NEW n \in 1 .. MaxCancel(r), n \in 1 .. Ordered
  PROVE  Paired(Set(CancelFields(r, n), WithCancelled(r, n)))
<1> DEFINE after == WithCancelled(r, n)
<1>1. after \in Row /\ CancelFields(r, n) \in SUBSET Fields
  BY WithCancelledType
<1>2. CancelPhase(r) \in Phases
  BY CancelPhaseType
<1>3. after.cancelled = TRUE /\ after.phase = CancelPhase(r)
  BY DEF WithCancelled, Row
<1>4. "none" \notin Phases
  BY DEF Phases
<1>5. SettlesItself(r, n) => after.settled = TRUE /\ after.disposed = TRUE
  BY DEF WithCancelled, Row
<1>6. /\ {"cancelled", "phase", "qty"} \subseteq CancelFields(r, n)
      /\ "settled" \in CancelFields(r, n) <=> SettlesItself(r, n)
      /\ "disposed" \in CancelFields(r, n) <=> SettlesItself(r, n)
  BY DEF CancelFields
<1> HIDE DEF after
<1> QED
  BY <1>1, <1>2, <1>3, <1>4, <1>5, <1>6, SetValues DEF Paired, after

PairInv ==
  /\ Together(row)
  /\ \A q \in Requests : Paired(req[q].write) /\ Paired(req[q].undo)

\* Sending a paired update, and learning paired ones, preserves that.
LEMMA SendPair ==
  ASSUME TypeOK, PairInv, NEW q \in Requests, NEW u \in Update, Paired(u),
         NEW basis, NEW kept, Send(q, u, basis, kept)
  PROVE  Together(row')
BY MergeTogether DEF Send, TypeOK, PairInv

LEMMA IdlePaired == Paired(Nothing) /\ Paired(Idle.write) /\ Paired(Idle.undo)
<1>1. Paired(Nothing)
  BY NewRowType, SetPaired DEF Nothing, Fields
<1> QED
  BY <1>1 DEF Idle

\* hasty is history: it never ends.
LEMMA HastyStays == [Next]_vars => (hasty => hasty')
<1>1. ASSUME NEW q, NEW u, NEW basis, NEW kept, Send(q, u, basis, kept)
      PROVE  hasty => hasty'
  BY <1>1 DEF Send
<1>2. ASSUME NEW q, NEW new, NEW known, Learn(q, new, known) PROVE hasty => hasty'
  BY <1>2 DEF Learn
<1>3. SendNothing => (hasty => hasty')
  BY DEF SendNothing, history
<1>4. ASSUME NEW q \in Requests, Board(q) PROVE hasty => hasty'
  BY <1>1, <1>2, <1>4 DEF Board, CaptureBoard, CheckBoard, Skip, SnapshotBoard,
     WriteBoard, FinishBoard, Rollback, CancelOrder
<1>5. ASSUME NEW q \in Requests, Warehouse(q) PROVE hasty => hasty'
  BY <1>1, <1>2, <1>3, <1>5 DEF Warehouse, OpenQueue, CaptureDelivery, ReadDelivery,
     WriteDelivery, ReadRevert, WriteRevert
<1>6. ASSUME NEW q \in Requests, Sales(q) PROVE hasty => hasty'
  BY <1>1, <1>2, <1>3, <1>6 DEF Sales, OpenMine, PlanCancel, WriteCancel, ReadAck,
     ReadShelf, WriteAck
<1>7. ASSUME NEW q \in Requests, Decision(q) \/ Undo(q) \/ GiveUp(q)
      PROVE  hasty => hasty'
  BY <1>1, <1>2, <1>3, <1>7 DEF Decision, ReadDecision, WriteDecision, ReadSettle,
     WriteSettle, Undo, GiveUp
<1>8. Purge \/ UNCHANGED vars => (hasty => hasty')
  BY DEF Purge, vars, history
<1> QED
  BY <1>4, <1>5, <1>6, <1>7, <1>8 DEF Next, Gone

\* A settlement of what it has read is one of a row with a disposition; another one
\* is hasty.
LEMMA SettlePair ==
  ASSUME TypeOK, KnowInv, PairInv, NEW q \in Requests, WriteSettle(q), ~row.settled
  PROVE  Together(row)' /\ (hasty' \/ row.disposed)
<1>1. row \in Row /\ Together(row)
  BY DEF TypeOK, PairInv
<1>2. At(q, "settle", "planned") /\ Send(q, SettleUpdate, {"write"}, {})
  BY DEF WriteSettle
<1>3. row' = [row EXCEPT !.settled = TRUE] /\ row' # row
  BY <1>1, <1>2, MergeSettle DEF Send, Row
<1>4. hasty' \/ row.disposed
  <2>1. CASE "write" \in fresh[q]
    BY <1>2, <2>1 DEF At, KnowInv, Knows, Expects, Planned, Settleable
  <2>2. CASE "write" \notin fresh[q]
    BY <1>2, <1>3, <2>2 DEF Send, At
  <2> QED
    BY <2>1, <2>2
<1>5. /\ row'.cancelled = row.cancelled /\ row'.qty = row.qty
      /\ row'.phase = row.phase /\ row'.disposed = row.disposed
  BY <1>1, <1>3 DEF Row
<1> QED
  BY <1>1, <1>4, <1>5 DEF Together, Halves

LEMMA PairStep == TypeOK /\ KnowInv /\ PairInv /\ [Next]_vars => PairInv'
<1> SUFFICES ASSUME TypeOK, KnowInv, PairInv, [Next]_vars PROVE PairInv'
  OBVIOUS
<1>h. hasty => hasty'
  BY HastyStays
<1>t. \A q \in Requests : /\ req[q] \in Request
                          /\ req[q].write \in Update /\ req[q].undo \in Update
                          /\ Paired(req[q].write) /\ Paired(req[q].undo)
  BY DEF TypeOK, PairInv, Request
<1>r. row \in Row /\ NewRow \in Row /\ Together(row)
  BY NewRowType DEF TypeOK, PairInv
<1>i. Idle \in Request /\ Paired(Idle.write) /\ Paired(Idle.undo) /\ Paired(Nothing)
  BY IdleType, IdlePaired
\* What any step leaves in req, given the new contents of one request.
<1>w. ASSUME NEW q \in Requests, NEW new, Paired(new.write), Paired(new.undo),
             Together(row'), req' = [req EXCEPT ![q] = new]
      PROVE  PairInv'
  <2>1. Together(row)'
    BY <1>w, <1>h DEF Together
  <2>2. ASSUME NEW p \in Requests
        PROVE  Paired(req'[p].write) /\ Paired(req'[p].undo)
    BY <1>t, <1>w DEF TypeOK
  <2> QED
    BY <1>h, <2>1, <2>2 DEF PairInv, Paired
<1>l. ASSUME NEW q \in Requests, NEW new, Paired(new.write), Paired(new.undo),
             NEW known, Learn(q, new, known)
      PROVE  PairInv'
  BY <1>r, <1>l, <1>w DEF Learn
<1>s. ASSUME NEW fields \in SUBSET {"status", "delivered", "acked"}, NEW r \in Row
      PROVE  Paired(Set(fields, r)) /\ Set(fields, r) \in Update
  <2>1. fields \in SUBSET Fields
    BY DEF Fields
  <2> QED
    BY <2>1, SetPaired, SetType
<1>1. ASSUME NEW q \in Requests, Board(q) PROVE PairInv'
  <2>1. CASE CaptureBoard(q)
    <3>1. Paired(Set({"status"}, row))
      BY <1>r, <1>s
    <3>2. LET new == [Idle EXCEPT !.op = "board", !.step = "captured",
                                  !.undo = Set({"status"}, row)]
          IN Paired(new.write) /\ Paired(new.undo)
      BY <1>i, <3>1 DEF Idle
    <3> QED
      BY <1>l, <2>1, <3>2 DEF CaptureBoard
  <2>2. CASE CheckBoard(q)
    <3>1. LET new == [req[q] EXCEPT !.step = "checked"]
          IN Paired(new.write) /\ Paired(new.undo)
      BY <1>t DEF Request
    <3> QED
      BY <1>l, <2>2, <3>1 DEF CheckBoard
  <2>3. CASE Skip(q)
    <3>1. LET new == [req[q] EXCEPT !.step = "written"]
          IN Paired(new.write) /\ Paired(new.undo)
      BY <1>t DEF Request
    <3> QED
      BY <1>l, <2>3, <3>1 DEF Skip
  <2>4. ASSUME NEW status \in Statuses, SnapshotBoard(q, status) PROVE PairInv'
    <3>1. [row EXCEPT !.status = status] \in Row
      BY <1>r DEF Row
    <3>2. Paired(Set({"status"}, [row EXCEPT !.status = status]))
      BY <1>s, <3>1
    <3>3. LET new == [req[q] EXCEPT !.step = "planned", !.before = row.status,
                        !.write = Set({"status"}, [row EXCEPT !.status = status])]
          IN Paired(new.write) /\ Paired(new.undo)
      BY <1>t, <3>2 DEF Request
    <3> QED
      BY <1>l, <2>4, <3>3 DEF SnapshotBoard
  <2>5. CASE WriteBoard(q)
    <3>1. Together(row')
      BY <1>t, <2>5, SendPair DEF WriteBoard
    <3>2. LET new == [req[q] EXCEPT !.step = "placed"]
          IN Paired(new.write) /\ Paired(new.undo)
      BY <1>t DEF Request
    <3> QED
      BY <1>w, <2>5, <3>1, <3>2 DEF WriteBoard
  <2>6. CASE FinishBoard(q)
    <3>1. LET new == [req[q] EXCEPT !.step = "written", !.write = Nothing,
                                    !.before = "Nowe"]
          IN Paired(new.write) /\ Paired(new.undo)
      BY <1>t, <1>i DEF Request
    <3> QED
      BY <1>l, <2>6, <3>1 DEF FinishBoard
  <2>7. CASE Rollback(q)
    <3>1. [NewRow EXCEPT !.status = req[q].before] \in Row
      BY <1>t, <1>r DEF Request, Row
    <3>2. Together(row')
      BY <1>s, <2>7, <3>1, SendPair DEF Rollback, RollbackUpdate
    <3> QED
      BY <1>i, <1>w, <2>7, <3>2 DEF Rollback, End
  <2>8. CASE CancelOrder(q)
    <3>1. [row EXCEPT !.status = "Anulowane"] \in Row
      BY <1>r DEF Row, Statuses
    <3>2. Together(row')
      BY <1>s, <2>8, <3>1, SendPair DEF CancelOrder
    <3>3. req' = [req EXCEPT ![q] = req[q]]
      BY <2>8 DEF CancelOrder, TypeOK
    <3> QED
      BY <1>t, <1>w, <3>2, <3>3
  <2> QED
    BY <1>1, <2>1, <2>2, <2>3, <2>4, <2>5, <2>6, <2>7, <2>8 DEF Board
<1>2. ASSUME NEW q \in Requests, Warehouse(q) PROVE PairInv'
  <2>1. CASE OpenQueue(q)
    <3>1. LET new == [Idle EXCEPT !.op = "receive", !.step = "page"]
          IN Paired(new.write) /\ Paired(new.undo)
      BY <1>i DEF Idle
    <3> QED
      BY <1>l, <2>1, <3>1 DEF OpenQueue
  <2>2. CASE CaptureDelivery(q)
    <3>1. Paired(Set(DeliverySnapshot, row))
      BY <1>r, <1>s DEF DeliverySnapshot
    <3>2. LET new == [req[q] EXCEPT !.step = "captured", !.undo = Set(DeliverySnapshot, row)]
          IN Paired(new.write) /\ Paired(new.undo)
      BY <1>t, <3>1 DEF Request
    <3> QED
      BY <1>l, <2>2, <3>2 DEF CaptureDelivery
  <2>3. ASSUME NEW n \in 0 .. Ordered, ReadDelivery(q, n) PROVE PairInv'
    <3>1. DeliveryFields(row, n) \in SUBSET {"status", "delivered", "acked"}
      BY DEF DeliveryFields
    <3>2. Paired(Set(DeliveryFields(row, n), WithDelivered(row, n)))
      BY <1>r, <1>s, <3>1, WithDeliveredType
    <3>3. LET new == [req[q] EXCEPT !.step = "planned",
                        !.write = Set(DeliveryFields(row, n), WithDelivered(row, n))]
          IN Paired(new.write) /\ Paired(new.undo)
      BY <1>t, <3>2 DEF Request
    <3> QED
      BY <1>l, <2>3, <3>3 DEF ReadDelivery
  <2>4. CASE WriteDelivery(q)
    <3>1. Together(row')
      BY <1>t, <2>4, SendPair DEF WriteDelivery
    <3>2. LET new == [req[q] EXCEPT !.step = "written", !.write = Nothing]
          IN Paired(new.write) /\ Paired(new.undo) /\ req' = [req EXCEPT ![q] = new]
      BY <1>t, <1>i, <2>4 DEF Request, WriteDelivery, TypeOK
    <3> QED
      BY <1>w, <3>1, <3>2
  <2>5. CASE ReadRevert(q)
    <3>1. [NewRow EXCEPT !.status = "Zamowione"] \in Row
      BY <1>r DEF Row, Statuses
    <3>2. Paired(RevertUpdate)
      BY <1>s, <3>1 DEF RevertUpdate
    <3>3. LET new == [Idle EXCEPT !.op = "revert", !.step = "planned", !.write = RevertUpdate]
          IN Paired(new.write) /\ Paired(new.undo)
      BY <1>i, <3>2 DEF Idle
    <3> QED
      BY <1>l, <2>5, <3>3 DEF ReadRevert
  <2>6. CASE WriteRevert(q)
    <3>1. Together(row')
      BY <1>t, <1>r, <2>6, SendPair DEF WriteRevert, SendNothing
    <3> QED
      BY <1>i, <1>w, <2>6, <3>1 DEF WriteRevert, End
  <2> QED
    BY <1>2, <2>1, <2>2, <2>3, <2>4, <2>5, <2>6 DEF Warehouse
<1>3. ASSUME NEW q \in Requests, Sales(q) PROVE PairInv'
  <2>1. CASE OpenMine(q)
    <3>1. [row EXCEPT !.acked = FALSE] \in Row /\ Together([row EXCEPT !.acked = FALSE])
      BY <1>r DEF Row, Together, Halves
    <3>2. Paired(Set(SalesSnapshot, [row EXCEPT !.acked = FALSE]))
      BY <3>1, SetPaired DEF SalesSnapshot, Fields
    <3>3. LET new == [Idle EXCEPT !.op = "sales", !.step = "page",
                        !.undo = Set(SalesSnapshot, [row EXCEPT !.acked = FALSE])]
          IN Paired(new.write) /\ Paired(new.undo)
      BY <1>i, <3>2 DEF Idle
    <3> QED
      BY <1>l, <2>1, <3>3 DEF OpenMine
  <2>2. ASSUME NEW n \in 1 .. Ordered, PlanCancel(q, n) PROVE PairInv'
    <3>1. Paired(Set(CancelFields(row, n), WithCancelled(row, n)))
      BY <1>r, <2>2, CancelPaired DEF PlanCancel
    <3>2. LET new == [req[q] EXCEPT !.step = "planned",
                        !.write = Set(CancelFields(row, n), WithCancelled(row, n))]
          IN Paired(new.write) /\ Paired(new.undo)
      BY <1>t, <3>1 DEF Request
    <3> QED
      BY <1>l, <2>2, <3>2 DEF PlanCancel
  <2>3. ASSUME NEW new, Paired(new.write), Paired(new.undo), Together(row'),
               req' = [req EXCEPT ![q] = new]
        PROVE  PairInv'
    BY <1>w, <2>3
  <2>4. LET new == [req[q] EXCEPT !.step = "written", !.write = Nothing]
        IN /\ Paired(new.write) /\ Paired(new.undo)
           /\ [req EXCEPT ![q].step = "written", ![q].write = Nothing]
                = [req EXCEPT ![q] = new]
    BY <1>t, <1>i DEF Request, TypeOK
  <2>5. CASE WriteCancel(q)
    <3>1. Together(row')
      BY <1>t, <1>r, <2>5, SendPair DEF WriteCancel, SendNothing
    <3> QED
      BY <1>i, <2>3, <2>4, <2>5, <3>1 DEF WriteCancel, End
  <2>6. ASSUME NEW op \in {"pickup", "dismiss"}, ReadAck(q, op) PROVE PairInv'
    <3>1. [NewRow EXCEPT !.acked = TRUE] \in Row
      BY <1>r DEF Row
    <3>2. /\ Paired(Set({"acked"}, [NewRow EXCEPT !.acked = TRUE]))
          /\ Paired(Set({"acked"}, NewRow))
      BY <1>r, <1>s, <3>1
    <3>3. LET new == [Idle EXCEPT !.op = op, !.step = "planned",
                        !.write = Set({"acked"}, [NewRow EXCEPT !.acked = TRUE]),
                        !.undo = Set({"acked"}, NewRow)]
          IN Paired(new.write) /\ Paired(new.undo)
      BY <1>i, <3>2 DEF Idle
    <3> QED
      BY <1>l, <2>6, <3>3 DEF ReadAck
  <2>7. CASE ReadShelf(q)
    <3>1. [NewRow EXCEPT !.acked = TRUE] \in Row
      BY <1>r DEF Row
    <3>2. Paired(Set({"acked"}, [NewRow EXCEPT !.acked = TRUE]))
      BY <1>s, <3>1
    <3>3. LET new == [Idle EXCEPT !.op = "shelf", !.step = "planned",
                        !.write = Set({"acked"}, [NewRow EXCEPT !.acked = TRUE])]
          IN Paired(new.write) /\ Paired(new.undo)
      BY <1>i, <3>2 DEF Idle
    <3> QED
      BY <1>l, <2>7, <3>3 DEF ReadShelf
  <2>8. CASE WriteAck(q)
    <3>1. Together(row')
      BY <1>t, <1>r, <2>8, SendPair DEF WriteAck, SendNothing
    <3> QED
      BY <1>i, <2>3, <2>4, <2>8, <3>1 DEF WriteAck, End
  <2> QED
    BY <1>3, <2>1, <2>2, <2>5, <2>6, <2>7, <2>8 DEF Sales
<1>4. ASSUME NEW q \in Requests, Decision(q) PROVE PairInv'
  <2>1. CASE ReadDecision(q)
    <3>1. [NewRow EXCEPT !.disposed = TRUE] \in Row
          /\ [NewRow EXCEPT !.disposed = TRUE].disposed
      BY <1>r DEF Row, NewRow
    <3>2. Paired(Set({"disposed"}, [NewRow EXCEPT !.disposed = TRUE]))
      BY <3>1, SetPaired DEF Fields
    <3>3. LET new == [Idle EXCEPT !.op = "decide", !.step = "planned",
                        !.write = Set({"disposed"}, [NewRow EXCEPT !.disposed = TRUE])]
          IN Paired(new.write) /\ Paired(new.undo)
      BY <1>i, <3>2 DEF Idle
    <3> QED
      BY <1>l, <2>1, <3>3 DEF ReadDecision
  <2>2. CASE WriteDecision(q)
    <3>1. Together(row')
      BY <1>t, <1>r, <2>2, SendPair DEF WriteDecision, SendNothing
    <3> QED
      BY <1>i, <1>w, <2>2, <3>1 DEF WriteDecision, End
  <2>3. CASE ReadSettle(q)
    <3>1. LET new == [Idle EXCEPT !.op = "settle", !.step = "planned"]
          IN Paired(new.write) /\ Paired(new.undo)
      BY <1>i DEF Idle
    <3> QED
      BY <1>l, <2>3, <3>1 DEF ReadSettle
  <2>4. CASE WriteSettle(q)
    <3>1. CASE row.settled
      <4>1. row' = row
        BY <2>4, <3>1 DEF WriteSettle, SendNothing
      <4> QED
        BY <1>i, <1>r, <1>w, <2>4, <4>1 DEF WriteSettle, End
    <3>2. CASE ~row.settled
      <4>1. Together(row)'
        BY <2>4, <3>2, SettlePair
      <4>2. ASSUME NEW p \in Requests
            PROVE  Paired(req'[p].write) /\ Paired(req'[p].undo)
        BY <1>i, <1>t, <2>4 DEF WriteSettle, End, TypeOK
      <4> QED
        BY <1>h, <4>1, <4>2 DEF PairInv, Paired
    <3> QED
      BY <3>1, <3>2
  <2> QED
    BY <1>4, <2>1, <2>2, <2>3, <2>4 DEF Decision
<1>5. ASSUME NEW q \in Requests, Undo(q) PROVE PairInv'
  <2>1. Together(row')
    BY <1>t, <1>5, SendPair DEF Undo
  <2> QED
    BY <1>i, <1>w, <1>5, <2>1 DEF Undo, End
<1>6. ASSUME NEW q \in Requests, GiveUp(q) PROVE PairInv'
  BY <1>i, <1>r, <1>w, <1>6 DEF GiveUp, End
<1>7. CASE Purge \/ UNCHANGED vars
  BY <1>7 DEF Purge, vars, history, PairInv, Together, Paired
<1> QED
  BY <1>1, <1>2, <1>3, <1>4, <1>5, <1>6, <1>7 DEF Next, Gone

\* However requests and undos overlap, a row never has half of a withdrawal: the
\* runs of TLC stop one step after the first overlap, this holds of any number.
THEOREM NeverHalfWithdrawn == Spec => []WrittenTogether
<1>1. Init => PairInv
  BY IdlePaired DEF Init, PairInv, Together, Halves, NewRow
<1>2. PairInv => WrittenTogether
  BY DEF PairInv, WrittenTogether, Together
<1>3. KnowledgeInv => KnowInv
  BY DEF KnowledgeInv
<1> QED
  BY <1>1, <1>2, <1>3, TypeCorrect, KnowledgeInit, KnowledgeStep, PairStep, PTL DEF Spec

-----------------------------------------------------------------------------
(* Withdrawn orders stay withdrawn.                                        *)

\* A column an update does not set keeps its value.
LEMMA MergeKeeps ==
  ASSUME NEW r, NEW u
  PROVE  /\ "status" \notin u.fields => Merge(r, u).status = r.status
         /\ "settled" \notin u.fields => Merge(r, u).settled = r.settled
BY DEF Merge

\* The step Withdrawn(row) -> ~Withdrawn(row'), if any, is that of a fresh undo.
StaysOrUndone ==
  Withdrawn(row) /\ ~Withdrawn(row')
    => \/ overlapped'
       \/ \E q \in Requests :
            req[q].step = "written" /\ req'[q].step = "idle" /\ "undo" \in fresh[q]

LEMMA BoardStays ==
  ASSUME TypeOK, KnowledgeInv, NEW q \in Requests, Board(q)
  PROVE  StaysOrUndone
<1>t. /\ row \in Row /\ req[q].write \in Update /\ req[q].before \in Statuses
  BY DEF TypeOK, Request
<1>k. /\ Formed(req[q]) /\ Knows(req[q], fresh[q], row)
      /\ ~overlapped => Sound(row)
  BY DEF KnowledgeInv, FormInv, KnowInv, SoundInv
<1>1. CASE WriteBoard(q)
  <2>1. /\ Send(q, req[q].write, {"write"}, {"undo", "write"})
        /\ req[q].op = "board" /\ req[q].step = "planned"
    BY <1>1 DEF WriteBoard, At
  <2>2. ASSUME ~overlapped', row' # row
        PROVE  ~Withdrawn(row)
    <3>1. ~overlapped /\ "write" \in fresh[q]
      BY <2>1, <2>2 DEF Send
    <3>2. row.status = "Nowe" /\ Sound(row)
      BY <1>k, <2>1, <3>1 DEF Knows, Expects
    <3> QED
      BY <3>2 DEF Sound, Withdrawn
  <2> QED
    BY <2>2 DEF StaysOrUndone
<1>2. CASE Rollback(q)
  <2> DEFINE u == RollbackUpdate(req[q].before)
  <2>1. /\ Send(q, u, {"write"}, {}) /\ req[q].write.to.status = "Zamowione"
        /\ req[q].op = "board" /\ req[q].step = "placed"
    BY <1>2 DEF Rollback, At
  <2>2. "settled" \notin u.fields
    BY <1>t, MergeRollback
  <2> HIDE DEF u
  <2>3. ASSUME ~overlapped', row' # row, Withdrawn(row)
        PROVE  Withdrawn(row')
    <3>1. "write" \in fresh[q] /\ row' = Merge(row, u)
      BY <2>1, <2>3 DEF Send
    <3>2. row.status = "Zamowione"
      BY <1>k, <2>1, <3>1 DEF Knows, Expects
    <3> QED
      BY <2>2, <2>3, <3>1, <3>2, MergeKeeps DEF Withdrawn
  <2> QED
    BY <2>3 DEF StaysOrUndone
<1>3. CASE CancelOrder(q)
  <2> DEFINE s == [row EXCEPT !.status = "Anulowane"]
  <2>1. s \in Row /\ s.status = "Anulowane"
    BY <1>t DEF Row, Statuses
  <2> HIDE DEF s
  <2>2. row' = Merge(row, Set({"status"}, s))
    BY <1>3 DEF CancelOrder, Send, s
  <2>3. {"status"} \in SUBSET Fields
    BY DEF Fields
  <2>4. row'.status = "Anulowane"
    BY <1>t, <2>1, <2>2, <2>3, MergeSet
  <2> QED
    BY <2>4 DEF StaysOrUndone, Withdrawn
<1>4. CASE CaptureBoard(q) \/ CheckBoard(q) \/ Skip(q) \/ FinishBoard(q)
  <2>1. row' = row
    BY <1>4 DEF CaptureBoard, CheckBoard, Skip, FinishBoard, Learn
  <2> QED
    BY <2>1 DEF StaysOrUndone
<1>5. ASSUME NEW status \in Statuses, SnapshotBoard(q, status) PROVE StaysOrUndone
  <2>1. row' = row
    BY <1>5 DEF SnapshotBoard, Learn
  <2> QED
    BY <2>1 DEF StaysOrUndone
<1> QED
  BY <1>1, <1>2, <1>3, <1>4, <1>5 DEF Board

LEMMA WarehouseStays ==
  ASSUME TypeOK, KnowledgeInv, NEW q \in Requests, Warehouse(q)
  PROVE  StaysOrUndone
<1>t. row \in Row
  BY DEF TypeOK
<1>k. /\ Knows(req[q], fresh[q], row) /\ Formed(req[q])
      /\ ~overlapped => Sound(row)
  BY DEF KnowledgeInv, FormInv, KnowInv, SoundInv
<1>1. CASE WriteDelivery(q)
  <2>1. /\ Send(q, req[q].write, {"page", "write"}, {"undo"})
        /\ req[q].op = "receive"
    BY <1>1 DEF WriteDelivery, At
  <2>2. ASSUME ~overlapped', row' # row
        PROVE  ~Withdrawn(row)
    <3>1. ~overlapped /\ "page" \in fresh[q]
      BY <2>1, <2>2 DEF Send
    <3>2. InReceiveQueue(row) /\ Sound(row)
      BY <1>k, <2>1, <3>1 DEF Knows
    <3> QED
      BY <1>t, <3>2, InQueueFacts DEF Withdrawn
  <2> QED
    BY <2>2 DEF StaysOrUndone
<1>2. CASE WriteRevert(q)
  <2>1. ASSUME ~overlapped', row' # row
        PROVE  ~Withdrawn(row)
    <3>1. RevertMatches(row) /\ ~overlapped
      BY <1>2, <2>1 DEF WriteRevert, Send, SendNothing
    <3> QED
      BY <1>k, <3>1 DEF RevertMatches, Revertible, Sound, Withdrawn
  <2> QED
    BY <2>1 DEF StaysOrUndone
<1>3. CASE OpenQueue(q) \/ CaptureDelivery(q) \/ ReadRevert(q)
  <2>1. row' = row
    BY <1>3 DEF OpenQueue, CaptureDelivery, ReadRevert, Learn
  <2> QED
    BY <2>1 DEF StaysOrUndone
<1>4. ASSUME NEW n \in 0 .. Ordered, ReadDelivery(q, n) PROVE StaysOrUndone
  <2>1. row' = row
    BY <1>4 DEF ReadDelivery, Learn
  <2> QED
    BY <2>1 DEF StaysOrUndone
<1> QED
  BY <1>1, <1>2, <1>3, <1>4 DEF Warehouse

LEMMA SalesStays ==
  ASSUME TypeOK, KnowledgeInv, NEW q \in Requests, Sales(q)
  PROVE  StaysOrUndone
<1>t. /\ row \in Row
  BY DEF TypeOK
<1>k. /\ Knows(req[q], fresh[q], row) /\ Formed(req[q])
      /\ ~overlapped => Sound(row)
  BY DEF KnowledgeInv, FormInv, KnowInv, SoundInv
<1>1. CASE WriteCancel(q)
  <2>1. ASSUME ~overlapped', row' # row, Withdrawn(row)
        PROVE  Withdrawn(row')
    <3>1. /\ req[q].op = "sales" /\ req[q].step = "planned"
          /\ row' = Merge(row, req[q].write)
          /\ ~overlapped /\ "write" \in fresh[q]
      BY <1>1, <2>1 DEF WriteCancel, At, Send, SendNothing
    <3>2. Sound(row) /\ Expects(req[q], row)
      BY <1>k, <3>1 DEF Knows
    <3>3. PICK n \in 1 .. Ordered :
            /\ n <= MaxCancel(row)
            /\ req[q].write = Set(CancelFields(row, n), WithCancelled(row, n))
      BY <3>1, <3>2 DEF Expects, Planned
    <3>4. row' = WithCancelled(row, n)
      BY <1>t, <3>1, <3>3, MergeCancelled
    <3>5. row.status # "Anulowane"
      BY <1>t, <3>2, <3>3, CancelFacts
    <3>6. row'.settled = (row.settled \/ SettlesItself(row, n))
      BY <1>t, <3>2, <3>3, <3>4, WithCancelledFields
    <3> QED
      BY <2>1, <3>5, <3>6 DEF Withdrawn
  <2> QED
    BY <2>1 DEF StaysOrUndone
<1>2. CASE WriteAck(q)
  <2>1. ASSUME row' # row PROVE Withdrawn(row') <=> Withdrawn(row)
    <3>1. row' = Merge(row, AckUpdate)
      BY <1>2, <1>k, <2>1 DEF WriteAck, Formed, Send, SendNothing
    <3>2. AckUpdate.fields = {"acked"}
      BY <1>t, MergeAck
    <3> QED
      BY <3>1, <3>2, MergeKeeps DEF Withdrawn
  <2> QED
    BY <2>1 DEF StaysOrUndone
<1>3. CASE OpenMine(q) \/ ReadShelf(q)
  <2>1. row' = row
    BY <1>3 DEF OpenMine, ReadShelf, Learn
  <2> QED
    BY <2>1 DEF StaysOrUndone
<1>4. ASSUME NEW n \in 1 .. Ordered, PlanCancel(q, n) PROVE StaysOrUndone
  <2>1. row' = row
    BY <1>4 DEF PlanCancel, Learn
  <2> QED
    BY <2>1 DEF StaysOrUndone
<1>5. ASSUME NEW op \in {"pickup", "dismiss"}, ReadAck(q, op) PROVE StaysOrUndone
  <2>1. row' = row
    BY <1>5 DEF ReadAck, Learn
  <2> QED
    BY <2>1 DEF StaysOrUndone
<1> QED
  BY <1>1, <1>2, <1>3, <1>4, <1>5 DEF Sales

LEMMA DecisionStays ==
  ASSUME TypeOK, KnowledgeInv, NEW q \in Requests, Decision(q)
  PROVE  StaysOrUndone
<1>1. ASSUME row' # row PROVE Withdrawn(row) => Withdrawn(row')
  <2>1. row' \in {Merge(row, DecideUpdate), Merge(row, SettleUpdate)}
    BY <1>1 DEF Decision, ReadDecision, Learn, WriteDecision, At, SendNothing, Send,
                ReadSettle, WriteSettle, KnowledgeInv, FormInv, Formed
  <2>2. row \in Row
    BY DEF TypeOK
  <2>3. /\ [row EXCEPT !.disposed = TRUE].status = row.status
        /\ [row EXCEPT !.disposed = TRUE].settled = row.settled
        /\ [row EXCEPT !.settled = TRUE].settled
    BY <2>2 DEF Row
  <2> QED
    BY <2>1, <2>2, <2>3, MergeDecide, MergeSettle DEF Withdrawn
<1> QED
  BY <1>1 DEF StaysOrUndone

LEMMA StaysStep == TypeOK /\ KnowledgeInv /\ [Next]_vars => StaysOrUndone
<1> SUFFICES ASSUME TypeOK, KnowledgeInv, [Next]_vars PROVE StaysOrUndone
  OBVIOUS
<1>1. ASSUME NEW q \in Requests, Undo(q) PROVE StaysOrUndone
  <2>1. /\ req[q].step = "written" /\ req'[q] = Idle
        /\ Send(q, req[q].undo, {"undo"}, {})
    BY <1>1 DEF Undo, End, TypeOK
  <2>2. req'[q].step = "idle"
    BY <2>1 DEF Idle
  <2>3. row' # row /\ ~overlapped' => "undo" \in fresh[q]
    BY <2>1 DEF Send
  <2> QED
    BY <2>1, <2>2, <2>3 DEF StaysOrUndone
<1>2. ASSUME NEW q \in Requests, GiveUp(q) PROVE StaysOrUndone
  BY <1>2 DEF GiveUp, StaysOrUndone
<1>3. CASE Purge \/ UNCHANGED vars
  BY <1>3 DEF Purge, vars, StaysOrUndone
<1> QED
  BY <1>1, <1>2, <1>3, BoardStays, WarehouseStays, SalesStays, DecisionStays
     DEF Next, Gone

\* No receipt, board request, skipped row of one, revert or rollback of any number
\* of requests brings a cancelled or wholly withdrawn order back to life, unless it
\* writes on an outdated read: only an undo that nobody has come in between does.
THEOREM StaysWithdrawn == Spec => WithdrawnStaysWithdrawn
<1>1. TypeOK /\ KnowledgeInv /\ [Next]_vars =>
        [Withdrawn(row) /\ ~Withdrawn(row')
           => \/ overlapped'
              \/ \E q \in Requests :
                   /\ req[q].step = "written" /\ req'[q].step = "idle"
                   /\ "undo" \in fresh[q]]_vars
  BY StaysStep DEF StaysOrUndone
<1> QED
  BY <1>1, KnowledgeInit, KnowledgeStep, TypeCorrect, PTL DEF Spec, WithdrawnStaysWithdrawn

=============================================================================
