--------------------------- MODULE IndividualOrders ---------------------------
(***************************************************************************)
(* One row of individual_orders and the server actions that change it: the *)
(* purchasing board (actionProcessIndividual), receipts of the warehouse   *)
(* (actionUpdateDelivered, actionRevertToPending), withdrawals and         *)
(* acknowledgements of the salesperson (my-orders.ts), the settlement of   *)
(* withdrawn goods, the undo of each of them, and the purge of old rows.   *)
(*                                                                         *)
(* No action holds a lock or a transaction.  A request reads the row, works*)
(* out an UPDATE and sends it, and the row may change in between; an undo  *)
(* payload carries old values of some columns to the browser and back.     *)
(* Batches handle their rows one after the other, so one row is enough;    *)
(* other rows of a batch show in Skip and Rollback only.                   *)
(*                                                                         *)
(* An update is a record [fields, to]: the columns it sets, and a row that *)
(* has their values.                                                       *)
(***************************************************************************)
EXTENDS SalesCancel

CONSTANT Requests   \* requests (and, later, their undo payloads) at one time

VARIABLES
  row,          \* the row; its last values once it is purged
  purged,       \* the row has been deleted
  \* each request: what it does and how far it is; the UPDATE it is going to
  \* send, its undo payload, and the status rollbackIndividualOrderProcess-
  \* Snapshots would restore
  req,
  \* history: what each request knows of the row that is still so: the page it
  \* was made on, the values in its undo payload, the read behind its UPDATE
  fresh,
  \* history: a request has changed the row on the ground of outdated knowledge
  overlapped,
  \* history: withdrawn goods were settled on an outdated read
  hasty,
  \* history: the delivered quantity when the row was last acknowledged
  seen

history == <<fresh, overlapped, hasty, seen>>
vars == <<row, purged, req, history>>

Fields == {"status", "delivered", "cancelled", "qty", "phase", "acked",
           "disposed", "settled"}

Row == [status : Statuses, delivered : 0 .. Ordered, cancelled : BOOLEAN,
        qty : 0 .. Ordered - 1, phase : Phases \cup {"none"}, acked : BOOLEAN,
        disposed : BOOLEAN, settled : BOOLEAN]

NewRow == [status |-> "Nowe", delivered |-> 0, cancelled |-> FALSE, qty |-> 0,
           phase |-> "none", acked |-> FALSE, disposed |-> FALSE, settled |-> FALSE]

\* UPDATE individual_orders SET u.fields: row r after it.
Merge(r, u) ==
  [status |-> IF "status" \in u.fields THEN u.to.status ELSE r.status,
   delivered |-> IF "delivered" \in u.fields THEN u.to.delivered ELSE r.delivered,
   cancelled |-> IF "cancelled" \in u.fields THEN u.to.cancelled ELSE r.cancelled,
   qty |-> IF "qty" \in u.fields THEN u.to.qty ELSE r.qty,
   phase |-> IF "phase" \in u.fields THEN u.to.phase ELSE r.phase,
   acked |-> IF "acked" \in u.fields THEN u.to.acked ELSE r.acked,
   disposed |-> IF "disposed" \in u.fields THEN u.to.disposed ELSE r.disposed,
   settled |-> IF "settled" \in u.fields THEN u.to.settled ELSE r.settled]

\* The update that sets these fields to their values in r.
Set(fields, r) ==
  [fields |-> fields, to |-> Merge(NewRow, [fields |-> fields, to |-> r])]

Nothing == Set({}, NewRow)
Update == [fields : SUBSET Fields, to : Row]

Ops == {"board", "receive", "revert", "sales", "pickup", "dismiss", "shelf", "decide",
        "settle"}
Steps == {"idle", "page", "captured", "checked", "planned", "placed", "written"}
Idle == [op |-> "board", step |-> "idle", write |-> Nothing, undo |-> Nothing,
         before |-> "Nowe"]

Request == [op : Ops, step : Steps, write : Update, undo : Update, before : Statuses]

TypeOK ==
  /\ row \in Row /\ purged \in BOOLEAN
  /\ req \in [Requests -> Request]
  /\ fresh \in [Requests -> SUBSET {"page", "undo", "write"}]
  /\ overlapped \in BOOLEAN /\ hasty \in BOOLEAN
  /\ seen \in 0 .. Ordered

Init ==
  /\ row = NewRow /\ purged = FALSE
  /\ req = [q \in Requests |-> Idle]
  /\ fresh = [q \in Requests |-> {}]
  /\ overlapped = FALSE /\ hasty = FALSE /\ seen = 0

At(q, op, step) == req[q].op = op /\ req[q].step = step

-----------------------------------------------------------------------------
(* Writing.                                                                *)

\* Request q sends update u; whoever knew the row otherwise does not know it now.
Send(q, u, basis, kept) ==
  LET changes == Merge(row, u) # row
      late == changes /\ ~(basis \subseteq fresh[q])
  IN /\ ~purged /\ UNCHANGED purged
     /\ row' = Merge(row, u)
     /\ fresh' = [p \in Requests |-> IF p = q THEN fresh[q] \cap kept
                                     ELSE IF changes THEN {} ELSE fresh[p]]
     /\ overlapped' = (overlapped \/ late)
     /\ hasty' = (hasty \/ (late /\ req[q].op = "settle"))
     /\ seen' = IF ~row.acked /\ Merge(row, u).acked THEN row.delivered ELSE seen

\* Nothing matches the WHERE clause.
SendNothing == UNCHANGED <<row, purged, history>>

\* What a request has read or shown, and what of it counts from now on.
Learn(q, new, known) ==
  /\ ~purged
  /\ req' = [req EXCEPT ![q] = new]
  /\ fresh' = [fresh EXCEPT ![q] = known]
  /\ UNCHANGED <<row, purged, overlapped, hasty, seen>>

End(q) == req' = [req EXCEPT ![q] = Idle]

-----------------------------------------------------------------------------
(* The board of the purchasing department.                                 *)

\* actionProcessIndividual: captureIndividualOrdersSnapshot of all requested rows.
CaptureBoard(q) ==
  /\ req[q].step = "idle"
  /\ Learn(q, [Idle EXCEPT !.op = "board", !.step = "captured",
                           !.undo = Set({"status"}, row)], {"undo"})

\* Mutant: rows that were cancelled meanwhile are taken, too.
ProcessableAgain(r) == r.status \in {"Nowe", "Anulowane"}

\* processIndividualFromSummary reads the rows and takes the new ones.
Processable(r) == r.status = "Nowe"

CheckBoard(q) ==
  /\ At(q, "board", "captured") /\ Processable(row)
  /\ Learn(q, [req[q] EXCEPT !.step = "checked"], fresh[q] \cup {"write"})

\* The row is not among them, others are: the undo payload has it all the same.
Skip(q) ==
  /\ At(q, "board", "captured") /\ ~Processable(row)
  /\ Learn(q, [req[q] EXCEPT !.step = "written"], fresh[q])

\* captureIndividualOrderProcessSnapshots; then the row is ordered, or cancelled.
SnapshotBoard(q, status) ==
  /\ At(q, "board", "checked") /\ status \in {"Zamowione", "Anulowane"}
  /\ Learn(q, [req[q] EXCEPT !.step = "planned", !.before = row.status,
                             !.write = Set({"status"}, [row EXCEPT !.status = status])],
           fresh[q])

\* Its UPDATE has no condition but the id.
WriteBoard(q) ==
  /\ At(q, "board", "planned")
  /\ Send(q, req[q].write, {"write"}, {"undo", "write"})
  /\ req' = [req EXCEPT ![q].step = "placed"]

\* The rest of the request succeeds: the browser gets the undo payload.
FinishBoard(q) ==
  /\ At(q, "board", "placed")
  /\ Learn(q, [req[q] EXCEPT !.step = "written", !.write = Nothing, !.before = "Nowe"],
           fresh[q] \ {"write"})

RollbackUpdate(status) == Set({"status"}, [NewRow EXCEPT !.status = status])

\* markStandardOrdered fails: rollbackIndividualOrderProcessSnapshots.
Rollback(q) ==
  /\ At(q, "board", "placed") /\ req[q].write.to.status = "Zamowione"
  /\ Send(q, RollbackUpdate(req[q].before), {"write"}, {})
  /\ End(q)

\* cancelIndividualOrder: one conditional UPDATE.
CancelOrder(q) ==
  /\ req[q].step = "idle" /\ row.status = "Nowe" /\ ~row.cancelled
  /\ Send(q, Set({"status"}, [row EXCEPT !.status = "Anulowane"]), {}, {})
  /\ UNCHANGED req

-----------------------------------------------------------------------------
(* The warehouse.                                                          *)

\* The row is on the page of the receive queue.
OpenQueue(q) ==
  /\ req[q].step = "idle" /\ InReceiveQueue(row)
  /\ Learn(q, [Idle EXCEPT !.op = "receive", !.step = "page"], {"page"})

\* captureDeliverySnapshot
DeliverySnapshot == {"delivered", "status"}

CaptureDelivery(q) ==
  /\ At(q, "receive", "page")
  /\ Learn(q, [req[q] EXCEPT !.step = "captured", !.undo = Set(DeliverySnapshot, row)],
           fresh[q] \cup {"undo"})

\* applyDeliveredQuantityUpdate reads the row, checks the quantity, not the status.
ReadDelivery(q, n) ==
  /\ At(q, "receive", "captured")
  /\ ReceiveLimit(row) > 0 => n <= ReceiveLimit(row)
  /\ Learn(q, [req[q] EXCEPT !.step = "planned",
                 !.write = Set(DeliveryFields(row, n), WithDelivered(row, n))],
           fresh[q] \cup {"write"})

WriteDelivery(q) ==
  /\ At(q, "receive", "planned")
  /\ Send(q, req[q].write, {"page", "write"}, {"undo"})
  /\ req' = [req EXCEPT ![q].step = "written", ![q].write = Nothing]

\* The condition of actionRevertToPending on the row it reads.
Revertible(r) ==
  r.status \in {"Zrealizowane", "Czesciowo_zrealizowane"} /\ ~r.cancelled

RevertUpdate ==
  Set({"status", "delivered", "acked"}, [NewRow EXCEPT !.status = "Zamowione"])

ReadRevert(q) ==
  /\ req[q].step = "idle" /\ Revertible(row)
  /\ Learn(q, [Idle EXCEPT !.op = "revert", !.step = "planned",
                           !.write = RevertUpdate], {})

\* Mutant: the UPDATE has no condition but the id.
RevertById(r) == TRUE

\* The WHERE clause repeats the condition ("Guard na status"), so an old read does
\* no harm to the row.
RevertMatches(r) == Revertible(r)

WriteRevert(q) ==
  /\ At(q, "revert", "planned")
  /\ IF RevertMatches(row) THEN Send(q, req[q].write, {}, {}) ELSE SendNothing
  /\ End(q)

-----------------------------------------------------------------------------
(* The salesperson.                                                        *)

\* Mutant: the phase of the withdrawal is not restored.
SalesSnapshotNoPhase == {"cancelled", "qty", "status", "disposed", "settled", "acked"}

\* salesCancelUndoRestoreSnapshot, of the row on the page of the salesperson;
\* buildSalesCancelUndoUpdate also takes the acknowledgement away.
SalesSnapshot == {"cancelled", "qty", "phase", "status", "disposed", "settled", "acked"}

OpenMine(q) ==
  /\ req[q].step = "idle" /\ CancelPhase(row) # "none"
  /\ Learn(q, [Idle EXCEPT !.op = "sales", !.step = "page",
                 !.undo = Set(SalesSnapshot, [row EXCEPT !.acked = FALSE])],
           {"page", "undo"})

\* actionSalesCancelOrders reads the row and plans the withdrawal of n pieces.
PlanCancel(q, n) ==
  /\ At(q, "sales", "page")
  /\ n \in 1 .. MaxCancel(row)
  /\ Learn(q, [req[q] EXCEPT !.step = "planned",
                 !.write = Set(CancelFields(row, n), WithCancelled(row, n))],
           fresh[q] \cup {"write"})

\* It loses against an acknowledgement, and tells so.
WriteCancel(q) ==
  /\ At(q, "sales", "planned")
  /\ IF row.acked THEN SendNothing /\ End(q)
     ELSE /\ Send(q, req[q].write, {"write"}, {"undo"})
          /\ req' = [req EXCEPT ![q].step = "written", ![q].write = Nothing]

\* acknowledgeOrdersWithClient reads the row for the pickup of goods, or to put a
\* cancelled order or the notice of a withdrawal out of sight.
ReadAck(q, op) ==
  /\ req[q].step = "idle" /\ ~row.acked
  /\ \/ op = "pickup" /\ row.status = "Zrealizowane"
     \/ op = "dismiss" /\ (row.status = "Anulowane" \/ NoticePending(row))
  /\ Learn(q, [Idle EXCEPT !.op = op, !.step = "planned",
                 !.write = Set({"acked"}, [NewRow EXCEPT !.acked = TRUE]),
                 !.undo = Set({"acked"}, NewRow)], {"undo", "write"})

\* autoAcknowledgeStaleWarehouseInventory reads a row that has been on the shelf
\* for 21 days; actionClearFromShelf is sent from a page that shows it there.
ReadShelf(q) ==
  /\ req[q].step = "idle" /\ OnShelf(row)
  /\ Learn(q, [Idle EXCEPT !.op = "shelf", !.step = "planned",
                 !.write = Set({"acked"}, [NewRow EXCEPT !.acked = TRUE])], {"write"})

\* Only the first acknowledgement counts; those of the salesperson can be undone.
WriteAck(q) ==
  /\ req[q].op \in {"pickup", "dismiss", "shelf"} /\ req[q].step = "planned"
  /\ IF row.acked THEN SendNothing /\ End(q)
     ELSE /\ Send(q, req[q].write, {"write"}, {"undo"})
          /\ IF req[q].op = "shelf" THEN End(q)
             ELSE req' = [req EXCEPT ![q].step = "written", ![q].write = Nothing]

-----------------------------------------------------------------------------
(* What becomes of withdrawn goods.                                        *)

\* actionSetProcurementCancelDisposition reads too few columns to see that part of
\* the order is still on its way (isSalesCancelledForQueue).
ReadDecision(q) ==
  /\ req[q].step = "idle"
  /\ row.cancelled /\ ~row.disposed /\ row.phase \in {"in_transit", "on_stock"}
  /\ Learn(q, [Idle EXCEPT !.op = "decide", !.step = "planned",
                 !.write = Set({"disposed"}, [NewRow EXCEPT !.disposed = TRUE])],
           {"write"})

WriteDecision(q) ==
  /\ At(q, "decide", "planned")
  /\ IF row.disposed THEN SendNothing ELSE Send(q, req[q].write, {"write"}, {})
  /\ End(q)

\* canAcknowledgeWarehouseCancelDisposition: purchasing has decided, nothing is
\* wanted any more, and withdrawn goods that were on their way have come.
Settleable(r) ==
  /\ r.cancelled /\ r.disposed /\ ~r.settled
  /\ r.phase \in {"in_transit", "on_stock"} /\ ~HasActiveFulfillment(r)
  /\ r.phase = "in_transit" => r.delivered >= Cancelled(r)

\* actionAcknowledgeWarehouseCancelDisposition
ReadSettle(q) ==
  /\ req[q].step = "idle" /\ Settleable(row)
  /\ Learn(q, [Idle EXCEPT !.op = "settle", !.step = "planned"], {"write"})

SettleUpdate == Set({"settled"}, [NewRow EXCEPT !.settled = TRUE])

\* Its UPDATE repeats one of the conditions only.
WriteSettle(q) ==
  /\ At(q, "settle", "planned")
  /\ IF row.settled THEN SendNothing ELSE Send(q, SettleUpdate, {"write"}, {})
  /\ End(q)

-----------------------------------------------------------------------------
(* Undoing.                                                                *)

\* actionUndoDailyPanelChange and actionUndoDelivery write their snapshot back by
\* id; actionUnacknowledgeSalesCancel, -Pickup and -Dismiss look at the row first.
UndoAllowed(op) ==
  CASE op \in {"board", "receive"} -> TRUE
    [] op = "sales" -> row.cancelled \/ (row.acked /\ row.status = "Anulowane")
    [] op = "pickup" -> row.acked /\ row.status = "Zrealizowane"
    [] OTHER -> row.acked /\ (row.cancelled \/ row.status = "Anulowane")

Undo(q) ==
  /\ req[q].step = "written" /\ UndoAllowed(req[q].op)
  /\ Send(q, req[q].undo, {"undo"}, {})
  /\ End(q)

\* A request fails or its server dies, a page is left, an undo payload expires.
GiveUp(q) ==
  /\ req[q].step # "idle"
  /\ End(q)
  /\ fresh' = [fresh EXCEPT ![q] = {}]
  /\ UNCHANGED <<row, purged, overlapped, hasty, seen>>

-----------------------------------------------------------------------------

\* purgeDataRetention deletes complete and cancelled orders that were entered three
\* months ago (action_at), wherever they are shown.
Purge ==
  /\ ~purged /\ row.status \in {"Zrealizowane", "Anulowane"}
  /\ purged' = TRUE
  /\ UNCHANGED <<row, req, history>>

\* Requests find nothing from then on (Learn, Send): all they can do is GiveUp.
Gone == purged /\ UNCHANGED vars

Board(q) ==
  \/ CaptureBoard(q) \/ CheckBoard(q) \/ Skip(q)
  \/ \E status \in Statuses : SnapshotBoard(q, status)
  \/ WriteBoard(q) \/ FinishBoard(q) \/ Rollback(q) \/ CancelOrder(q)

Warehouse(q) ==
  \/ OpenQueue(q) \/ CaptureDelivery(q)
  \/ \E n \in 0 .. Ordered : ReadDelivery(q, n)
  \/ WriteDelivery(q) \/ ReadRevert(q) \/ WriteRevert(q)

Sales(q) ==
  \/ OpenMine(q)
  \/ \E n \in 1 .. Ordered : PlanCancel(q, n)
  \/ WriteCancel(q)
  \/ \E op \in {"pickup", "dismiss"} : ReadAck(q, op)
  \/ ReadShelf(q) \/ WriteAck(q)

Decision(q) ==
  ReadDecision(q) \/ WriteDecision(q) \/ ReadSettle(q) \/ WriteSettle(q)

Next ==
  \/ \E q \in Requests :
       Board(q) \/ Warehouse(q) \/ Sales(q) \/ Decision(q) \/ Undo(q) \/ GiveUp(q)
  \/ Purge \/ Gone

Spec == Init /\ [][Next]_vars

-----------------------------------------------------------------------------
(* Properties.                                                             *)

\* The status tells what has been delivered of what is still wanted.
StatusFits(r) ==
  /\ r.status \in {"Nowe", "Zamowione", "Anulowane"} => r.delivered = 0
  /\ r.status = "Czesciowo_zrealizowane" => r.delivered \in 1 .. Active(r) - 1
  /\ r.status = "Zrealizowane" => r.delivered > 0 /\ r.delivered >= Active(r)

\* As long as no request writes on the ground of something it read before another
\* one wrote, status and quantities agree, through any sequence of orders, partial
\* receipts, corrections, partial withdrawals, undos, rollbacks and reverts.  The
\* statuses are computed in six places (planSalesCancelQuantity,
\* applyDeliveredQuantityUpdate, the board, its rollback, the undos, the revert).
Coherent == ~overlapped => StatusFits(row)

\* Somebody has the order on a page of theirs: the board, the receive queue or the
\* pickups of the salesperson.
Shown(r) == r.status = "Nowe" \/ InReceiveQueue(r) \/ AwaitsPickup(r)

\* Nobody needs to: cancelled, or acknowledged when complete or settled.
Over(r) ==
  r.status = "Anulowane" \/ (r.acked /\ (r.settled \/ r.status = "Zrealizowane"))

\* No order falls between the pages, each of which has a filter of its own
\* (fetchDeliveryQueue, mergeReceiveQueueOrders, isAwaitingSalesPickup, ...),
\* whatever was withdrawn, received, settled, undone or reverted before; only the
\* purge may take it from a page.
NotForgotten == ~overlapped /\ ~purged => Shown(row) \/ Over(row)

Withdrawn(r) == r.status = "Anulowane" \/ r.settled

\* A cancelled or settled order comes back to life only when the request that made
\* it so is undone and nobody has touched the order since; no receipt,
\* board request, skipped row of one, revert or rollback brings it back, unless it
\* writes on the ground of an outdated read.
WithdrawnStaysWithdrawn ==
  [][Withdrawn(row) /\ ~Withdrawn(row')
       => \/ overlapped'
          \/ \E q \in Requests :
               /\ req[q].step = "written" /\ req'[q].step = "idle"
               /\ "undo" \in fresh[q]]_vars

\* sales_cancel_phase goes with sales_cancelled_at, and so does the quantity.
Halves(r) ==
  /\ r.cancelled <=> r.phase # "none"
  /\ r.qty > 0 => r.cancelled

\* The columns of a withdrawal are set and restored together, even by requests and
\* undos that overlap: the phase (every reader of the row relies on it) comes and
\* goes with sales_cancelled_at.  And nothing is settled that purchasing has not
\* decided on, unless a settlement was written after the decision it had read was
\* undone together with the withdrawal; no other overlap does that.
WrittenTogether ==
  /\ Halves(row)
  /\ row.settled => row.disposed \/ hasty

\* What applyDeliveredQuantityUpdate says of goods that come after an
\* acknowledgement ("reszta towaru musi wrocic do odbioru"): a complete order with
\* more than the acknowledged quantity is up for pickup.
GoodsReturnToPickup ==
  ~overlapped /\ ~row.cancelled /\ row.status = "Zrealizowane" /\ row.delivered > seen
    => ~row.acked

=============================================================================
