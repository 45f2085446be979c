----------------------------- MODULE SalesCancel -----------------------------
(***************************************************************************)
(* src/lib/orders/sales-cancel.ts and its neighbours: what a row of        *)
(* individual_orders says about an ordinary order ("zamowienie", not teeth,*)
(* with a numeric quantity): how much of it is still wanted, what the      *)
(* salesperson may withdraw and what a withdrawal or a receipt writes.     *)
(* No state and no steps here; IndividualOrders has them.                  *)
(*                                                                         *)
(* A row is a record:                                                      *)
(*   status, delivered    status, delivered_quantity ("" and "-" are 0)    *)
(*   cancelled            sales_cancelled_at is set                        *)
(*   qty                  sales_cancelled_quantity (0: NULL)               *)
(*   phase                sales_cancel_phase ("none": NULL)                *)
(*   acked                sales_acknowledged_at is set                     *)
(*   disposed, settled    procurement_cancel_disposition and               *)
(*                        warehouse_cancel_fulfilled_at are set            *)
(* Its quantity never changes here: CONSTANT Ordered.                      *)
(***************************************************************************)
EXTENDS Integers

CONSTANT Ordered   \* quantity: how many pieces the row asks for

ASSUME OrderedAssumption == Ordered \in Nat \ {0}

Statuses == {"Nowe", "Zamowione", "Czesciowo_zrealizowane", "Zrealizowane", "Anulowane"}
Phases == {"before_order", "in_transit", "on_stock"}

NonNegative(n) == IF n > 0 THEN n ELSE 0

-----------------------------------------------------------------------------
(* Quantities.                                                             *)

\* effectiveSalesCancelledQuantity: a withdrawal without a stored quantity took
\* everything that had not come.
Cancelled(r) ==
  IF ~r.cancelled THEN 0
  ELSE IF r.qty > 0 THEN r.qty
  ELSE IF r.status = "Anulowane" THEN Ordered
  ELSE NonNegative(Ordered - r.delivered)

\* activeOrderQuantity
Active(r) == NonNegative(Ordered - Cancelled(r))

\* maxSupplierCancelQuantity, and getOrderFulfillmentProgress().supplierRemaining
AtSupplier(r) == NonNegative(Ordered - r.delivered - Cancelled(r))
SupplierRemaining(r) == NonNegative(Active(r) - r.delivered)

\* hasActiveSupplierFulfillment
HasActiveFulfillment(r) == SupplierRemaining(r) > 0

-----------------------------------------------------------------------------
(* What the salesperson may withdraw.                                      *)

\* orderCancelFulfillmentIsOnStock
IsOnStock(r) ==
  \/ r.status = "Zrealizowane"
  \/ r.status = "Czesciowo_zrealizowane" /\ r.delivered > 0

\* remainingCancelQuantity, of a row with a withdrawal
Remaining(r) ==
  IF IsOnStock(r) \/ r.phase = "on_stock" THEN Active(r) ELSE AtSupplier(r)

\* resolveSalesCancelPhase
CancelPhase(r) ==
  IF r.acked \/ r.status = "Anulowane" \/ (r.cancelled /\ Remaining(r) = 0)
  THEN "none"
  ELSE CASE r.status = "Nowe" -> "before_order"
         [] r.status = "Zrealizowane" -> IF Active(r) > 0 THEN "on_stock" ELSE "none"
         [] OTHER -> IF IsOnStock(r) THEN "on_stock" ELSE "in_transit"

\* maxSalesCancelQuantity (0: null)
MaxCancel(r) ==
  CASE CancelPhase(r) = "none" -> 0
    [] CancelPhase(r) = "on_stock" -> Active(r)
    [] OTHER -> AtSupplier(r)

-----------------------------------------------------------------------------
(* What the row says to the people who look at it.                         *)

\* isPendingSalesPickupAfterPartialCancel
PickupAfterPartialCancel(r) ==
  /\ r.status = "Zrealizowane" /\ ~r.acked
  /\ r.cancelled /\ Cancelled(r) > 0
  /\ r.delivered > 0 /\ r.delivered >= Active(r)

\* isAwaitingSalesPickup: goods the salesperson is to collect.
AwaitsPickup(r) ==
  /\ r.status = "Zrealizowane" /\ ~r.acked
  /\ r.cancelled => PickupAfterPartialCancel(r)

\* isSalesCancelNoticePending
NoticePending(r) ==
  /\ r.cancelled /\ ~r.acked
  /\ ~PickupAfterPartialCancel(r)
  /\ HasActiveFulfillment(r) => r.status = "Anulowane"
  /\ r.phase \in {"in_transit", "on_stock"}

\* classifyOnShelf
OnShelf(r) == ~r.acked /\ ~r.cancelled /\ IsOnStock(r)

\* fetchDeliveryQueue and mergeReceiveQueueOrders: the rows the warehouse receives.
InReceiveQueue(r) ==
  /\ r.status \in {"Zamowione", "Czesciowo_zrealizowane"}
  /\ r.cancelled => ~r.settled /\ HasActiveFulfillment(r)

-----------------------------------------------------------------------------
(* What operations write.                                                  *)

\* planSalesCancelQuantity: n more pieces decide on the status (statusAfter).
PlansStatus(r, n) ==
  LET total == Cancelled(r) + n
  IN \/ CancelPhase(r) = "before_order" /\ total >= Ordered
     \/ r.delivered > 0 /\ r.delivered >= Ordered - total

\* The status it then has: the order is cancelled, or all that is wanted has come.
PlannedStatus(r, n) ==
  IF ~PlansStatus(r, n) THEN r.status
  ELSE IF CancelPhase(r) = "before_order" /\ Cancelled(r) + n >= Ordered
  THEN "Anulowane" ELSE "Zrealizowane"

\* planSalesCancelQuantity: keepLineActiveForSales
KeepsLine(r, n) ==
  LET total == Cancelled(r) + n
  IN /\ total < Ordered
     /\ \/ Ordered - total > r.delivered
        \/ r.delivered > 0 /\ PlannedStatus(r, n) = "Zrealizowane"

\* mergeAutoFulfillCancelDisposition: purchasing need not decide, the warehouse need
\* not settle.
SettlesItself(r, n) ==
  ~KeepsLine(r, n) /\ CancelPhase(r) \in {"in_transit", "on_stock"}

\* Mutant: the quantity of a full withdrawal is stored like that of a partial one.
StoredAlways(total) == total

\* planSalesCancelQuantity: storedCancelledQuantity, NULL when all is withdrawn.
StoredQuantity(total) == IF total >= Ordered THEN 0 ELSE total

\* buildSalesCancelUpdate and mergeSalesCancelUserAutoAck: the row with n more
\* pieces withdrawn.
WithCancelled(r, n) ==
  LET total == Cancelled(r) + n
      after == [r EXCEPT !.cancelled = TRUE,
                         !.phase = CancelPhase(r),
                         !.qty = StoredQuantity(total),
                         !.status = PlannedStatus(r, n)]
  IN [after EXCEPT !.acked = ~KeepsLine(r, n) \/ NoticePending(after),
                   !.disposed = @ \/ SettlesItself(r, n),
                   !.settled = @ \/ SettlesItself(r, n)]

\* The columns that update sets.
CancelFields(r, n) ==
  {"cancelled", "phase", "qty"}
  \cup (IF PlansStatus(r, n) THEN {"status"} ELSE {})
  \cup (IF WithCancelled(r, n).acked THEN {"acked"} ELSE {})
  \cup (IF SettlesItself(r, n) THEN {"disposed", "settled"} ELSE {})

\* applyDeliveredQuantityUpdate: goods of a withdrawn order are received up to
\* the withdrawn quantity, others up to what is still wanted.
ReceivesWithdrawn(r) ==
  r.cancelled /\ r.disposed /\ Cancelled(r) > 0 /\ Active(r) = 0
ReceiveLimit(r) == IF ReceivesWithdrawn(r) THEN Cancelled(r) ELSE Active(r)

\* Mutant: what was withdrawn is still expected.
ExpectedInFull(r) == Ordered

\* The quantity the new status is measured by: if nothing is wanted and nothing
\* is decided, the code compares with the whole quantity and checks no limit.
Expected(r) == IF ReceiveLimit(r) > 0 THEN ReceiveLimit(r) ELSE Ordered

\* resolveStatusFromDeliveredQuantity
StatusFromDelivered(expected, n) ==
  CASE n = 0 -> "Zamowione"
    [] n >= expected -> "Zrealizowane"
    [] OTHER -> "Czesciowo_zrealizowane"

\* completesPartialDelivery
CompletesPartial(before, after) ==
  before = "Czesciowo_zrealizowane" /\ after = "Zrealizowane"

\* applyDeliveredQuantityUpdate: the row with n pieces received in all.
WithDelivered(r, n) ==
  LET status == StatusFromDelivered(Expected(r), n)
  IN [r EXCEPT !.delivered = IF status = "Zrealizowane" THEN Expected(r) ELSE n,
               !.status = status,
               !.acked = @ /\ ~(CompletesPartial(r.status, status) /\ ~r.cancelled)]

\* The columns that update sets.
DeliveryFields(r, n) ==
  {"delivered", "status"}
  \cup (IF r.acked /\ ~WithDelivered(r, n).acked THEN {"acked"} ELSE {})

=============================================================================
