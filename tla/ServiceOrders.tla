----------------------------- MODULE ServiceOrders -----------------------------
(***************************************************************************)
(* Service orders and the loaner units that clients have meanwhile:        *)
(* src/lib/data/service-orders.ts and service-loaners.ts.                  *)
(*                                                                         *)
(* Unlike the rest of the program these are transactions on locked rows    *)
(* (SELECT ... FOR UPDATE, READ COMMITTED).  A transaction locks the row of*)
(* its order or of its unit, looks at it, and commits; what others do to   *)
(* rows it has not locked comes in between.  That matters where the two    *)
(* tables meet: linking a unit reads it without a lock, and a return looks *)
(* for the orders that are linked.  The UPDATE of a linking waits for the  *)
(* lock of the unit, which the foreign key wants to share.                 *)
(*                                                                         *)
(* Abstracted: the parts of an order are counted; the waiting part is there*)
(* just when the status is czeka_na_czesc.  Left out are columns no guard  *)
(* reads: invoice, notes, dates, the client; the numbers of new orders and *)
(* the catalogues of parts and warranties.                                 *)
(***************************************************************************)
EXTENDS Integers

CONSTANTS
  Orders, Units,
  Transactions,      \* at one time
  NoOrder, NoUnit,   \* NULL
  MaxParts           \* bound: parts taken for an order

ASSUME ServiceOrdersAssumption ==
  NoOrder \notin Orders /\ NoUnit \notin Units /\ MaxParts \in Nat

VARIABLES
  status,    \* orders: status ("none": not accepted yet)
  loaner,    \* orders: loaner_unit_id
  parts,     \* orders: rows of service_order_parts
  rw,        \* orders: rw_number is set
  unit,      \* units: status ("none": not in the pool yet)
  tx,        \* transactions
  \* history: issued minus returned of each unit (service_loaner_events)
  lent,
  \* history: the parts of an order when its RW was entered
  booked,
  \* history: units linked though they were not out, or not free, any more; until
  \* they are returned
  outdated

orders == <<status, loaner, parts, rw, booked>>
units == <<unit, lent>>
vars == <<orders, units, tx, outdated>>

Statuses == {"przyjete", "diagnoza", "w_naprawie", "czeka_na_czesc", "gotowe",
             "wydane", "anulowane"}
Closed == {"wydane", "anulowane"}

Transitions(s) ==
  CASE s = "przyjete" -> {"diagnoza", "w_naprawie", "anulowane"}
    [] s = "diagnoza" ->
         {"w_naprawie", "czeka_na_czesc", "gotowe", "przyjete", "anulowane"}
    [] s = "w_naprawie" -> {"czeka_na_czesc", "gotowe", "diagnoza", "anulowane"}
    [] s = "czeka_na_czesc" -> {"w_naprawie", "anulowane"}
    [] s = "gotowe" -> {"wydane", "w_naprawie"}
    [] OTHER -> {}

UnitStatuses == {"na_stanie", "u_klienta", "przeglad", "wycofany"}

\* A transaction on an order does one of OrderOps (a status is where it moves to),
\* one on a unit one of UnitOps.
OrderOps == Statuses \cup {"take", "give back", "rw", "link", "unlink"}
UnitOps == {"issue", "return", "extend", "service start", "service end", "retire"}

\* "locked": it has its row and has found it fit; linking, it has then seen the unit
\* out ("seen") and linked to no other order ("free"); returning, it unlinks the
\* orders it has found, and has locked some of them.
Request == [op : OrderOps \cup UnitOps,
            step : {"idle", "locked", "seen", "free", "unlink"},
            order : Orders \cup {NoOrder}, unit : Units \cup {NoUnit},
            found : SUBSET Orders, unlinked : SUBSET Orders]

Task(op, step, o, u) == [op |-> op, step |-> step, order |-> o, unit |-> u,
                         found |-> {}, unlinked |-> {}]
Idle == Task("rw", "idle", NoOrder, NoUnit)

TypeOK ==
  /\ status \in [Orders -> Statuses \cup {"none"}]
  /\ loaner \in [Orders -> Units \cup {NoUnit}]
  /\ parts \in [Orders -> Nat] /\ booked \in [Orders -> Nat]
  /\ rw \in [Orders -> BOOLEAN]
  /\ unit \in [Units -> UnitStatuses \cup {"none"}] /\ lent \in [Units -> Int]
  /\ tx \in [Transactions -> Request]
  /\ outdated \subseteq Units

Init ==
  /\ status = [o \in Orders |-> "none"] /\ loaner = [o \in Orders |-> NoUnit]
  /\ parts = [o \in Orders |-> 0] /\ booked = [o \in Orders |-> 0]
  /\ rw = [o \in Orders |-> FALSE]
  /\ unit = [u \in Units |-> "none"] /\ lent = [u \in Units |-> 0]
  /\ tx = [t \in Transactions |-> Idle]
  /\ outdated = {}

-----------------------------------------------------------------------------
(* Locks, held until the transaction ends.                                 *)

HasOrder(t, o) == tx[t].step # "idle" /\ (tx[t].order = o \/ o \in tx[t].unlinked)
HasUnit(t, u) == tx[t].step # "idle" /\ tx[t].op \in UnitOps /\ tx[t].unit = u

\* Mutants: SELECT without FOR UPDATE.
OrderFreeAlways(o) == TRUE
UnitFreeAlways(u) == TRUE

\* lockOrder and lockUnit do not have to wait.
OrderFree(o) == \A t \in Transactions : ~HasOrder(t, o)
UnitFree(u) == \A t \in Transactions : ~HasUnit(t, u)

At(t, op, step) == tx[t].op = op /\ tx[t].step = step
Goto(t, step) == tx' = [tx EXCEPT ![t].step = step]
End(t) == tx' = [tx EXCEPT ![t] = Idle]

-----------------------------------------------------------------------------
(* Transactions on an order.                                               *)

InsertServiceOrder(o) ==
  /\ status[o] = "none"
  /\ status' = [status EXCEPT ![o] = "przyjete"]
  /\ UNCHANGED <<loaner, parts, rw, booked, units, tx, outdated>>

\* What each of them asks of the row it has locked.
Fit(op, o) ==
  \/ op \in Transitions(status[o])
  \/ op = "take" /\ ~rw[o] /\ status[o] \notin {"none", "anulowane"}
  \/ op = "give back" /\ ~rw[o] /\ parts[o] > 0
  \/ op = "rw" /\ ~rw[o] /\ parts[o] > 0 /\ status[o] \in Closed \cup {"gotowe"}
  \/ op = "unlink" /\ loaner[o] # NoUnit

Lock(t, op, o) ==
  /\ tx[t].step = "idle" /\ OrderFree(o) /\ Fit(op, o)
  /\ tx' = [tx EXCEPT ![t] = Task(op, "locked", o, NoUnit)]
  /\ UNCHANGED <<orders, units, outdated>>

\* moveServiceOrder and, to "czeka_na_czesc", waitForServicePart.
MoveServiceOrder(t) ==
  /\ tx[t].op \in Statuses /\ tx[t].step = "locked"
  /\ status' = [status EXCEPT ![tx[t].order] = tx[t].op]
  /\ End(t)
  /\ UNCHANGED <<loaner, parts, rw, booked, units, outdated>>

TakePart(t) ==
  /\ At(t, "take", "locked") /\ parts[tx[t].order] < MaxParts
  /\ parts' = [parts EXCEPT ![tx[t].order] = @ + 1]
  /\ End(t)
  /\ UNCHANGED <<status, loaner, rw, booked, units, outdated>>

ReturnPart(t) ==
  /\ At(t, "give back", "locked")
  /\ parts' = [parts EXCEPT ![tx[t].order] = @ - 1]
  /\ End(t)
  /\ UNCHANGED <<status, loaner, rw, booked, units, outdated>>

SetRw(t) ==
  LET o == tx[t].order
  IN /\ At(t, "rw", "locked")
     /\ rw' = [rw EXCEPT ![o] = TRUE]
     /\ booked' = [booked EXCEPT ![o] = parts[o]]
     /\ End(t)
     /\ UNCHANGED <<status, loaner, parts, units, outdated>>

Unlink(t) ==
  /\ At(t, "unlink", "locked")
  /\ loaner' = [loaner EXCEPT ![tx[t].order] = NoUnit]
  /\ End(t)
  /\ UNCHANGED <<status, parts, rw, booked, units, outdated>>

-----------------------------------------------------------------------------
(* linkServiceOrderLoaner: unit u for order o.                             *)

LockToLink(t, o, u) ==
  /\ tx[t].step = "idle" /\ OrderFree(o)
  /\ status[o] \notin Closed \cup {"none"} /\ loaner[o] # u
  /\ tx' = [tx EXCEPT ![t] = Task("link", "locked", o, u)]
  /\ UNCHANGED <<orders, units, outdated>>

\* The unit is read without a lock, ...
CheckUnit(t) ==
  /\ At(t, "link", "locked") /\ unit[tx[t].unit] = "u_klienta"
  /\ Goto(t, "seen")
  /\ UNCHANGED <<orders, units, outdated>>

Taken(u, o) == \E p \in Orders \ {o} : loaner[p] = u

\* ... and so are the other orders.
CheckTaken(t) ==
  /\ At(t, "link", "seen") /\ ~Taken(tx[t].unit, tx[t].order)
  /\ Goto(t, "free")
  /\ UNCHANGED <<orders, units, outdated>>

\* The UPDATE, with the FOR KEY SHARE of the foreign key, and the commit.
Link(t) ==
  LET o == tx[t].order
      u == tx[t].unit
  IN /\ At(t, "link", "free") /\ UnitFree(u)
     /\ loaner' = [loaner EXCEPT ![o] = u]
     /\ outdated' = IF unit[u] # "u_klienta" \/ Taken(u, o)
                    THEN outdated \cup {u} ELSE outdated
     /\ End(t)
     /\ UNCHANGED <<status, parts, rw, booked, units>>

-----------------------------------------------------------------------------
(* Transactions on a unit.                                                 *)

InsertLoanerUnit(u) ==
  /\ unit[u] = "none"
  /\ unit' = [unit EXCEPT ![u] = "na_stanie"]
  /\ UNCHANGED <<orders, tx, lent, outdated>>

UnitFit(op, u) ==
  \/ op \in {"issue", "service start"} /\ unit[u] = "na_stanie"
  \/ op \in {"return", "extend"} /\ unit[u] = "u_klienta"
  \/ op = "service end" /\ unit[u] = "przeglad"
  \/ op = "retire" /\ unit[u] \in {"na_stanie", "przeglad"}

LockUnit(t, op, u) ==
  /\ tx[t].step = "idle" /\ UnitFree(u) /\ UnitFit(op, u)
  /\ tx' = [tx EXCEPT ![t] = Task(op, "locked", NoOrder, u)]
  /\ UNCHANGED <<orders, units, outdated>>

Issue(t) ==
  LET u == tx[t].unit
  IN /\ At(t, "issue", "locked")
     /\ unit' = [unit EXCEPT ![u] = "u_klienta"]
     /\ lent' = [lent EXCEPT ![u] = @ + 1]
     /\ End(t)
     /\ UNCHANGED <<orders, outdated>>

Becomes(op) ==
  CASE op = "service start" -> "przeglad"
    [] op = "retire" -> "wycofany"
    [] op = "extend" -> "u_klienta"
    [] OTHER -> "na_stanie"

SetUnit(t) ==
  /\ tx[t].op \in {"extend", "service start", "service end", "retire"}
  /\ tx[t].step = "locked"
  /\ unit' = [unit EXCEPT ![tx[t].unit] = Becomes(tx[t].op)]
  /\ End(t)
  /\ UNCHANGED <<orders, lent, outdated>>

LinkedTo(u) == {o \in Orders : loaner[o] = u}

\* Mutant: closed orders keep their loaner.
FindOpenLinked(t) ==
  /\ At(t, "return", "locked")
  /\ tx' = [tx EXCEPT ![t] = [Task("return", "unlink", NoOrder, tx[t].unit) EXCEPT
                               !.found = {o \in LinkedTo(tx[t].unit) :
                                            status[o] \notin Closed}]]
  /\ UNCHANGED <<orders, units, outdated>>

\* returnLoanerUnit: the UPDATE that unlinks goes by the rows as it finds them ...
FindLinked(t) ==
  /\ At(t, "return", "locked")
  /\ tx' = [tx EXCEPT ![t] = [Task("return", "unlink", NoOrder, tx[t].unit)
                               EXCEPT !.found = LinkedTo(tx[t].unit)]]
  /\ UNCHANGED <<orders, units, outdated>>

\* ... waits for each one that is locked, and then looks at it again.
UnlinkFound(t, o) ==
  /\ At(t, "return", "unlink") /\ o \in tx[t].found \ tx[t].unlinked
  /\ OrderFree(o)
  /\ tx' = IF loaner[o] = tx[t].unit
           THEN [tx EXCEPT ![t].unlinked = @ \cup {o}]
           ELSE [tx EXCEPT ![t].found = @ \ {o}]
  /\ UNCHANGED <<orders, units, outdated>>

Return(t, needsService) ==
  LET u == tx[t].unit
  IN /\ At(t, "return", "unlink") /\ tx[t].unlinked = tx[t].found
     /\ unit' = [unit EXCEPT ![u] = IF needsService THEN "przeglad" ELSE "na_stanie"]
     /\ lent' = [lent EXCEPT ![u] = @ - 1]
     /\ loaner' = [o \in Orders |-> IF o \in tx[t].found THEN NoUnit ELSE loaner[o]]
     /\ outdated' = outdated \ {u}
     /\ End(t)
     /\ UNCHANGED <<status, parts, rw, booked>>

-----------------------------------------------------------------------------
\* A refusal, an error, a death, or the end of a circle of locks: ROLLBACK.
Rollback(t) ==
  /\ tx[t].step # "idle"
  /\ End(t)
  /\ UNCHANGED <<orders, units, outdated>>

OnOrder(t) ==
  \/ MoveServiceOrder(t) \/ TakePart(t) \/ ReturnPart(t) \/ SetRw(t) \/ Unlink(t)
  \/ CheckUnit(t) \/ CheckTaken(t) \/ Link(t)

OnUnit(t) ==
  \/ Issue(t) \/ SetUnit(t) \/ FindLinked(t)
  \/ \E o \in Orders : UnlinkFound(t, o)
  \/ \E needsService \in BOOLEAN : Return(t, needsService)

Begin(t) ==
  \/ \E op \in OrderOps, o \in Orders : Lock(t, op, o)
  \/ \E o \in Orders, u \in Units : LockToLink(t, o, u)
  \/ \E op \in UnitOps, u \in Units : LockUnit(t, op, u)

Next ==
  \/ \E t \in Transactions : Begin(t) \/ OnOrder(t) \/ OnUnit(t) \/ Rollback(t)
  \/ \E o \in Orders : InsertServiceOrder(o)
  \/ \E u \in Units : InsertLoanerUnit(u)

Spec == Init /\ [][Next]_vars

-----------------------------------------------------------------------------
\* The RW of an order is for the parts that the order has: none is taken or given
\* back after it, also not by a request that looked at the order before
\* (takeServiceOrderPart, returnServiceOrderPart, setServiceOrderRw).
RwIsForItsParts == \A o \in Orders : rw[o] => parts[o] = booked[o] /\ booked[o] > 0

\* A unit is with one client at most: its history says of a unit that is out that it
\* was issued once more than returned, and of any other, as often.
LentOnce == \A u \in Units : lent[u] = IF unit[u] = "u_klienta" THEN 1 ELSE 0

\* A linked unit is out, and belongs to one order, as long as nobody has linked it on
\* the ground of what was no longer so; its return clears up even then.
LinksAreTrue ==
  \A u \in Units \ outdated :
    /\ LinkedTo(u) # {} => unit[u] = "u_klienta"
    /\ \A o, p \in LinkedTo(u) : o = p
=============================================================================
