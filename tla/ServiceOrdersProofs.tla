-------------------------- MODULE ServiceOrdersProofs --------------------------
(***************************************************************************)
(* Proofs about ServiceOrders for any orders, units and transactions.      *)
(***************************************************************************)
EXTENDS ServiceOrders, TLAPS

\* A row is locked by one transaction at most.
LockInv ==
  \A t, p \in Transactions :
    /\ \A o \in Orders : HasOrder(t, o) /\ HasOrder(p, o) => t = p
    /\ \A u \in Units : HasUnit(t, u) /\ HasUnit(p, u) => t = p

\* What a transaction has found of the row it has locked is still so.
Sound(t) ==
  \/ tx[t].step = "idle"
  \/ /\ tx[t].op \in OrderOps \ {"link"} /\ tx[t].step = "locked"
     /\ tx[t].order \in Orders /\ Fit(tx[t].op, tx[t].order)
  \/ /\ tx[t].op = "link" /\ tx[t].step \in {"locked", "seen", "free"}
     /\ tx[t].order \in Orders /\ tx[t].unit \in Units
  \/ /\ tx[t].op \in UnitOps /\ tx[t].step \in {"locked", "unlink"}
     /\ tx[t].unit \in Units /\ UnitFit(tx[t].op, tx[t].unit)
     /\ tx[t].step = "unlink" => LinkedTo(tx[t].unit) \subseteq tx[t].found

FitInv == \A t \in Transactions : Sound(t)

IInv == TypeOK /\ LockInv /\ FitInv

LEMMA TransitionsAreStatuses == \A s : Transitions(s) \subseteq Statuses
BY DEF Transitions, Statuses

LEMMA Outcomes ==
  /\ Becomes("extend") = "u_klienta"
  /\ \A op \in {"service start", "service end", "retire"} : Becomes(op) # "u_klienta"
BY DEF Becomes

LEMMA OpsDiffer == OrderOps \cap UnitOps = {}
BY DEF OrderOps, UnitOps, Statuses

-----------------------------------------------------------------------------
(* Types.                                                                  *)

LEMMA IdleTyped == Idle \in Request
BY DEF Idle, Task, Request, OrderOps

LEMMA InvInit == ASSUME Init PROVE IInv
<1>1. TypeOK
  BY IdleTyped DEF Init, TypeOK
<1>2. \A t \in Transactions : tx[t].step = "idle"
  BY DEF Init, Idle, Task
<1>. QED BY <1>1, <1>2 DEF IInv, LockInv, FitInv, Sound, HasOrder, HasUnit

\* What a transaction can become.
LEMMA EndTyped ==
  ASSUME TypeOK, NEW t \in Transactions, End(t)
  PROVE  tx' \in [Transactions -> Request]
BY IdleTyped DEF End, TypeOK

LEMMA GotoTyped ==
  ASSUME TypeOK, NEW t \in Transactions, NEW s \in {"seen", "free"}, Goto(t, s)
  PROVE  tx' \in [Transactions -> Request]
BY DEF Goto, TypeOK, Request

LEMMA UnlinkedTyped ==
  ASSUME NEW r \in Request, NEW s \in SUBSET Orders
  PROVE  [r EXCEPT !.unlinked = s] \in Request /\ [r EXCEPT !.found = s] \in Request
BY DEF Request

\* What a transaction under way knows of the row it has locked.
LEMMA Locked ==
  ASSUME FitInv, NEW t \in Transactions, tx[t].step # "idle"
  PROVE  /\ tx[t].op \in OrderOps => tx[t].order \in Orders
         /\ tx[t].op \in OrderOps \ {"link"} => Fit(tx[t].op, tx[t].order)
         /\ tx[t].op \in UnitOps \cup {"link"} => tx[t].unit \in Units
         /\ tx[t].op \in UnitOps => UnitFit(tx[t].op, tx[t].unit)
<1>1. Sound(t) BY DEF FitInv
<1>2. "link" \in OrderOps BY DEF OrderOps
<1>. QED BY <1>1, <1>2, OpsDiffer DEF Sound

\* What it asks of an order for its parts.
LEMMA FitForParts ==
  ASSUME NEW o
  PROVE  /\ Fit("take", o) => ~rw[o]
         /\ Fit("give back", o) => ~rw[o] /\ parts[o] > 0
         /\ Fit("rw", o) => parts[o] > 0
         /\ ~Fit("link", o)
<1>1. {"take", "give back", "rw", "link"} \cap Statuses = {}
  BY DEF Statuses
<1>2. \A op \in {"take", "give back", "rw", "link"} : op \notin Transitions(status[o])
  BY <1>1, TransitionsAreStatuses
<1>. QED BY <1>2 DEF Fit

LEMMA OrderTypeStep ==
  ASSUME IInv, NEW t \in Transactions, OnOrder(t)
  PROVE  TypeOK'
<1>. USE DEF IInv
<1>1. CASE MoveServiceOrder(t)
  <2>1. End(t) BY <1>1 DEF MoveServiceOrder
  <2>2. status' \in [Orders -> Statuses \cup {"none"}]
    BY <1>1 DEF MoveServiceOrder, TypeOK
  <2>. QED BY <1>1, <2>1, <2>2, EndTyped DEF MoveServiceOrder, TypeOK, units
<1>2. CASE TakePart(t)
  <2>1. End(t) BY <1>2 DEF TakePart
  <2>2. tx[t].order \in Orders
    BY <1>2, Locked DEF TakePart, At, OrderOps
  <2>3. parts' \in [Orders -> Nat]
    BY <1>2, <2>2 DEF TakePart, TypeOK
  <2>. QED BY <1>2, <2>1, <2>3, EndTyped DEF TakePart, TypeOK, units
<1>3. CASE ReturnPart(t)
  <2>1. End(t) BY <1>3 DEF ReturnPart
  <2>2. tx[t].order \in Orders /\ Fit("give back", tx[t].order)
    BY <1>3, Locked DEF ReturnPart, At, OrderOps
  <2>3. parts[tx[t].order] \in Nat /\ parts[tx[t].order] > 0
    BY <2>2, FitForParts DEF TypeOK
  <2>4. parts[tx[t].order] - 1 \in Nat BY <2>3
  <2>5. parts' \in [Orders -> Nat]
    <3>. DEFINE n == parts[tx[t].order] - 1
    <3>1. parts' = [parts EXCEPT ![tx[t].order] = n] BY <1>3 DEF ReturnPart
    <3>2. n \in Nat /\ parts \in [Orders -> Nat] BY <2>4 DEF TypeOK
    <3>. HIDE DEF n
    <3>. QED BY <3>1, <3>2
  <2>. QED BY <1>3, <2>1, <2>5, EndTyped DEF ReturnPart, TypeOK, units
<1>4. CASE SetRw(t)
  <2>1. End(t) BY <1>4 DEF SetRw
  <2>2. rw' \in [Orders -> BOOLEAN] /\ booked' \in [Orders -> Nat]
    BY <1>4 DEF SetRw, TypeOK
  <2>. QED BY <1>4, <2>1, <2>2, EndTyped DEF SetRw, TypeOK, units
<1>5. CASE Unlink(t)
  <2>1. End(t) BY <1>5 DEF Unlink
  <2>2. loaner' \in [Orders -> Units \cup {NoUnit}]
    BY <1>5 DEF Unlink, TypeOK
  <2>. QED BY <1>5, <2>1, <2>2, EndTyped DEF Unlink, TypeOK, units
<1>6. CASE CheckUnit(t) \/ CheckTaken(t)
  <2>1. Goto(t, "seen") \/ Goto(t, "free") BY <1>6 DEF CheckUnit, CheckTaken
  <2>. QED
    BY <1>6, <2>1, GotoTyped DEF CheckUnit, CheckTaken, TypeOK, orders, units
<1>7. CASE Link(t)
  <2>1. End(t) BY <1>7 DEF Link
  <2>2. tx[t].unit \in Units
    BY <1>7, Locked DEF Link, At
  <2>3. loaner' \in [Orders -> Units \cup {NoUnit}] /\ outdated' \subseteq Units
    BY <1>7, <2>2 DEF Link, TypeOK
  <2>. QED BY <1>7, <2>1, <2>3, EndTyped DEF Link, TypeOK, units
<1>. QED BY <1>1, <1>2, <1>3, <1>4, <1>5, <1>6, <1>7 DEF OnOrder

LEMMA UnitTypeStep ==
  ASSUME IInv, NEW t \in Transactions, OnUnit(t)
  PROVE  TypeOK'
<1>. USE DEF IInv
<1>1. CASE Issue(t)
  <2>1. End(t) BY <1>1 DEF Issue
  <2>0. tx[t].unit \in Units BY <1>1, Locked DEF Issue, At, UnitOps
  <2>2. unit' \in [Units -> UnitStatuses \cup {"none"}] /\ lent' \in [Units -> Int]
    BY <1>1, <2>0 DEF Issue, TypeOK, UnitStatuses
  <2>. QED BY <1>1, <2>1, <2>2, EndTyped DEF Issue, TypeOK, orders
<1>2. CASE SetUnit(t)
  <2>1. End(t) BY <1>2 DEF SetUnit
  <2>2. Becomes(tx[t].op) \in UnitStatuses
    BY DEF Becomes, UnitStatuses
  <2>3. unit' \in [Units -> UnitStatuses \cup {"none"}]
    BY <1>2, <2>2 DEF SetUnit, TypeOK
  <2>. QED BY <1>2, <2>1, <2>3, EndTyped DEF SetUnit, TypeOK, orders
<1>3. CASE FindLinked(t)
  <2>1. LinkedTo(tx[t].unit) \subseteq Orders BY DEF LinkedTo
  <2>2. tx' \in [Transactions -> Request]
    BY <1>3, <2>1 DEF FindLinked, TypeOK, Request, Task, UnitOps
  <2>. QED BY <1>3, <2>2 DEF FindLinked, TypeOK, orders, units
<1>4. ASSUME NEW o \in Orders, UnlinkFound(t, o) PROVE TypeOK'
  <2>1. /\ tx[t] \in Request /\ tx[t].unlinked \cup {o} \in SUBSET Orders
        /\ tx[t].found \ {o} \in SUBSET Orders
    BY DEF TypeOK, Request
  <2>2. /\ [tx[t] EXCEPT !.unlinked = @ \cup {o}] \in Request
        /\ [tx[t] EXCEPT !.found = @ \ {o}] \in Request
    BY <2>1, UnlinkedTyped
  <2>3. \/ tx' = [tx EXCEPT ![t] = [tx[t] EXCEPT !.unlinked = @ \cup {o}]]
        \/ tx' = [tx EXCEPT ![t] = [tx[t] EXCEPT !.found = @ \ {o}]]
    BY <1>4 DEF UnlinkFound
  <2>4. tx' \in [Transactions -> Request]
    BY <2>2, <2>3 DEF TypeOK
  <2>. QED BY <1>4, <2>4 DEF UnlinkFound, TypeOK, orders, units
<1>5. ASSUME NEW needsService \in BOOLEAN, Return(t, needsService) PROVE TypeOK'
  <2>1. End(t) BY <1>5 DEF Return
  <2>0. tx[t].unit \in Units BY <1>5, Locked DEF Return, At, UnitOps
  <2>2. unit' \in [Units -> UnitStatuses \cup {"none"}] /\ lent' \in [Units -> Int]
    BY <1>5, <2>0 DEF Return, TypeOK, UnitStatuses
  <2>3. loaner' \in [Orders -> Units \cup {NoUnit}] /\ outdated' \subseteq Units
    BY <1>5 DEF Return, TypeOK
  <2>. QED BY <1>5, <2>1, <2>2, <2>3, EndTyped DEF Return, TypeOK
<1>. QED BY <1>1, <1>2, <1>3, <1>4, <1>5 DEF OnUnit

LEMMA BeginTypeStep ==
  ASSUME TypeOK, NEW t \in Transactions, Begin(t) \/ Rollback(t)
  PROVE  TypeOK'
<1>1. ASSUME NEW op \in OrderOps, NEW o \in Orders, Lock(t, op, o) PROVE TypeOK'
  <2>1. tx' \in [Transactions -> Request]
    BY <1>1 DEF Lock, TypeOK, Task, Request
  <2>. QED BY <1>1, <2>1 DEF Lock, TypeOK, orders, units
<1>2. ASSUME NEW o \in Orders, NEW u \in Units, LockToLink(t, o, u) PROVE TypeOK'
  <2>1. tx' \in [Transactions -> Request]
    BY <1>2 DEF LockToLink, TypeOK, Task, Request, OrderOps
  <2>. QED BY <1>2, <2>1 DEF LockToLink, TypeOK, orders, units
<1>3. ASSUME NEW op \in UnitOps, NEW u \in Units, LockUnit(t, op, u) PROVE TypeOK'
  <2>1. tx' \in [Transactions -> Request]
    BY <1>3 DEF LockUnit, TypeOK, Task, Request
  <2>. QED BY <1>3, <2>1 DEF LockUnit, TypeOK, orders, units
<1>4. CASE Rollback(t)
  BY <1>4, EndTyped DEF Rollback, TypeOK, orders, units
<1>. QED BY <1>1, <1>2, <1>3, <1>4 DEF Begin

LEMMA InsertTypeStep ==
  ASSUME TypeOK,
         (\E o \in Orders : InsertServiceOrder(o)) \/ (\E u \in Units : InsertLoanerUnit(u))
  PROVE  TypeOK'
<1>1. ASSUME NEW o \in Orders, InsertServiceOrder(o) PROVE TypeOK'
  <2>1. status' \in [Orders -> Statuses \cup {"none"}]
    BY <1>1 DEF InsertServiceOrder, TypeOK, Statuses
  <2>. QED BY <1>1, <2>1 DEF InsertServiceOrder, TypeOK, units
<1>2. ASSUME NEW u \in Units, InsertLoanerUnit(u) PROVE TypeOK'
  <2>1. unit' \in [Units -> UnitStatuses \cup {"none"}]
    BY <1>2 DEF InsertLoanerUnit, TypeOK, UnitStatuses
  <2>. QED BY <1>2, <2>1 DEF InsertLoanerUnit, TypeOK, orders
<1>. QED BY <1>1, <1>2

-----------------------------------------------------------------------------
(* Locks.                                                                  *)

\* A step takes no lock that another transaction has.
LEMMA LockStep ==
  ASSUME LockInv, NEW t \in Transactions,
         \A p \in Transactions \ {t} : tx'[p] = tx[p],
         \A o \in Orders : HasOrder(t, o)' => HasOrder(t, o) \/ OrderFree(o),
         \A u \in Units : HasUnit(t, u)' => HasUnit(t, u) \/ UnitFree(u)
  PROVE  LockInv'
<1>1. \A p \in Transactions \ {t} :
        /\ \A o \in Orders : HasOrder(p, o)' <=> HasOrder(p, o)
        /\ \A u \in Units : HasUnit(p, u)' <=> HasUnit(p, u)
  BY DEF HasOrder, HasUnit
<1>2. ASSUME NEW p \in Transactions, NEW q \in Transactions, NEW o \in Orders,
             HasOrder(p, o)', HasOrder(q, o)'
      PROVE  p = q
  BY <1>1, <1>2 DEF LockInv, OrderFree
<1>3. ASSUME NEW p \in Transactions, NEW q \in Transactions, NEW u \in Units,
             HasUnit(p, u)', HasUnit(q, u)'
      PROVE  p = q
  BY <1>1, <1>3 DEF LockInv, UnitFree
<1>. QED BY <1>2, <1>3 DEF LockInv

LEMMA Others ==
  ASSUME TypeOK, NEW t \in Transactions, NEW r, tx' = [tx EXCEPT ![t] = r]
  PROVE  tx'[t] = r /\ \A p \in Transactions \ {t} : tx'[p] = tx[p]
BY DEF TypeOK

LEMMA Ended ==
  ASSUME TypeOK, NEW t \in Transactions, End(t)
  PROVE  /\ tx'[t].step = "idle"
         /\ \A p \in Transactions \ {t} : tx'[p] = tx[p]
         /\ \A o \in Orders : ~HasOrder(t, o)'
         /\ \A u \in Units : ~HasUnit(t, u)'
<1>1. tx'[t] = Idle /\ \A p \in Transactions \ {t} : tx'[p] = tx[p]
  BY Others DEF End
<1>. QED BY <1>1 DEF Idle, Task, HasOrder, HasUnit

LEMMA GoneOn ==
  ASSUME TypeOK, NEW t \in Transactions, NEW s \in {"seen", "free"}, Goto(t, s)
  PROVE  /\ tx'[t].step = s /\ tx'[t].op = tx[t].op
         /\ tx'[t].order = tx[t].order /\ tx'[t].unit = tx[t].unit
         /\ tx'[t].unlinked = tx[t].unlinked
         /\ \A p \in Transactions \ {t} : tx'[p] = tx[p]
<1>1. tx[t] \in Request BY DEF TypeOK
<1>2. tx'[t] = [tx[t] EXCEPT !.step = s] /\ \A p \in Transactions \ {t} : tx'[p] = tx[p]
  BY DEF Goto, TypeOK
<1>. QED BY <1>1, <1>2 DEF Request

-----------------------------------------------------------------------------
(* What one transaction has found of a row that it has locked, no other    *)
(* changes.                                                                *)

LEMMA Undisturbed ==
  ASSUME NEW p \in Transactions, Sound(p), tx'[p] = tx[p],
         \A o \in Orders : HasOrder(p, o) =>
            /\ status'[o] = status[o] /\ loaner'[o] = loaner[o]
            /\ parts'[o] = parts[o] /\ rw'[o] = rw[o],
         \A u \in Units : HasUnit(p, u) =>
            unit'[u] = unit[u] /\ LinkedTo(u)' \subseteq LinkedTo(u)
  PROVE  Sound(p)'
<1>1. CASE tx[p].step = "idle"
  BY <1>1 DEF Sound
<1>2. CASE /\ tx[p].op \in OrderOps \ {"link"} /\ tx[p].step = "locked"
           /\ tx[p].order \in Orders /\ Fit(tx[p].op, tx[p].order)
  <2>1. HasOrder(p, tx[p].order) BY <1>2 DEF HasOrder
  <2>2. Fit(tx[p].op, tx[p].order)' BY <1>2, <2>1 DEF Fit
  <2>. QED BY <1>2, <2>2 DEF Sound
<1>3. CASE /\ tx[p].op = "link" /\ tx[p].step \in {"locked", "seen", "free"}
           /\ tx[p].order \in Orders /\ tx[p].unit \in Units
  BY <1>3 DEF Sound
<1>4. CASE /\ tx[p].op \in UnitOps /\ tx[p].step \in {"locked", "unlink"}
           /\ tx[p].unit \in Units /\ UnitFit(tx[p].op, tx[p].unit)
           /\ tx[p].step = "unlink" => LinkedTo(tx[p].unit) \subseteq tx[p].found
  <2>1. HasUnit(p, tx[p].unit) BY <1>4 DEF HasUnit
  <2>2. UnitFit(tx[p].op, tx[p].unit)' BY <1>4, <2>1 DEF UnitFit
  <2>3. tx[p].step = "unlink" => LinkedTo(tx[p].unit)' \subseteq tx[p].found
    BY <1>4, <2>1
  <2>. QED BY <1>4, <2>2, <2>3 DEF Sound
<1>. QED BY <1>1, <1>2, <1>3, <1>4 DEF Sound

\* A step of t that changes only what it has locked, and links no unit that another
\* has locked, leaves the others be.
LEMMA FitStep ==
  ASSUME LockInv, FitInv, NEW t \in Transactions,
         \A p \in Transactions \ {t} : tx'[p] = tx[p],
         \A o \in Orders :
            \/ HasOrder(t, o)
            \/ /\ status'[o] = status[o] /\ loaner'[o] = loaner[o]
               /\ parts'[o] = parts[o] /\ rw'[o] = rw[o],
         \A u \in Units : HasUnit(t, u) \/ unit'[u] = unit[u],
         \A u \in Units :
            HasUnit(t, u) \/ UnitFree(u) \/ LinkedTo(u)' \subseteq LinkedTo(u),
         Sound(t)'
  PROVE  FitInv'
<1>1. ASSUME NEW p \in Transactions \ {t} PROVE Sound(p)'
  <2>1. \A o \in Orders : HasOrder(p, o) => ~HasOrder(t, o) BY DEF LockInv
  <2>2. \A u \in Units : HasUnit(p, u) => ~HasUnit(t, u) /\ ~UnitFree(u)
    BY DEF LockInv, UnitFree
  <2>. QED BY <2>1, <2>2, Undisturbed DEF FitInv
<1>. QED BY <1>1 DEF FitInv

-----------------------------------------------------------------------------
(* The invariant is inductive.                                             *)

\* The end of a transaction on an order: a commit, which may change that order only.
LEMMA OrderCommit ==
  ASSUME IInv, NEW t \in Transactions, End(t), tx[t].step # "idle",
         tx[t].op \in OrderOps,
         \A o \in Orders \ {tx[t].order} :
            /\ status'[o] = status[o] /\ loaner'[o] = loaner[o]
            /\ parts'[o] = parts[o] /\ rw'[o] = rw[o],
         unit' = unit,
         \A u \in Units : UnitFree(u) \/ LinkedTo(u)' \subseteq LinkedTo(u)
  PROVE  LockInv' /\ FitInv'
<1>. USE DEF IInv
<1>1. LockInv' BY Ended, LockStep
<1>2. HasOrder(t, tx[t].order) BY DEF HasOrder
<1>3. Sound(t)' BY Ended DEF Sound
<1>4. \A o \in Orders :
         HasOrder(t, o) \/ /\ status'[o] = status[o] /\ loaner'[o] = loaner[o]
                           /\ parts'[o] = parts[o] /\ rw'[o] = rw[o]
  BY <1>2
<1>5. FitInv' BY <1>3, <1>4, Ended, FitStep
<1>. QED BY <1>1, <1>5

\* The same of a unit.
LEMMA UnitCommit ==
  ASSUME IInv, NEW t \in Transactions, End(t), tx[t].step # "idle",
         tx[t].op \in UnitOps,
         \A u \in Units \ {tx[t].unit} : unit'[u] = unit[u],
         UNCHANGED orders
  PROVE  LockInv' /\ FitInv'
<1>. USE DEF IInv
<1>1. LockInv' BY Ended, LockStep
<1>2. HasUnit(t, tx[t].unit) BY DEF HasUnit
<1>3. Sound(t)' BY Ended DEF Sound
<1>4. \A u \in Units : HasUnit(t, u) \/ unit'[u] = unit[u] BY <1>2
<1>5. \A u \in Units : LinkedTo(u)' = LinkedTo(u) BY DEF LinkedTo, orders
<1>6. FitInv' BY <1>3, <1>4, <1>5, Ended, FitStep DEF orders
<1>. QED BY <1>1, <1>6

LEMMA OrderStep ==
  ASSUME IInv, NEW t \in Transactions, OnOrder(t)
  PROVE  LockInv' /\ FitInv'
<1>. USE DEF IInv
<1>0. Statuses \cup {"take", "give back", "rw", "link", "unlink"} = OrderOps
  BY DEF OrderOps
<1>1. CASE MoveServiceOrder(t) \/ TakePart(t) \/ ReturnPart(t) \/ SetRw(t)
  <2>1. /\ End(t) /\ tx[t].step # "idle" /\ tx[t].op \in OrderOps
        /\ loaner' = loaner /\ unit' = unit
    BY <1>0, <1>1 DEF MoveServiceOrder, TakePart, ReturnPart, SetRw, At, units
  <2>2. \A o \in Orders \ {tx[t].order} :
           status'[o] = status[o] /\ parts'[o] = parts[o] /\ rw'[o] = rw[o]
    BY <1>1 DEF MoveServiceOrder, TakePart, ReturnPart, SetRw, TypeOK
  <2>3. \A u \in Units : LinkedTo(u)' = LinkedTo(u) BY <2>1 DEF LinkedTo
  <2>. QED BY <2>1, <2>2, <2>3, OrderCommit
<1>2. CASE Unlink(t)
  <2>1. /\ End(t) /\ tx[t].step # "idle" /\ tx[t].op \in OrderOps /\ unit' = unit
        /\ status' = status /\ parts' = parts /\ rw' = rw
        /\ loaner' = [loaner EXCEPT ![tx[t].order] = NoUnit]
    BY <1>0, <1>2 DEF Unlink, At, units
  <2>2. \A o \in Orders \ {tx[t].order} : loaner'[o] = loaner[o]
    BY <2>1 DEF TypeOK
  <2>3. tx[t].order \in Orders => loaner'[tx[t].order] = NoUnit
    BY <2>1 DEF TypeOK
  <2>4. \A u \in Units : LinkedTo(u)' \subseteq LinkedTo(u)
    BY <2>2, <2>3, ServiceOrdersAssumption DEF LinkedTo
  <2>. QED BY <2>1, <2>2, <2>4, OrderCommit
<1>3. CASE Link(t)
  <2>1. /\ End(t) /\ tx[t].step # "idle" /\ tx[t].op \in OrderOps /\ unit' = unit
        /\ status' = status /\ parts' = parts /\ rw' = rw
        /\ loaner' = [loaner EXCEPT ![tx[t].order] = tx[t].unit]
        /\ UnitFree(tx[t].unit)
    BY <1>0, <1>3 DEF Link, At, units
  <2>2. \A o \in Orders \ {tx[t].order} : loaner'[o] = loaner[o]
    BY <2>1 DEF TypeOK
  <2>3. tx[t].order \in Orders => loaner'[tx[t].order] = tx[t].unit
    BY <2>1 DEF TypeOK
  <2>4. \A u \in Units : UnitFree(u) \/ LinkedTo(u)' \subseteq LinkedTo(u)
    BY <2>1, <2>2, <2>3 DEF LinkedTo
  <2>. QED BY <2>1, <2>2, <2>4, OrderCommit
<1>4. ASSUME NEW s \in {"seen", "free"}, Goto(t, s), tx[t].op = "link",
             tx[t].step \in {"locked", "seen"}, UNCHANGED <<orders, units>>
      PROVE  LockInv' /\ FitInv'
  <2>1. tx[t].order \in Orders /\ tx[t].unit \in Units
    BY <1>0, <1>4, Locked
  <2>2. Sound(t)' BY <1>4, <2>1, GoneOn DEF Sound
  <2>3. \A o \in Orders : HasOrder(t, o)' <=> HasOrder(t, o)
    BY <1>4, GoneOn DEF HasOrder
  <2>4. "link" \notin UnitOps BY DEF UnitOps
  <2>5. \A u \in Units : ~HasUnit(t, u)'
    BY <1>4, <2>4, GoneOn DEF HasUnit
  <2>6. LockInv' BY <1>4, <2>3, <2>5, GoneOn, LockStep
  <2>7. \A u \in Units : LinkedTo(u)' = LinkedTo(u) BY <1>4 DEF LinkedTo, orders
  <2>8. FitInv' BY <1>4, <2>2, <2>7, GoneOn, FitStep DEF orders, units
  <2>. QED BY <2>6, <2>8
<1>5. CASE CheckUnit(t) \/ CheckTaken(t)
  BY <1>4, <1>5 DEF CheckUnit, CheckTaken, At
<1>. QED BY <1>1, <1>2, <1>3, <1>5 DEF OnOrder

LEMMA UnitStep ==
  ASSUME IInv, NEW t \in Transactions, OnUnit(t)
  PROVE  LockInv' /\ FitInv'
<1>. USE DEF IInv
<1>0. /\ {"issue", "return", "extend", "service start", "service end", "retire"}
            = UnitOps
      /\ "return" \in UnitOps
  BY DEF UnitOps
<1>1. CASE Issue(t) \/ SetUnit(t)
  <2>1. End(t) /\ tx[t].step # "idle" /\ tx[t].op \in UnitOps /\ UNCHANGED orders
    BY <1>0, <1>1 DEF Issue, SetUnit, At
  <2>2. \A u \in Units \ {tx[t].unit} : unit'[u] = unit[u]
    BY <1>1 DEF Issue, SetUnit, TypeOK
  <2>. QED BY <2>1, <2>2, UnitCommit
<1>2. CASE FindLinked(t)
  <2>1. tx[t].unit \in Units /\ UnitFit("return", tx[t].unit)
    BY <1>0, <1>2, Locked DEF FindLinked, At
  <2>. DEFINE r == [Task("return", "unlink", NoOrder, tx[t].unit)
                      EXCEPT !.found = LinkedTo(tx[t].unit)]
  <2>2. tx' = [tx EXCEPT ![t] = r] BY <1>2 DEF FindLinked
  <2>3. /\ r.op = "return" /\ r.step = "unlink" /\ r.order = NoOrder
        /\ r.unit = tx[t].unit /\ r.found = LinkedTo(tx[t].unit) /\ r.unlinked = {}
    BY DEF Task
  <2>. HIDE DEF r
  <2>4. tx'[t] = r /\ \A p \in Transactions \ {t} : tx'[p] = tx[p]
    BY <2>2, Others
  <2>5. \A u \in Units : LinkedTo(u)' = LinkedTo(u) /\ unit'[u] = unit[u]
    BY <1>2 DEF FindLinked, LinkedTo, orders, units
  <2>6. UnitFit("return", tx[t].unit)' BY <2>1, <2>4, <2>5, <2>3 DEF UnitFit
  <2>7. Sound(t)' BY <1>0, <2>1, <2>3, <2>4, <2>5, <2>6 DEF Sound
  <2>8. \A o \in Orders : ~HasOrder(t, o)'
    BY <2>3, <2>4, ServiceOrdersAssumption DEF HasOrder
  <2>9. \A u \in Units : HasUnit(t, u)' => HasUnit(t, u)
    BY <1>2, <1>0, <2>3, <2>4 DEF HasUnit, FindLinked, At
  <2>10. LockInv' BY <2>4, <2>8, <2>9, LockStep
  <2>11. FitInv' BY <1>2, <2>4, <2>5, <2>7, FitStep DEF FindLinked, orders
  <2>. QED BY <2>10, <2>11
<1>3. ASSUME NEW o \in Orders, UnlinkFound(t, o) PROVE LockInv' /\ FitInv'
  <2>1. tx[t] \in Request /\ tx[t].op = "return" /\ tx[t].step = "unlink"
    BY <1>3 DEF TypeOK, UnlinkFound, At
  <2>. DEFINE r == IF loaner[o] = tx[t].unit
                   THEN [tx[t] EXCEPT !.unlinked = @ \cup {o}]
                   ELSE [tx[t] EXCEPT !.found = @ \ {o}]
  <2>2. tx' = [tx EXCEPT ![t] = r] BY <1>3 DEF UnlinkFound
  <2>3. /\ r.op = tx[t].op /\ r.step = tx[t].step /\ r.order = tx[t].order
        /\ r.unit = tx[t].unit
        /\ \/ r.found = tx[t].found
           \/ r.found = tx[t].found \ {o} /\ loaner[o] # tx[t].unit
        /\ r.unlinked \subseteq tx[t].unlinked \cup {o}
    BY <2>1 DEF Request
  <2>. HIDE DEF r
  <2>4. tx'[t] = r /\ \A p \in Transactions \ {t} : tx'[p] = tx[p]
    BY <2>2, Others
  <2>5. \A u \in Units : LinkedTo(u)' = LinkedTo(u) /\ unit'[u] = unit[u]
    BY <1>3 DEF UnlinkFound, LinkedTo, orders, units
  <2>6. tx[t].unit \in Units /\ UnitFit("return", tx[t].unit)
    BY <1>0, <2>1, Locked
  <2>7. LinkedTo(tx[t].unit) \subseteq tx[t].found
    BY <1>0, <2>1, OpsDiffer DEF FitInv, Sound
  <2>8. UnitFit("return", tx[t].unit)' BY <2>6, <2>5, <2>4, <2>3 DEF UnitFit
  <2>9. LinkedTo(tx[t].unit) \subseteq r.found BY <2>3, <2>7 DEF LinkedTo
  <2>10. Sound(t)' BY <1>0, <2>1, <2>3, <2>4, <2>5, <2>6, <2>8, <2>9 DEF Sound
  <2>11. \A x \in Orders : HasOrder(t, x)' => HasOrder(t, x) \/ OrderFree(x)
    BY <1>3, <2>3, <2>4 DEF HasOrder, UnlinkFound
  <2>12. \A u \in Units : HasUnit(t, u)' => HasUnit(t, u)
    BY <2>3, <2>4 DEF HasUnit
  <2>13. LockInv' BY <2>4, <2>11, <2>12, LockStep
  <2>14. FitInv' BY <1>3, <2>4, <2>5, <2>10, FitStep DEF UnlinkFound, orders
  <2>. QED BY <2>13, <2>14
<1>4. ASSUME NEW needsService \in BOOLEAN, Return(t, needsService)
      PROVE  LockInv' /\ FitInv'
  <2>1. /\ End(t) /\ tx[t].op = "return" /\ tx[t].step = "unlink"
        /\ tx[t].unlinked = tx[t].found
        /\ status' = status /\ parts' = parts /\ rw' = rw
    BY <1>4 DEF Return, At
  <2>2. /\ HasUnit(t, tx[t].unit) /\ \A o \in tx[t].found : HasOrder(t, o)
    BY <1>0, <2>1 DEF HasUnit, HasOrder
  <2>3. \A o \in Orders :
           loaner'[o] = IF o \in tx[t].found THEN NoUnit ELSE loaner[o]
    BY <1>4 DEF Return
  <2>4. \A u \in Units \ {tx[t].unit} : unit'[u] = unit[u]
    BY <1>4 DEF Return, TypeOK
  <2>5. \A u \in Units : LinkedTo(u)' \subseteq LinkedTo(u)
    BY <2>3, ServiceOrdersAssumption DEF LinkedTo
  <2>6. LockInv' BY <2>1, Ended, LockStep
  <2>7. Sound(t)' BY <2>1, Ended DEF Sound
  <2>8. \A o \in Orders : HasOrder(t, o) \/ loaner'[o] = loaner[o] BY <2>2, <2>3
  <2>9. \A u \in Units : HasUnit(t, u) \/ unit'[u] = unit[u] BY <2>2, <2>4
  <2>10. FitInv' BY <2>1, <2>5, <2>7, <2>8, <2>9, Ended, FitStep
  <2>. QED BY <2>6, <2>10
<1>. QED BY <1>1, <1>2, <1>3, <1>4 DEF OnUnit

LEMMA BeginStep ==
  ASSUME IInv, NEW t \in Transactions, Begin(t) \/ Rollback(t)
  PROVE  LockInv' /\ FitInv'
<1>. USE DEF IInv
<1>1. ASSUME NEW r, tx' = [tx EXCEPT ![t] = r], UNCHANGED <<orders, units>>,
             r.step = "locked", r.unlinked = {}, Sound(t)',
             \A o \in Orders : r.order = o => OrderFree(o),
             \A u \in Units : r.op \in UnitOps /\ r.unit = u => UnitFree(u)
      PROVE  LockInv' /\ FitInv'
  <2>1. tx'[t] = r /\ \A p \in Transactions \ {t} : tx'[p] = tx[p] BY <1>1, Others
  <2>2. \A o \in Orders : HasOrder(t, o)' => OrderFree(o)
    BY <1>1, <2>1 DEF HasOrder
  <2>3. \A u \in Units : HasUnit(t, u)' => UnitFree(u)
    BY <1>1, <2>1 DEF HasUnit
  <2>4. LockInv' BY <2>1, <2>2, <2>3, LockStep
  <2>5. \A u \in Units : LinkedTo(u)' = LinkedTo(u) BY <1>1 DEF LinkedTo, orders
  <2>6. FitInv' BY <1>1, <2>1, <2>5, FitStep DEF orders, units
  <2>. QED BY <2>4, <2>6
<1>2. ASSUME NEW op \in OrderOps, NEW o \in Orders, Lock(t, op, o)
      PROVE  LockInv' /\ FitInv'
  <2>. DEFINE r == Task(op, "locked", o, NoUnit)
  <2>1. tx' = [tx EXCEPT ![t] = r] /\ UNCHANGED <<orders, units>> /\ OrderFree(o)
        /\ Fit(op, o)
    BY <1>2 DEF Lock
  <2>2. r.op = op /\ r.step = "locked" /\ r.order = o /\ r.unit = NoUnit
        /\ r.unlinked = {}
    BY DEF Task
  <2>. HIDE DEF r
  <2>3. tx'[t] = r BY <2>1, Others
  <2>4. op \notin UnitOps BY OpsDiffer
  <2>6. op # "link" BY <2>1, FitForParts
  <2>7. Fit(op, o)' BY <2>1 DEF Fit, orders
  <2>8. Sound(t)' BY <2>2, <2>3, <2>6, <2>7 DEF Sound
  <2>. QED BY <1>1, <2>1, <2>2, <2>4, <2>8
<1>3. ASSUME NEW o \in Orders, NEW u \in Units, LockToLink(t, o, u)
      PROVE  LockInv' /\ FitInv'
  <2>. DEFINE r == Task("link", "locked", o, u)
  <2>1. tx' = [tx EXCEPT ![t] = r] /\ UNCHANGED <<orders, units>> /\ OrderFree(o)
    BY <1>3 DEF LockToLink
  <2>2. r.op = "link" /\ r.step = "locked" /\ r.order = o /\ r.unit = u
        /\ r.unlinked = {}
    BY DEF Task
  <2>. HIDE DEF r
  <2>3. tx'[t] = r BY <2>1, Others
  <2>4. "link" \notin UnitOps BY DEF UnitOps
  <2>5. Sound(t)' BY <2>2, <2>3 DEF Sound
  <2>. QED BY <1>1, <2>1, <2>2, <2>4, <2>5
<1>4. ASSUME NEW op \in UnitOps, NEW u \in Units, LockUnit(t, op, u)
      PROVE  LockInv' /\ FitInv'
  <2>. DEFINE r == Task(op, "locked", NoOrder, u)
  <2>1. tx' = [tx EXCEPT ![t] = r] /\ UNCHANGED <<orders, units>> /\ UnitFree(u)
        /\ UnitFit(op, u)
    BY <1>4 DEF LockUnit
  <2>2. r.op = op /\ r.step = "locked" /\ r.order = NoOrder /\ r.unit = u
        /\ r.unlinked = {}
    BY DEF Task
  <2>. HIDE DEF r
  <2>3. tx'[t] = r BY <2>1, Others
  <2>4. UnitFit(op, u)' BY <2>1 DEF UnitFit, units
  <2>5. Sound(t)' BY <2>2, <2>3, <2>4 DEF Sound
  <2>. QED BY <1>1, <2>1, <2>2, <2>5, ServiceOrdersAssumption
<1>5. CASE Rollback(t)
  <2>1. End(t) /\ UNCHANGED <<orders, units>> BY <1>5 DEF Rollback
  <2>2. LockInv' BY <2>1, Ended, LockStep
  <2>3. \A u \in Units : LinkedTo(u)' = LinkedTo(u) BY <2>1 DEF LinkedTo, orders
  <2>4. Sound(t)' BY <2>1, Ended DEF Sound
  <2>5. FitInv' BY <2>1, <2>3, <2>4, Ended, FitStep DEF orders, units
  <2>. QED BY <2>2, <2>5
<1>. QED BY <1>2, <1>3, <1>4, <1>5 DEF Begin

\* A new order or unit is nothing anyone has locked for what it was.
LEMMA InsertStep ==
  ASSUME IInv,
         (\E o \in Orders : InsertServiceOrder(o)) \/ (\E u \in Units : InsertLoanerUnit(u))
  PROVE  LockInv' /\ FitInv'
<1>. USE DEF IInv
<1>1. tx' = tx /\ loaner' = loaner /\ parts' = parts /\ rw' = rw
  BY DEF InsertServiceOrder, InsertLoanerUnit, orders
<1>2. LockInv' BY <1>1 DEF LockInv, HasOrder, HasUnit
<1>3. ASSUME NEW o \in Orders, InsertServiceOrder(o) PROVE FitInv'
  <2>1. /\ status[o] = "none" /\ unit' = unit
        /\ \A x \in Orders \ {o} : status'[x] = status[x]
    BY <1>3 DEF InsertServiceOrder, TypeOK, units
  <2>2. Transitions("none") = {} BY DEF Transitions
  <2>3. ASSUME NEW op, NEW x \in Orders, Fit(op, x) PROVE Fit(op, x)'
    <3>1. CASE x # o BY <1>1, <2>1, <2>3, <3>1 DEF Fit
    <3>2. CASE x = o
      <4>1. \/ op = "give back" /\ ~rw[o] /\ parts[o] > 0
            \/ op = "unlink" /\ loaner[o] # NoUnit
        BY <2>1, <2>2, <2>3, <3>2 DEF Fit, Closed
      <4>. QED BY <1>1, <3>2, <4>1 DEF Fit
    <3>. QED BY <3>1, <3>2
  <2>4. \A u \in Units : LinkedTo(u)' = LinkedTo(u) BY <1>1 DEF LinkedTo
  <2>5. \A op, u : UnitFit(op, u)' <=> UnitFit(op, u) BY <2>1 DEF UnitFit
  <2>6. ASSUME NEW t \in Transactions PROVE Sound(t)'
    <3>1. Sound(t) BY DEF FitInv
    <3>. QED BY <1>1, <2>3, <2>4, <2>5, <3>1 DEF Sound
  <2>. QED BY <2>6 DEF FitInv
<1>4. ASSUME NEW u \in Units, InsertLoanerUnit(u) PROVE FitInv'
  <2>1. /\ unit[u] = "none" /\ status' = status
        /\ \A x \in Units \ {u} : unit'[x] = unit[x]
    BY <1>4 DEF InsertLoanerUnit, TypeOK, orders
  <2>2. ASSUME NEW op, NEW x \in Units, UnitFit(op, x) PROVE UnitFit(op, x)'
    <3>1. x # u BY <2>1, <2>2 DEF UnitFit
    <3>. QED BY <2>1, <2>2, <3>1 DEF UnitFit
  <2>3. \A op, o : Fit(op, o)' <=> Fit(op, o) BY <1>1, <2>1 DEF Fit
  <2>4. \A x \in Units : LinkedTo(x)' = LinkedTo(x) BY <1>1 DEF LinkedTo
  <2>5. ASSUME NEW t \in Transactions PROVE Sound(t)'
    <3>1. Sound(t) BY DEF FitInv
    <3>. QED BY <1>1, <2>2, <2>3, <2>4, <3>1 DEF Sound
  <2>. QED BY <2>5 DEF FitInv
<1>. QED BY <1>2, <1>3, <1>4

LEMMA InvStep == ASSUME IInv, [Next]_vars PROVE IInv'
<1>1. ASSUME NEW t \in Transactions, Begin(t) \/ OnOrder(t) \/ OnUnit(t) \/ Rollback(t)
      PROVE  IInv'
  <2>1. IInv' = (TypeOK' /\ LockInv' /\ FitInv') BY DEF IInv
  <2>. QED
    BY <1>1, <2>1, OrderTypeStep, UnitTypeStep, BeginTypeStep, OrderStep, UnitStep,
       BeginStep DEF IInv
<1>2. CASE \/ \E o \in Orders : InsertServiceOrder(o)
           \/ \E u \in Units : InsertLoanerUnit(u)
  <2>1. TypeOK' BY <1>2, InsertTypeStep DEF IInv
  <2>2. LockInv' /\ FitInv' BY <1>2, InsertStep
  <2>. QED BY <2>1, <2>2 DEF IInv
<1>3. CASE UNCHANGED vars
  <2>1. UNCHANGED <<status, loaner, parts, rw, booked, unit, lent, tx, outdated>>
    BY <1>3 DEF vars, orders, units
  <2>2. TypeOK' BY <2>1 DEF IInv, TypeOK
  <2>3. LockInv' BY <2>1 DEF IInv, LockInv, HasOrder, HasUnit
  <2>4. \A u \in Units : LinkedTo(u)' = LinkedTo(u) BY <2>1 DEF LinkedTo
  <2>5. FitInv' BY <2>1, <2>4, Undisturbed DEF IInv, FitInv
  <2>. QED BY <2>2, <2>3, <2>5 DEF IInv
<1>. QED BY <1>1, <1>2, <1>3 DEF Next

LEMMA Invariance == Spec => []IInv
BY InvInit, InvStep, PTL DEF Spec

\* Every variable keeps its type, whatever the transactions do.
THEOREM TypeCorrect == Spec => []TypeOK
<1>1. IInv => TypeOK BY DEF IInv
<1>. QED BY Invariance, <1>1, PTL

-----------------------------------------------------------------------------
\* The RW is for the parts of its order.  The count moves only under the lock of the
\* order, and the lock was taken when there was no RW, which only its holder can set.
THEOREM RwCovers == Spec => []RwIsForItsParts
<1>1. Init => RwIsForItsParts BY DEF Init, RwIsForItsParts
<1>2. ASSUME IInv, RwIsForItsParts, [Next]_vars PROVE RwIsForItsParts'
  <2>. USE <1>2 DEF IInv
  <2>1. ASSUME UNCHANGED <<parts, rw, booked>> PROVE RwIsForItsParts'
    BY <2>1 DEF RwIsForItsParts
  <2>2. ASSUME NEW t \in Transactions, TakePart(t) \/ ReturnPart(t)
        PROVE  RwIsForItsParts'
    <3>1. tx[t].order \in Orders /\ ~rw[tx[t].order]
      BY <2>2, Locked, FitForParts DEF TakePart, ReturnPart, At, OrderOps
    <3>2. /\ rw' = rw /\ booked' = booked
          /\ \A o \in Orders \ {tx[t].order} : parts'[o] = parts[o]
      BY <2>2 DEF TakePart, ReturnPart, TypeOK
    <3>. QED BY <3>1, <3>2 DEF RwIsForItsParts
  <2>3. ASSUME NEW t \in Transactions, SetRw(t) PROVE RwIsForItsParts'
    <3>1. tx[t].order \in Orders /\ parts[tx[t].order] > 0
      BY <2>3, Locked, FitForParts DEF SetRw, At, OrderOps
    <3>2. /\ parts' = parts /\ booked'[tx[t].order] = parts[tx[t].order]
          /\ \A o \in Orders \ {tx[t].order} :
                rw'[o] = rw[o] /\ booked'[o] = booked[o]
      BY <2>3, <3>1 DEF SetRw, TypeOK
    <3>. QED BY <3>1, <3>2 DEF RwIsForItsParts
  <2>4. ASSUME NEW t \in Transactions,
               Begin(t) \/ OnOrder(t) \/ OnUnit(t) \/ Rollback(t)
        PROVE  RwIsForItsParts'
    <3>1. CASE TakePart(t) \/ ReturnPart(t) \/ SetRw(t) BY <2>2, <2>3, <3>1
    <3>2. CASE ~(TakePart(t) \/ ReturnPart(t) \/ SetRw(t))
      <4>1. UNCHANGED <<parts, rw, booked>>
        BY <2>4, <3>2
        DEF Begin, Lock, LockToLink, LockUnit, OnOrder, MoveServiceOrder, Unlink,
            CheckUnit, CheckTaken, Link, OnUnit, Issue, SetUnit, FindLinked,
            UnlinkFound, Return, Rollback, orders
      <4>. QED BY <2>1, <4>1
    <3>. QED BY <3>1, <3>2
  <2>5. CASE \/ \E o \in Orders : InsertServiceOrder(o)
             \/ \E u \in Units : InsertLoanerUnit(u)
             \/ UNCHANGED vars
    BY <2>1, <2>5 DEF InsertServiceOrder, InsertLoanerUnit, vars, orders
  <2>. QED BY <2>4, <2>5 DEF Next
<1>. QED BY <1>1, <1>2, Invariance, PTL DEF Spec

\* A unit is with one client at most.  Who issues or takes back has its row locked, and
\* found it in stock or out.
THEOREM Lent == Spec => []LentOnce
<1>1. Init => LentOnce BY DEF Init, LentOnce
<1>2. ASSUME IInv, LentOnce, [Next]_vars PROVE LentOnce'
  <2>. USE <1>2 DEF IInv
  <2>1. ASSUME UNCHANGED units PROVE LentOnce'
    BY <2>1 DEF LentOnce, units
  <2>2. ASSUME NEW u \in Units,
               \A x \in Units \ {u} : unit'[x] = unit[x] /\ lent'[x] = lent[x],
               lent'[u] = IF unit'[u] = "u_klienta" THEN 1 ELSE 0
        PROVE  LentOnce'
    BY <2>2 DEF LentOnce
  <2>3. ASSUME NEW t \in Transactions, Issue(t) PROVE LentOnce'
    <3>. DEFINE u == tx[t].unit
    <3>1. u \in Units /\ unit[u] = "na_stanie"
      BY <2>3, Locked DEF Issue, At, UnitOps, UnitFit
    <3>2. lent[u] = 0 BY <3>1 DEF LentOnce
    <3>3. /\ lent'[u] = lent[u] + 1 /\ unit'[u] = "u_klienta"
          /\ \A x \in Units \ {u} : unit'[x] = unit[x] /\ lent'[x] = lent[x]
      BY <2>3, <3>1 DEF Issue, TypeOK
    <3>4. lent'[u] = 1 BY <3>2, <3>3
    <3>. HIDE DEF u
    <3>. QED BY <2>2, <3>1, <3>3, <3>4
  <2>4. ASSUME NEW t \in Transactions, NEW needsService \in BOOLEAN,
               Return(t, needsService)
        PROVE  LentOnce'
    <3>. DEFINE u == tx[t].unit
    <3>1. u \in Units /\ unit[u] = "u_klienta"
      BY <2>4, Locked DEF Return, At, UnitOps, UnitFit
    <3>2. lent[u] = 1 BY <3>1 DEF LentOnce
    <3>3. /\ lent'[u] = lent[u] - 1 /\ unit'[u] # "u_klienta"
          /\ \A x \in Units \ {u} : unit'[x] = unit[x] /\ lent'[x] = lent[x]
      BY <2>4, <3>1 DEF Return, TypeOK
    <3>4. lent'[u] = 0 BY <3>2, <3>3
    <3>. HIDE DEF u
    <3>. QED BY <2>2, <3>1, <3>3, <3>4
  <2>5. ASSUME NEW t \in Transactions, SetUnit(t) PROVE LentOnce'
    <3>. DEFINE u == tx[t].unit
    <3>1. u \in Units /\ UnitFit(tx[t].op, u)
      BY <2>5, Locked DEF SetUnit, UnitOps
    <3>2. Becomes(tx[t].op) = "u_klienta" <=> unit[u] = "u_klienta"
      BY <2>5, <3>1, Outcomes DEF SetUnit, UnitFit
    <3>3. /\ unit'[u] = Becomes(tx[t].op) /\ lent'[u] = lent[u]
          /\ \A x \in Units \ {u} : unit'[x] = unit[x] /\ lent'[x] = lent[x]
      BY <2>5, <3>1 DEF SetUnit, TypeOK
    <3>4. lent'[u] = IF unit'[u] = "u_klienta" THEN 1 ELSE 0
      BY <3>1, <3>2, <3>3 DEF LentOnce
    <3>. HIDE DEF u
    <3>. QED BY <2>2, <3>1, <3>3, <3>4
  <2>6. ASSUME NEW u \in Units, InsertLoanerUnit(u) PROVE LentOnce'
    <3>1. /\ lent' = lent /\ lent[u] = 0 /\ unit'[u] = "na_stanie"
          /\ \A x \in Units \ {u} : unit'[x] = unit[x]
      BY <2>6 DEF InsertLoanerUnit, LentOnce, TypeOK
    <3>. QED BY <3>1 DEF LentOnce
  <2>7. ASSUME NEW t \in Transactions,
               Begin(t) \/ OnOrder(t) \/ OnUnit(t) \/ Rollback(t)
        PROVE  LentOnce'
    <3>1. CASE Issue(t) \/ SetUnit(t) \/ \E b \in BOOLEAN : Return(t, b)
      BY <2>3, <2>4, <2>5, <3>1
    <3>2. CASE ~(Issue(t) \/ SetUnit(t) \/ \E b \in BOOLEAN : Return(t, b))
      <4>1. UNCHANGED units
        BY <2>7, <3>2
        DEF Begin, Lock, LockToLink, LockUnit, OnOrder, MoveServiceOrder, TakePart,
            ReturnPart, SetRw, Unlink, CheckUnit, CheckTaken, Link, OnUnit, FindLinked,
            UnlinkFound, Rollback
      <4>. QED BY <2>1, <4>1
    <3>. QED BY <3>1, <3>2
  <2>8. CASE (\E o \in Orders : InsertServiceOrder(o)) \/ UNCHANGED vars
    BY <2>1, <2>8 DEF InsertServiceOrder, vars
  <2>. QED BY <2>6, <2>7, <2>8 DEF Next
<1>. QED BY <1>1, <1>2, Invariance, PTL DEF Spec

-----------------------------------------------------------------------------
\* Links are true of the units that nobody has linked on the ground of what was no
\* longer so: a return has found every link there is, as no link can be made while it
\* has the unit locked.
THEOREM Links == Spec => []LinksAreTrue
<1>1. Init => LinksAreTrue
  BY ServiceOrdersAssumption DEF Init, LinksAreTrue, LinkedTo
<1>2. ASSUME IInv, LinksAreTrue, [Next]_vars PROVE LinksAreTrue'
  <2>. USE <1>2 DEF IInv
  <2>1. ASSUME UNCHANGED <<loaner, unit, outdated>> PROVE LinksAreTrue'
    BY <2>1 DEF LinksAreTrue, LinkedTo
  <2>2. ASSUME NEW t \in Transactions, Unlink(t) PROVE LinksAreTrue'
    <3>1. tx[t].order \in Orders BY <2>2, Locked DEF Unlink, At, OrderOps
    <3>2. /\ unit' = unit /\ outdated' = outdated
          /\ loaner'[tx[t].order] = NoUnit
          /\ \A o \in Orders \ {tx[t].order} : loaner'[o] = loaner[o]
      BY <2>2, <3>1 DEF Unlink, TypeOK, units
    <3>3. \A u \in Units : LinkedTo(u)' \subseteq LinkedTo(u)
      BY <3>2, ServiceOrdersAssumption DEF LinkedTo
    <3>. QED BY <3>2, <3>3 DEF LinksAreTrue
  <2>3. ASSUME NEW t \in Transactions, Link(t) PROVE LinksAreTrue'
    <3>. DEFINE o == tx[t].order
                v == tx[t].unit
    <3>1. o \in Orders /\ v \in Units BY <2>3, Locked DEF Link, At, OrderOps
    <3>2. /\ unit' = unit /\ loaner'[o] = v
          /\ \A p \in Orders \ {o} : loaner'[p] = loaner[p]
          /\ outdated' = IF unit[v] # "u_klienta" \/ Taken(v, o)
                         THEN outdated \cup {v} ELSE outdated
      BY <2>3, <3>1 DEF Link, TypeOK, units
    <3>. HIDE DEF o, v
    <3>3. \A u \in Units \ {v} : LinkedTo(u)' \subseteq LinkedTo(u)
      BY <3>2 DEF LinkedTo
    <3>4. \A u : u = v /\ ~Taken(v, o) => \A p \in LinkedTo(u)' : p = o
      BY <3>2 DEF Taken, LinkedTo
    <3>5. outdated \subseteq outdated'
      BY <3>2
    <3>6. v \in Units \ outdated' => unit[v] = "u_klienta" /\ ~Taken(v, o)
      BY <3>2
    <3>7. ASSUME NEW u \in Units \ outdated'
          PROVE  /\ LinkedTo(u)' # {} => unit'[u] = "u_klienta"
                 /\ \A p, q \in LinkedTo(u)' : p = q
      <4>1. CASE u = v BY <3>2, <3>4, <3>6, <3>7, <4>1
      <4>2. CASE u # v
        <5>1. u \in Units \ outdated BY <3>5, <3>7
        <5>2. LinkedTo(u)' \subseteq LinkedTo(u) BY <3>3, <4>2, <5>1
        <5>. QED BY <3>2, <5>1, <5>2 DEF LinksAreTrue
      <4>. QED BY <4>1, <4>2
    <3>. QED BY <3>7 DEF LinksAreTrue
  <2>4. ASSUME UNCHANGED <<loaner, outdated>>, NEW v \in Units,
               \A u \in Units \ {v} : unit'[u] = unit[u],
               unit[v] = "u_klienta" => unit'[v] = "u_klienta"
        PROVE  LinksAreTrue'
    BY <2>4 DEF LinksAreTrue, LinkedTo
  <2>5. ASSUME NEW t \in Transactions, Issue(t) PROVE LinksAreTrue'
    <3>1. tx[t].unit \in Units BY <2>5, Locked DEF Issue, At, UnitOps
    <3>. QED BY <2>4, <2>5, <3>1 DEF Issue, orders, TypeOK
  <2>6. ASSUME NEW t \in Transactions, SetUnit(t) PROVE LinksAreTrue'
    <3>1. tx[t].unit \in Units /\ UnitFit(tx[t].op, tx[t].unit)
      BY <2>6, Locked DEF SetUnit, UnitOps
    <3>2. unit[tx[t].unit] = "u_klienta" => Becomes(tx[t].op) = "u_klienta"
      BY <2>6, <3>1, Outcomes DEF SetUnit, UnitFit
    <3>3. /\ unit'[tx[t].unit] = Becomes(tx[t].op)
          /\ \A u \in Units \ {tx[t].unit} : unit'[u] = unit[u]
          /\ UNCHANGED <<loaner, outdated>>
      BY <2>6, <3>1 DEF SetUnit, TypeOK, orders
    <3>. QED BY <2>4, <3>1, <3>2, <3>3
  <2>7. ASSUME NEW t \in Transactions, NEW needsService \in BOOLEAN,
               Return(t, needsService)
        PROVE  LinksAreTrue'
    <3>. DEFINE v == tx[t].unit
    <3>1. v \in Units BY <2>7, Locked DEF Return, At, UnitOps
    <3>2. LinkedTo(v) \subseteq tx[t].found
      BY <2>7, OpsDiffer DEF Return, At, FitInv, Sound, UnitOps
    <3>3. /\ \A u \in Units \ {v} : unit'[u] = unit[u]
          /\ outdated' = outdated \ {v}
          /\ \A o \in Orders :
                loaner'[o] = IF o \in tx[t].found THEN NoUnit ELSE loaner[o]
      BY <2>7 DEF Return, TypeOK
    <3>. HIDE DEF v
    <3>4. \A u : u = v => \A o : o \notin LinkedTo(u)'
      <4>1. ASSUME NEW u \in Units, u = v, NEW o, o \in LinkedTo(u)' PROVE FALSE
        <5>1. o \in Orders /\ loaner'[o] = u BY <4>1 DEF LinkedTo
        <5>2. loaner[o] = v BY <3>1, <3>3, <4>1, <5>1, ServiceOrdersAssumption
        <5>3. o \in tx[t].found BY <3>2, <5>1, <5>2 DEF LinkedTo
        <5>. QED BY <3>1, <3>3, <4>1, <5>1, <5>2, <5>3, ServiceOrdersAssumption
      <4>. QED BY <3>1, <4>1
    <3>5. \A u \in Units : \A o \in LinkedTo(u)' : o \in LinkedTo(u)
      BY <3>3, ServiceOrdersAssumption DEF LinkedTo
    <3>6. ASSUME NEW u \in Units \ outdated'
          PROVE  /\ LinkedTo(u)' # {} => unit'[u] = "u_klienta"
                 /\ \A p, q \in LinkedTo(u)' : p = q
      <4>1. CASE u = v BY <3>4, <4>1
      <4>2. CASE u # v
        <5>1. u \in Units \ outdated BY <3>3, <3>6, <4>2
        <5>. QED BY <3>3, <3>5, <4>2, <5>1 DEF LinksAreTrue
      <4>. QED BY <4>1, <4>2
    <3>. QED BY <3>6 DEF LinksAreTrue
  <2>8. ASSUME NEW t \in Transactions,
               Begin(t) \/ OnOrder(t) \/ OnUnit(t) \/ Rollback(t)
        PROVE  LinksAreTrue'
    <3>1. CASE \/ Unlink(t) \/ Link(t) \/ Issue(t) \/ SetUnit(t)
               \/ \E b \in BOOLEAN : Return(t, b)
      BY <2>2, <2>3, <2>5, <2>6, <2>7, <3>1
    <3>2. CASE ~(\/ Unlink(t) \/ Link(t) \/ Issue(t) \/ SetUnit(t)
                 \/ \E b \in BOOLEAN : Return(t, b))
      <4>1. UNCHANGED <<loaner, unit, outdated>>
        BY <2>8, <3>2
        DEF Begin, Lock, LockToLink, LockUnit, OnOrder, MoveServiceOrder, TakePart,
            ReturnPart, SetRw, CheckUnit, CheckTaken, OnUnit, FindLinked,
            UnlinkFound, Rollback, orders, units
      <4>. QED BY <2>1, <4>1
    <3>. QED BY <3>1, <3>2
  <2>9. ASSUME NEW u \in Units, InsertLoanerUnit(u) PROVE LinksAreTrue'
    BY <2>4, <2>9 DEF InsertLoanerUnit, orders, TypeOK
  <2>10. CASE (\E o \in Orders : InsertServiceOrder(o)) \/ UNCHANGED vars
    BY <2>1, <2>10 DEF InsertServiceOrder, vars, orders, units
  <2>. QED BY <2>8, <2>9, <2>10 DEF Next
<1>. QED BY <1>1, <1>2, Invariance, PTL DEF Spec
=============================================================================
