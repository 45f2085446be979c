----------------------------- MODULE DeliveryStats -----------------------------
(***************************************************************************)
(* The delivery statistics of one supplier (delivery_stats: how many       *)
(* business days its orders of one type took) and the receipts that keep   *)
(* them: src/lib/data/delivery-stats-samples.ts, orders.ts and             *)
(* orders-stats-fallback.ts, as they run by default, with the flag         *)
(* delivery_stats_from_samples off.                                        *)
(*                                                                         *)
(* All orders placed on one day weigh as much as one, the one delivered    *)
(* first.  The counters are not computed from the orders but kept up:      *)
(* completing an order inserts a sample and adds to the counters unless a  *)
(* sibling has done so; a correction deletes the sample, takes its weight  *)
(* out again and promotes a sibling.  Every statement is a step of its own:*)
(* nothing is locked.  Old complete orders are purged; their samples and   *)
(* their weight in the counters stay.                                      *)
(***************************************************************************)
EXTENDS Integers, Sequences, FiniteSets, FiniteSetsExt

CONSTANTS
  Orders,     \* orders of the supplier, compared by id
  Twins,      \* those placed on one and the same day; every other has its own
  Requests,   \* requests at one time
  LastDay,    \* bound: days that pass
  MaxBegun    \* bound: requests that receive or revert

ASSUME DeliveryStatsAssumption ==
  /\ Orders \subseteq Nat /\ IsFiniteSet(Orders) /\ Orders # {}
  /\ Twins \subseteq Orders
  /\ LastDay \in Nat \ {0} /\ MaxBegun \in Nat

VARIABLES
  done,    \* orders: status is Zrealizowane
  on,      \* orders: the date of delivery_at (0: NULL)
  sample,  \* orders: id and delivery_date of the active sample (id 0: none)
  stats,   \* the row of delivery_stats, if there is one: sum and count
  req,     \* requests
  today,   \* date
  begun,   \* requests begun, numbering the samples
  gone,    \* orders that have been purged
  orphan,  \* purged orders: the active sample left, its order_id now NULL
  \* history: the days whose complete orders were all purged since counters were last
  \* rewritten, each with its first delivery: the sum of the dates and the number
  kept,
  \* history: the counters or samples may be off: requests on orders of one day
  \* overlapped, or one was under way while counters were rewritten; one died; a
  \* correction was undone; a read or a write failed and the request went on; a purge
  \* took a part of a day or came between the steps of a request; a sample without
  \* order competed with those of its day
  drift

rows == <<done, on>>
purged == <<gone, orphan, kept>>
vars == <<done, on, sample, stats, req, today, begun, gone, orphan, kept, drift>>

SameDay(o, p) == o = p \/ {o, p} \subseteq Twins
Siblings(o) == {p \in Orders \ {o} : SameDay(o, p)}

NoSample == [id |-> 0, on |-> 0]
NoStats == [row |-> FALSE, sum |-> 0, count |-> 0]
NoDays == [sum |-> 0, count |-> 0]

Samples == [id : 0 .. MaxBegun, on : 0 .. LastDay]
Stats == [row : BOOLEAN, sum : Nat, count : Nat]
Steps == {"idle", "read", "insert", "siblings", "increment", "sample", "delete",
          "winner", "stats", "lower", "restore", "wipe", "history", "refill", "written"}

\* A request on an order: the row it read, what the receipt makes of it, its number,
\* the sample it deletes, the days it takes from (< 0) or adds to the counters, and
\* the counters it has read or computed.
Request == [op : {"receive", "undo", "revert", "recalc"}, step : Steps, order : Orders,
            was : BOOLEAN, wasOn : 0 .. LastDay, number : 0 .. MaxBegun,
            sample : Samples, todo : Seq(-LastDay .. LastDay), stats : Stats]

Idle == [op |-> "recalc", step |-> "idle", order |-> CHOOSE o \in Orders : TRUE,
         was |-> FALSE, wasOn |-> 0, number |-> 0, sample |-> NoSample,
         todo |-> <<>>, stats |-> NoStats]

\* Orders, samples, counters and requests ...
LiveOK ==
  /\ done \in [Orders -> BOOLEAN] /\ on \in [Orders -> 0 .. LastDay]
  /\ sample \in [Orders -> Samples]
  /\ stats \in Stats
  /\ req \in [Requests -> Request]
  /\ today \in 1 .. LastDay /\ begun \in 0 .. MaxBegun /\ drift \in BOOLEAN

\* ... and what the purge has taken and left.
PurgedOK ==
  /\ gone \subseteq Orders /\ orphan \in [Orders -> Samples]
  /\ kept \in [sum : Nat, count : Nat]

TypeOK == LiveOK /\ PurgedOK

Init ==
  /\ done = [o \in Orders |-> FALSE] /\ on = [o \in Orders |-> 0]
  /\ sample = [o \in Orders |-> NoSample]
  /\ stats = NoStats
  /\ req = [q \in Requests |-> Idle]
  /\ today = 1 /\ begun = 0 /\ drift = FALSE
  /\ gone = {} /\ orphan = [o \in Orders |-> NoSample] /\ kept = NoDays

At(q, step) == req[q].step = step
Goto(q, step) == req' = [req EXCEPT ![q].step = step]

\* Requests that have something to do yet.
Working(q) == req[q].step \notin {"idle", "written"}

\* What q writes now may be at odds with what another request has read or will do, or
\* its order is gone.
Disturbs(q) ==
  \/ req[q].order \in gone /\ req[q].step \notin {"wipe", "history", "refill"}
  \/ \E p \in Requests \ {q} :
       \/ req[p].step # "idle" /\ SameDay(req[p].order, req[q].order)
       \/ req[p].step \in {"lower", "history", "refill"}
       \/ Working(p) /\ req[q].step \in {"wipe", "history", "refill"}

Disturb(q) == drift' = (drift \/ Disturbs(q))

-----------------------------------------------------------------------------
(* A receipt: applyDeliveredQuantityUpdate.                                *)

Begin(q, op, o, step) ==
  /\ At(q, "idle") /\ begun < MaxBegun
  /\ begun' = begun + 1
  /\ req' = [req EXCEPT ![q] = [Idle EXCEPT !.op = op, !.step = step, !.order = o,
                                  !.was = done[o], !.wasOn = on[o], !.number = begun + 1]]
  /\ UNCHANGED <<rows, sample, stats, today, purged, drift>>

\* It reads the row (and the snapshot for the undo), to complete an order or to
\* correct a complete one.
ReadReceipt(q, o) == o \notin gone /\ Begin(q, "receive", o, "read")

\* By its id, if the row is still there.
WriteRow(o, complete, date) ==
  IF o \in gone THEN UNCHANGED rows
  ELSE /\ done' = [done EXCEPT ![o] = complete]
       /\ on' = [on EXCEPT ![o] = date]

\* A partial receipt keeps delivery_at, which only complete orders are read for.
WriteReceipt(q) ==
  LET o == req[q].order
  IN /\ At(q, "read")
     /\ WriteRow(o, ~req[q].was, IF req[q].was THEN 0 ELSE today)
     /\ Goto(q, IF req[q].was THEN "sample" ELSE "insert")
     /\ Disturb(q)
     /\ UNCHANGED <<sample, stats, today, begun, purged>>

\* tryIncrementDeliveryStatsFromOrder: the sample, unless the order has one.
InsertSample(q) ==
  LET o == req[q].order
  IN /\ At(q, "insert") /\ o \notin gone
     /\ IF sample[o] # NoSample THEN Goto(q, "written") /\ UNCHANGED sample
        ELSE /\ sample' = [sample EXCEPT ![o] = [id |-> req[q].number, on |-> on[o]]]
             /\ Goto(q, "siblings")
     /\ Disturb(q)
     /\ UNCHANGED <<rows, stats, today, begun, purged>>

\* The insert fails, as it must when the order is gone: the counters go up all the same.
InsertFails(q) ==
  /\ At(q, "insert")
  /\ Goto(q, "siblings")
  /\ drift' = TRUE
  /\ UNCHANGED <<rows, sample, stats, today, begun, purged>>

\* Mutant: every order of a day counts.
CountedNever(o) == FALSE

\* hasSiblingDeliveryStatsSample
Counted(o) == \E p \in Siblings(o) : done[p]

CheckSiblings(q) ==
  /\ At(q, "siblings")
  /\ Goto(q, IF Counted(req[q].order) THEN "written" ELSE "increment")
  /\ UNCHANGED <<rows, sample, stats, today, begun, purged, drift>>

\* The read fails and yields no orders; the day counts once more.
CheckFails(q) ==
  /\ At(q, "siblings") /\ Counted(req[q].order)
  /\ Goto(q, "increment")
  /\ drift' = TRUE
  /\ UNCHANGED <<rows, sample, stats, today, begun, purged>>

Added(s, days) == [row |-> TRUE, sum |-> s.sum + days, count |-> s.count + 1]

\* The RPC increment_delivery_stats.
Increment(q) ==
  /\ At(q, "increment")
  /\ stats' = Added(stats, today)
  /\ Goto(q, "written")
  /\ Disturb(q)
  /\ UNCHANGED <<rows, sample, today, begun, purged>>

\* The RPC fails: updateSupplierStatsFallback.
IncrementFails(q) ==
  /\ At(q, "increment")
  /\ req' = [req EXCEPT ![q].step = "stats", ![q].todo = <<today>>]
  /\ drift' = TRUE
  /\ UNCHANGED <<rows, sample, stats, today, begun, purged>>

-----------------------------------------------------------------------------
(* softDeleteDeliveryStatsSampleForOrder.                                  *)

\* Where the request goes on: an undo or a revert resets the row now.
After(q) == IF req[q].op = "receive" THEN "written" ELSE "restore"

ReadSample(q) ==
  LET s == sample[req[q].order]
  IN /\ At(q, "sample")
     /\ req' = [req EXCEPT ![q].sample = s,
                           ![q].step = IF s = NoSample THEN After(q) ELSE "delete"]
     /\ UNCHANGED <<rows, sample, stats, today, begun, purged, drift>>

\* The read fails: a receipt and a revert go on, the sample stays.
SampleFails(q) ==
  /\ At(q, "sample") /\ req[q].op # "undo"
  /\ Goto(q, After(q))
  /\ drift' = TRUE
  /\ UNCHANGED <<rows, sample, stats, today, begun, purged>>

\* By its id; that nothing matches is not noticed.
DeleteSample(q) ==
  LET o == req[q].order
      Without(samples) ==
        IF samples[o] = req[q].sample THEN [samples EXCEPT ![o] = NoSample] ELSE samples
  IN /\ At(q, "delete")
     /\ sample' = Without(sample) /\ orphan' = Without(orphan)
     /\ Goto(q, "winner")
     /\ Disturb(q)
     /\ UNCHANGED <<rows, stats, today, begun, gone, kept>>

\* The active samples of the day, of other orders and of purged ones.
Orphans(o) == {p \in Orders : SameDay(o, p) /\ orphan[p] # NoSample}
Others(o) == {p \in Siblings(o) : sample[p] # NoSample}

\* p comes before the sample s of order o.
Before(p, s, o) == sample[p].on < s.on \/ (sample[p].on = s.on /\ p < o)

\* Mutant: nobody is promoted.
ReplaceNobody(s, o) == <<-s.on>>

\* Its weight goes, and the next of the day takes its place.
Replace(s, o) ==
  IF Others(o) = {} THEN <<-s.on>>
  ELSE LET next == CHOOSE p \in Others(o) :
                     \A p2 \in Others(o) \ {p} : Before(p, sample[p2], p2)
       IN <<-s.on, sample[next].on>>

FindWinner(q) ==
  LET o == req[q].order
      won == \A p \in Others(o) : ~Before(p, req[q].sample, o)
  IN /\ At(q, "winner") /\ Orphans(o) = {}
     /\ req' = [req EXCEPT ![q].step = IF won THEN "stats" ELSE After(q),
                           ![q].todo = IF won THEN Replace(req[q].sample, o) ELSE <<>>]
     /\ UNCHANGED <<rows, sample, stats, today, begun, purged, drift>>

\* A sample without order comes before all of its date: it can keep the weight of the
\* deleted one in the counters, or take its place.
FindAmongOrphans(q) ==
  LET o == req[q].order
      s == req[q].sample
      left == {orphan[p].on : p \in Orphans(o)}
      dates == left \cup {sample[p].on : p \in Others(o)}
      won == (\A p \in Others(o) : ~Before(p, s, o)) /\ \A date \in left : s.on < date
  IN /\ At(q, "winner")
     /\ \E next \in dates :
          /\ left # {} /\ \A date \in dates : next <= date
          /\ req' = [req EXCEPT ![q].step = IF won THEN "stats" ELSE After(q),
                                ![q].todo = IF won THEN <<-s.on, next>> ELSE <<>>]
     /\ drift' = TRUE
     /\ UNCHANGED <<rows, sample, stats, today, begun, purged>>

\* The read fails unnoticed: the weight goes, nobody takes its place.
SiblingsFail(q) ==
  LET o == req[q].order
  IN /\ At(q, "winner") /\ Others(o) \cup Orphans(o) # {}
     /\ req' = [req EXCEPT ![q].step = "stats", ![q].todo = <<-req[q].sample.on>>]
     /\ drift' = TRUE
     /\ UNCHANGED <<rows, sample, stats, today, begun, purged>>

\* updateSupplierStatsFallback reads the counters ...
ReadStats(q) ==
  /\ At(q, "stats")
  /\ req' = [req EXCEPT ![q].step = "lower", ![q].stats = stats]
  /\ UNCHANGED <<rows, sample, stats, today, begun, purged, drift>>

\* Mutant: nothing keeps the counters from falling below zero.
LoweredFreely(s, days) == [row |-> TRUE, sum |-> s.sum + days, count |-> s.count - 1]

Lowered(s, days) ==
  LET count == Max({0, s.count - 1})
  IN [row |-> TRUE, sum |-> IF count = 0 THEN 0 ELSE Max({0, s.sum + days}),
      count |-> count]

\* ... and writes them, if the row is there; only an addition inserts it.
WriteStats(q) ==
  LET days == Head(req[q].todo)
      read == req[q].stats
      rest == Tail(req[q].todo)
  IN /\ At(q, "lower")
     /\ stats' = CASE read.row /\ stats.row /\ days < 0 -> Lowered(read, days)
                   [] read.row /\ stats.row /\ days > 0 -> Added(read, days)
                   [] ~read.row /\ ~stats.row /\ days > 0 -> Added(NoStats, days)
                   [] OTHER -> stats
     /\ req' = [req EXCEPT ![q].todo = rest, ![q].stats = NoStats,
                           ![q].step = IF rest = <<>> THEN After(q) ELSE "stats"]
     /\ Disturb(q)
     /\ UNCHANGED <<rows, sample, today, begun, purged>>

-----------------------------------------------------------------------------
(* Undo and revert.                                                        *)

\* Mutant: an undo leaves the sample.
UndoKeepsSample(q) ==
  /\ At(q, "written")
  /\ req' = [req EXCEPT ![q].op = "undo", ![q].step = "restore"]
  /\ UNCHANGED <<rows, sample, stats, today, begun, purged, drift>>

\* actionUndoDelivery: the sample goes if the order was not complete before.
UndoDelivery(q) ==
  /\ At(q, "written")
  /\ req' = [req EXCEPT ![q].op = "undo",
                        ![q].step = IF req[q].was THEN "restore" ELSE "sample"]
  /\ UNCHANGED <<rows, sample, stats, today, begun, purged, drift>>

\* actionRevertToPending, of a complete order.
Revert(q, o) == done[o] /\ Begin(q, "revert", o, "sample")

\* The snapshot is written back by id, the revert looks at the status once more.  A
\* complete order comes back without the sample its correction has deleted.
Restore(q) ==
  LET o == req[q].order
      back == req[q].op = "undo" /\ req[q].was
  IN /\ At(q, "restore")
     /\ WriteRow(o, back, IF back THEN req[q].wasOn ELSE 0)
     /\ Goto(q, "wipe")
     /\ drift' = (drift \/ Disturbs(q) \/ (back /\ sample[o] = NoSample))
     /\ UNCHANGED <<sample, stats, today, begun, purged>>

-----------------------------------------------------------------------------
(* recalculateAllStats, at the end of an undo or revert, or of its own.    *)

Recalculate(q) ==
  /\ At(q, "idle")
  /\ req' = [req EXCEPT ![q] = [Idle EXCEPT !.step = "wipe"]]
  /\ UNCHANGED <<rows, sample, stats, today, begun, purged, drift>>

Wipe(q) ==
  /\ At(q, "wipe")
  /\ stats' = NoStats
  /\ Goto(q, "history")
  /\ Disturb(q)
  /\ UNCHANGED <<rows, sample, today, begun, purged>>

\* The first delivered order of each day (aggregateDeliveryStatsFromOrders).
First(o) ==
  /\ done[o] /\ on[o] > 0
  /\ \A p \in Siblings(o) :
       done[p] /\ on[p] > 0 => on[o] < on[p] \/ (on[o] = on[p] /\ o < p)

\* The dates of these orders added up: each is worth the days until it.
Total(dates, counted) ==
  Cardinality({slot \in counted \X (1 .. LastDay) : slot[2] <= dates[slot[1]]})

Aggregate ==
  LET winners == {o \in Orders : First(o)}
  IN [row |-> winners # {}, sum |-> Total(on, winners), count |-> Cardinality(winners)]

ReadHistory(q) ==
  /\ At(q, "history")
  /\ req' = [req EXCEPT ![q].stats = Aggregate, ![q].step = "refill"]
  /\ UNCHANGED <<rows, sample, stats, today, begun, purged, drift>>

\* An INSERT that fails unnoticed when somebody has inserted a row meanwhile.
Refill(q) ==
  /\ At(q, "refill")
  /\ stats' = IF stats.row THEN stats ELSE req[q].stats
  /\ kept' = NoDays
  /\ req' = [req EXCEPT ![q] = Idle]
  /\ Disturb(q)
  /\ UNCHANGED <<rows, sample, today, begun, gone, orphan>>

-----------------------------------------------------------------------------
(* The purge and the environment.                                          *)

\* The purge takes a part of a day, or comes between the steps of a request.
Splits(S) ==
  \/ \E o \in S, p \in Orders \ S : SameDay(o, p) /\ done[p]
  \/ \E q \in Requests :
       \/ req[q].step # "idle" /\ \E o \in S : SameDay(req[q].order, o)
       \/ req[q].step \in {"history", "refill"}

\* purgeDataRetention deletes complete orders that were entered long ago, here those S
\* of one day.  The samples and the counters stay.
Purge(S) ==
  /\ \A o \in S : done[o] /\ \A p \in S : SameDay(o, p)
  /\ gone' = gone \cup S
  /\ done' = [o \in Orders |-> done[o] /\ o \notin S]
  /\ on' = [o \in Orders |-> IF o \in S THEN 0 ELSE on[o]]
  /\ sample' = [o \in Orders |-> IF o \in S THEN NoSample ELSE sample[o]]
  /\ orphan' = [o \in Orders |-> IF o \in S THEN sample[o] ELSE orphan[o]]
  /\ \E first \in S :
       /\ \A o \in S : on[first] <= on[o]
       /\ kept' = [sum |-> kept.sum + on[first], count |-> kept.count + 1]
  /\ drift' = (drift \/ Splits(S))
  /\ UNCHANGED <<stats, req, today, begun>>

\* The undo window ends.
Expire(q) ==
  /\ At(q, "written")
  /\ req' = [req EXCEPT ![q] = Idle]
  /\ UNCHANGED <<rows, sample, stats, today, begun, purged, drift>>

\* A statement fails or the server dies.
GiveUp(q) ==
  /\ Working(q)
  /\ req' = [req EXCEPT ![q] = Idle]
  /\ drift' = (drift \/ req[q].step # "read")
  /\ UNCHANGED <<rows, sample, stats, today, begun, purged>>

\* Midnight, between requests: a receipt takes seconds.
Tick ==
  /\ today < LastDay /\ \A q \in Requests : ~Working(q)
  /\ today' = today + 1
  /\ UNCHANGED <<rows, sample, stats, req, begun, purged, drift>>

Receipt(q) ==
  \/ \E o \in Orders : ReadReceipt(q, o)
  \/ WriteReceipt(q) \/ InsertSample(q) \/ InsertFails(q)
  \/ CheckSiblings(q) \/ CheckFails(q) \/ Increment(q) \/ IncrementFails(q)

SoftDelete(q) ==
  \/ ReadSample(q) \/ SampleFails(q) \/ DeleteSample(q)
  \/ FindWinner(q) \/ FindAmongOrphans(q) \/ SiblingsFail(q)
  \/ ReadStats(q) \/ WriteStats(q)

Reset(q) == UndoDelivery(q) \/ (\E o \in Orders : Revert(q, o)) \/ Restore(q)

Recalculation(q) == Recalculate(q) \/ Wipe(q) \/ ReadHistory(q) \/ Refill(q)

Next ==
  \/ \E q \in Requests :
       Receipt(q) \/ SoftDelete(q) \/ Reset(q) \/ Recalculation(q) \/ Expire(q) \/ GiveUp(q)
  \/ \E S \in SUBSET Orders : Purge(S)
  \/ Tick

Spec == Init /\ [][Next]_vars

-----------------------------------------------------------------------------
(* Properties.                                                             *)

\* Every complete order has its sample, and no other has one.
SamplesFit ==
  \A o \in Orders : IF done[o] THEN sample[o] # NoSample /\ sample[o].on = on[o]
                    ELSE sample[o] = NoSample

Quiet == \A q \in Requests : ~Working(q)

\* When nobody works and nothing has gone wrong, the counters that receipts and
\* corrections keep up statement by statement are what a recalculation from all
\* orders would yield, one weight for each day, of its first delivery, and those of
\* the days purged since the last recalculation: it would drop no others.
CountersFit ==
  Quiet /\ ~drift =>
    /\ stats.sum = Aggregate.sum + kept.sum
    /\ stats.count = Aggregate.count + kept.count

\* Likewise the samples, which decide on what a correction takes out.
SamplesFollow == Quiet /\ ~drift => SamplesFit

=============================================================================
