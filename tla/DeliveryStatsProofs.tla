------------------------- MODULE DeliveryStatsProofs -------------------------
(***************************************************************************)
(* Proofs about DeliveryStats, for any set of orders, any number of        *)
(* requests and any bounds.                                                *)
(***************************************************************************)
EXTENDS DeliveryStats, FiniteSetTheorems, SequenceTheorems, TLAPS

-----------------------------------------------------------------------------
(* Days and their first deliveries.  Dates c give each order the date with *)
(* which it counts, 0 if it does not.                                      *)

Dates == [Orders -> 0 .. LastDay]

LEMMA Least ==
  ASSUME NEW S \in SUBSET Nat, S # {}
  PROVE  \E m \in S : \A n \in S : m <= n
<1>1. S \subseteq Nat
  OBVIOUS
<1>2. PICK m \in S : \A n \in S : <<n, m>> \notin OpToRel(<, Nat)
  BY <1>1, NatLessThanWellFounded, WFMin, Zenon
<1>3. ASSUME NEW n \in S PROVE ~(n < m)
  <2>1. n \in Nat /\ m \in Nat
    OBVIOUS
  <2>2. <<n, m>> \notin OpToRel(<, Nat)
    BY <1>2, Zenon
  <2> QED
    BY <2>1, <2>2, Zenon DEF OpToRel
<1> QED
  BY <1>1, <1>3

LEMMA OneDay ==
  ASSUME NEW x \in Orders, NEW y \in Orders, NEW z \in Orders
  PROVE  /\ SameDay(x, x) /\ (SameDay(x, y) <=> SameDay(y, x))
         /\ SameDay(x, y) /\ SameDay(y, z) => SameDay(x, z)
         /\ y \in Siblings(x) <=> SameDay(x, y) /\ x # y
BY DEF SameDay, Siblings

Ahead(c, x, y) == c[x] < c[y] \/ (c[x] = c[y] /\ x < y)

Leaders(c) ==
  {x \in Orders : c[x] > 0 /\ \A y \in Siblings(x) : c[y] > 0 => Ahead(c, x, y)}

Days(c) == Cardinality(Leaders(c))
Weight(c) == Total(c, Leaders(c))

\* Every day with a delivery has a first one.
LEMMA LeaderExists ==
  ASSUME NEW c \in Dates, NEW o \in Orders, c[o] > 0
  PROVE  \E x \in Leaders(c) : SameDay(o, x) /\ c[x] <= c[o]
<1> DEFINE Same == {y \in Orders : SameDay(o, y) /\ c[y] > 0}
           Values == {c[y] : y \in Same}
<1>1. o \in Same /\ c[o] \in Values /\ Values \in SUBSET Nat
  BY OneDay DEF Dates
<1>2. PICK d \in Values : \A e \in Values : d <= e
  BY <1>1, Least
<1> DEFINE Firsts == {y \in Same : c[y] = d}
<1>3. Firsts \in SUBSET Nat /\ Firsts # {}
  BY <1>2, DeliveryStatsAssumption
<1>4. PICK x \in Firsts : \A y \in Firsts : x <= y
  BY <1>3, Least
<1>5. x \in Orders /\ SameDay(o, x) /\ c[x] > 0 /\ c[x] <= c[o]
  BY <1>1, <1>2, <1>4
<1>6. ASSUME NEW y \in Siblings(x), c[y] > 0 PROVE Ahead(c, x, y)
  <2>1. y \in Same /\ c[y] \in Values /\ x # y /\ y \in Nat
    BY <1>5, <1>6, OneDay, DeliveryStatsAssumption DEF Siblings
  <2>2. c[x] <= c[y] /\ (c[x] = c[y] => x <= y)
    BY <1>2, <1>4, <2>1
  <2> QED
    BY <1>1, <1>5, <2>1, <2>2 DEF Ahead, Dates
<1> QED
  BY <1>5, <1>6 DEF Leaders

LEMMA LeaderAlone ==
  ASSUME NEW c \in Dates, NEW x \in Leaders(c), NEW y \in Leaders(c), SameDay(x, y)
  PROVE  x = y
<1> SUFFICES ASSUME x # y PROVE FALSE
  OBVIOUS
<1>1. y \in Siblings(x) /\ x \in Siblings(y) /\ x \in Nat /\ y \in Nat
  BY OneDay, DeliveryStatsAssumption DEF Leaders
<1>2. Ahead(c, x, y) /\ Ahead(c, y, x)
  BY <1>1 DEF Leaders
<1> QED
  BY <1>1, <1>2 DEF Ahead, Dates, Leaders

LEMMA TotalType ==
  ASSUME NEW c \in Dates, NEW S \in SUBSET Orders
  PROVE  /\ IsFiniteSet(S) /\ Cardinality(S) \in Nat /\ Total(c, S) \in Nat
         /\ Cardinality(S) = 0 => Total(c, S) = 0
<1> DEFINE days == 1 .. LastDay
           all == S \X days
           slots == {slot \in S \X (1 .. LastDay) : slot[2] <= c[slot[1]]}
<1>1. IsFiniteSet(S)
  BY FS_Subset, DeliveryStatsAssumption
<1>2. IsFiniteSet(days)
  BY FS_Interval, DeliveryStatsAssumption
<1>3. slots \in SUBSET all /\ (S = {} => slots = {}) /\ Total(c, S) = Cardinality(slots)
  BY DEF Total
<1> HIDE DEF days, slots
<1>4. IsFiniteSet(all)
  BY <1>1, <1>2, FS_Product
<1> HIDE DEF all
<1>5. IsFiniteSet(slots)
  BY <1>3, <1>4, FS_Subset
<1>6. Cardinality(S) \in Nat /\ Cardinality(slots) \in Nat
  BY <1>1, <1>5, FS_CardinalityType
<1>7. Cardinality(S) = 0 => Cardinality(slots) = 0
  BY <1>1, <1>3, FS_EmptySet
<1> QED
  BY <1>1, <1>3, <1>6, <1>7

\* One more order adds its date.
LEMMA TotalAdd ==
  ASSUME NEW c \in Dates, NEW S \in SUBSET Orders, NEW x \in Orders, x \notin S
  PROVE  Total(c, S \cup {x}) = Total(c, S) + c[x]
<1> DEFINE slots == {slot \in S \X (1 .. LastDay) : slot[2] <= c[slot[1]]}
           more == {slot \in (S \cup {x}) \X (1 .. LastDay) : slot[2] <= c[slot[1]]}
           single == {x}
           days == 1 .. c[x]
           own == single \X days
           all == S \X (1 .. LastDay)
<1>1. c[x] \in 0 .. LastDay /\ c[x] \in Nat
  BY DEF Dates
<1>2. more = slots \cup own /\ slots \cap own = {} /\ slots \in SUBSET all
  <2>1. \A slot \in own : slot[1] = x /\ slot[2] \in 1 .. LastDay /\ slot[2] <= c[x]
    BY <1>1, DeliveryStatsAssumption
  <2>2. \A slot \in more : slot[1] # x => slot \in slots
    OBVIOUS
  <2>3. \A slot \in more : slot[1] = x => slot \in own
    BY <1>1
  <2>4. own \subseteq more
    <3> SUFFICES ASSUME NEW slot \in own PROVE slot \in more
      OBVIOUS
    <3>1. slot \in (S \cup {x}) \X (1 .. LastDay)
      BY <1>1, DeliveryStatsAssumption
    <3> QED
      BY <2>1, <3>1
  <2>5. slots \subseteq more /\ slots \cap own = {}
    BY <2>1
  <2> QED
    BY <2>2, <2>3, <2>4, <2>5
<1>3. Total(c, S) = Cardinality(slots) /\ Total(c, S \cup {x}) = Cardinality(more)
  BY DEF Total
<1>4. IsFiniteSet(days) /\ Cardinality(days) = c[x]
  <2> DEFINE n == c[x]
  <2>1. n \in Nat
    BY <1>1
  <2> HIDE DEF n
  <2>2. IsFiniteSet(1 .. n) /\ Cardinality(1 .. n) = n
    BY <2>1, FS_Interval
  <2> QED
    BY <2>2 DEF n
<1>5. IsFiniteSet(single) /\ Cardinality(single) = 1
  BY FS_Singleton
<1> HIDE DEF slots, more, single, days, all
<1>6. IsFiniteSet(own) /\ Cardinality(own) = 1 * c[x]
  BY <1>4, <1>5, FS_Product
<1> HIDE DEF own
<1>7. IsFiniteSet(slots)
  <2>1. IsFiniteSet(S)
    BY FS_Subset, DeliveryStatsAssumption
  <2>2. IsFiniteSet(1 .. LastDay)
    BY FS_Interval, DeliveryStatsAssumption
  <2>3. IsFiniteSet(all)
    BY <2>1, <2>2, FS_Product DEF all
  <2> QED
    BY <1>2, <2>3, FS_Subset
<1>8. Cardinality(slots \cup own)
        = Cardinality(slots) + Cardinality(own) - Cardinality(slots \cap own)
  BY <1>6, <1>7, FS_Union
<1>9. Cardinality(slots \cap own) = 0 /\ Cardinality(slots) \in Nat
  BY <1>2, <1>7, FS_EmptySet, FS_CardinalityType
<1> QED
  BY <1>1, <1>2, <1>3, <1>6, <1>8, <1>9

LEMMA TotalSame ==
  ASSUME NEW c \in Dates, NEW e \in Dates, NEW S \in SUBSET Orders,
         \A x \in S : c[x] = e[x]
  PROVE  Total(c, S) = Total(e, S)
<1>1. {slot \in S \X (1 .. LastDay) : slot[2] <= c[slot[1]]}
        = {slot \in S \X (1 .. LastDay) : slot[2] <= e[slot[1]]}
  OBVIOUS
<1> QED
  BY <1>1 DEF Total

\* A day that does not count any more takes its first delivery with it.
LEMMA DayOut ==
  ASSUME NEW c \in Dates, NEW o \in Leaders(c), NEW e \in Dates,
         \A x \in Orders : e[x] = IF SameDay(o, x) THEN 0 ELSE c[x]
  PROVE  Days(c) = Days(e) + 1 /\ Weight(c) = Weight(e) + c[o]
<1>1. o \in Orders /\ c[o] > 0
  BY DEF Leaders
<1>2. o \notin Leaders(e) /\ Leaders(e) \in SUBSET Orders
  BY <1>1, OneDay DEF Leaders
<1>3. ASSUME NEW x \in Orders
      PROVE  x \in Leaders(c) <=> x \in Leaders(e) \cup {o}
  <2>1. CASE SameDay(o, x)
    BY <1>1, <2>1, LeaderAlone, OneDay DEF Leaders
  <2>2. CASE ~SameDay(o, x)
    <3>1. e[x] = c[x] /\ x # o /\ \A y \in Siblings(x) : y \in Orders /\ e[y] = c[y]
      BY <1>1, <2>2, OneDay DEF Siblings
    <3> QED
      BY <3>1 DEF Leaders, Ahead
  <2> QED
    BY <2>1, <2>2
<1>4. Leaders(c) = Leaders(e) \cup {o}
  BY <1>1, <1>2, <1>3 DEF Leaders
<1>5. \A x \in Leaders(e) : c[x] = e[x]
  BY DEF Leaders
<1>6. Total(c, Leaders(c)) = Total(c, Leaders(e)) + c[o]
  BY <1>1, <1>2, <1>4, TotalAdd
<1>7. Total(c, Leaders(e)) = Total(e, Leaders(e))
  BY <1>2, <1>5, TotalSame
<1>8. Cardinality(Leaders(c)) = Cardinality(Leaders(e)) + 1
  BY <1>2, <1>4, TotalType, FS_AddElement
<1> QED
  BY <1>6, <1>7, <1>8 DEF Days, Weight

\* An order of a day that has a delivery no later adds nothing.
LEMMA DayJoined ==
  ASSUME NEW c \in Dates, NEW e \in Dates, NEW o \in Orders, c[o] = 0, e[o] > 0,
         \A x \in Orders \ {o} : e[x] = c[x],
         NEW y \in Siblings(o), c[y] > 0, c[y] <= e[o]
  PROVE  Days(c) = Days(e) /\ Weight(c) = Weight(e)
<1> DEFINE f == [x \in Orders |-> IF SameDay(o, x) THEN 0 ELSE c[x]]
<1>1. y \in Orders /\ y # o /\ SameDay(o, y) /\ f \in Dates
  BY OneDay DEF Siblings, Dates
<1>2. PICK x \in Leaders(c) : SameDay(y, x) /\ c[x] <= c[y]
  BY <1>1, LeaderExists
<1>3. PICK z \in Leaders(e) : SameDay(o, z)
  BY LeaderExists
<1>4. /\ x \in Orders /\ z \in Orders /\ x # o /\ SameDay(o, x) /\ SameDay(x, z)
      /\ c[x] > 0 /\ e[x] = c[x] /\ x \in Nat /\ z \in Nat
  BY <1>1, <1>2, <1>3, OneDay, DeliveryStatsAssumption DEF Leaders
<1>5. e[z] = c[x]
  <2>1. CASE z = o
    <3>1. Ahead(e, o, x)
      BY <1>4, <2>1, OneDay DEF Leaders
    <3> QED
      BY <1>1, <1>2, <1>4, <2>1, <3>1 DEF Ahead, Dates
  <2>2. CASE z # o /\ z # x
    <3>1. z \in Siblings(x) /\ x \in Siblings(z) /\ e[z] = c[z] /\ e[z] > 0
      BY <1>4, <2>2, OneDay DEF Leaders
    <3>2. Ahead(c, x, z) /\ Ahead(e, z, x)
      BY <1>4, <3>1 DEF Leaders
    <3> QED
      BY <1>4, <3>1, <3>2 DEF Ahead, Dates
  <2> QED
    BY <1>4, <2>1, <2>2
<1>6. \A w \in Orders : f[w] = IF SameDay(x, w) THEN 0 ELSE c[w]
  BY <1>4, OneDay
<1>7. \A w \in Orders : f[w] = IF SameDay(z, w) THEN 0 ELSE e[w]
  BY <1>3, <1>4, OneDay
<1> HIDE DEF f
<1>8. Days(c) = Days(f) + 1 /\ Weight(c) = Weight(f) + c[x]
  BY <1>1, <1>6, DayOut
<1>9. Days(e) = Days(f) + 1 /\ Weight(e) = Weight(f) + e[z]
  BY <1>1, <1>7, DayOut
<1> QED
  BY <1>5, <1>8, <1>9

-----------------------------------------------------------------------------
(* Types.                                                                  *)

\* No days, no sum.
KeptOK == PurgedOK /\ (kept.count = 0 => kept.sum = 0)

\* The corrections of a request that writes them are not used up.
Typed ==
  LiveOK /\ \A q \in Requests : req[q].step \in {"stats", "lower"} => req[q].todo # <<>>

LEMMA NotNegative ==
  ASSUME NEW n \in Int
  PROVE  Max({0, n}) = IF n > 0 THEN n ELSE 0
<1> DEFINE m == IF n > 0 THEN n ELSE 0
           S == {0, n}
<1>1. m \in S /\ \A y \in S : m >= y
  OBVIOUS
<1>2. \A x \in S : (\A y \in S : x >= y) => x = m
  OBVIOUS
<1> HIDE DEF m, S
<1>3. (CHOOSE x \in S : \A y \in S : x >= y) = m
  BY <1>1, <1>2, Zenon
<1> QED
  BY <1>3 DEF Max, m, S

\* The sample that takes the place of a deleted one is the first of the others.
LEMMA FirstSample ==
  ASSUME sample \in [Orders -> Samples], NEW S \in SUBSET Orders, S # {}
  PROVE  LET next == CHOOSE p \in S : \A p2 \in S \ {p} : Before(p, sample[p2], p2)
         IN next \in S /\ \A p2 \in S \ {next} : Before(next, sample[p2], p2)
<1> DEFINE Values == {sample[p].on : p \in S}
           Good(p) == \A p2 \in S \ {p} : Before(p, sample[p2], p2)
<1>1. Values \in SUBSET Nat /\ Values # {}
  BY DEF Samples
<1>2. PICK d \in Values : \A e \in Values : d <= e
  BY <1>1, Least
<1> DEFINE Firsts == {p \in S : sample[p].on = d}
<1>3. Firsts \in SUBSET Nat /\ Firsts # {}
  BY <1>2, DeliveryStatsAssumption
<1>4. PICK x \in Firsts : \A y \in Firsts : x <= y
  BY <1>3, Least
<1>5. ASSUME NEW y \in S \ {x} PROVE Before(x, sample[y], y)
  <2>1. sample[y].on \in Nat /\ sample[x].on = d /\ d \in Nat /\ d <= sample[y].on
    BY <1>1, <1>2, <1>4, <1>5
  <2>2. x \in Nat /\ y \in Nat /\ (sample[y].on = d => x <= y)
    BY <1>4, <1>5, DeliveryStatsAssumption
  <2> QED
    BY <1>5, <2>1, <2>2 DEF Before
<1>6. x \in S /\ Good(x)
  BY <1>5
<1> HIDE DEF Good
<1>7. (CHOOSE p \in S : Good(p)) \in S /\ Good(CHOOSE p \in S : Good(p))
  BY <1>6, Zenon
<1> QED
  BY <1>7 DEF Good

\* p is the order whose sample takes the place of o's.
Heir(o, p) == p \in Others(o) /\ \A p2 \in Others(o) \ {p} : Before(p, sample[p2], p2)

LEMMA Replaced ==
  ASSUME sample \in [Orders -> Samples], NEW o \in Orders, NEW s
  PROVE  \/ Others(o) = {} /\ Replace(s, o) = <<-s.on>>
         \/ \E p \in Orders : Heir(o, p) /\ Replace(s, o) = <<-s.on, sample[p].on>>
<1>1. CASE Others(o) = {}
  BY <1>1 DEF Replace
<1>2. CASE Others(o) # {}
  <2>1. Others(o) \in SUBSET Orders
    BY DEF Others, Siblings
  <2> DEFINE next == CHOOSE p \in Others(o) :
                       \A p2 \in Others(o) \ {p} : Before(p, sample[p2], p2)
  <2>2. Heir(o, next)
    BY <1>2, <2>1, FirstSample DEF Heir
  <2>3. Replace(s, o) = <<-s.on, sample[next].on>>
    BY <1>2 DEF Replace
  <2> HIDE DEF next
  <2>4. next \in Orders
    BY <2>1, <2>2 DEF Heir
  <2> QED
    BY <2>2, <2>3, <2>4
<1> QED
  BY <1>1, <1>2

LEMMA AggregateType ==
  ASSUME on \in Dates
  PROVE  Aggregate \in Stats /\ (~Aggregate.row => Aggregate = NoStats)
<1> DEFINE winners == {o \in Orders : First(o)}
<1>1. winners \in SUBSET Orders
  OBVIOUS
<1>2. Aggregate = [row |-> winners # {}, sum |-> Total(on, winners),
                   count |-> Cardinality(winners)]
  BY DEF Aggregate
<1> HIDE DEF winners
<1>3. Total(on, winners) \in Nat /\ Cardinality(winners) \in Nat
  BY <1>1, TotalType
<1>4. winners = {} => Cardinality(winners) = 0 /\ Total(on, winners) = 0
  BY <1>1, TotalType, FS_EmptySet
<1> QED
  BY <1>2, <1>3, <1>4 DEF Stats, NoStats

LEMMA CountersType ==
  ASSUME NEW s \in Stats, NEW days \in Int
  PROVE  /\ Lowered(s, days) \in Stats /\ Lowered(s, days).row
         /\ s.count = 1 => Lowered(s, days).count = 0 /\ Lowered(s, days).sum = 0
         /\ s.count > 1 /\ s.sum + days >= 0 =>
              Lowered(s, days).count = s.count - 1 /\ Lowered(s, days).sum = s.sum + days
         /\ days > 0 => Added(s, days) \in Stats
<1>1. s.sum \in Nat /\ s.count \in Nat
  BY DEF Stats
<1>2. Max({0, s.count - 1}) = IF s.count - 1 > 0 THEN s.count - 1 ELSE 0
  BY <1>1, NotNegative
<1>3. Max({0, s.sum + days}) = IF s.sum + days > 0 THEN s.sum + days ELSE 0
  BY <1>1, NotNegative
<1> QED
  BY <1>1, <1>2, <1>3 DEF Lowered, Added, Stats

\* What the request q becomes.
LEMMA RequestBecomes ==
  ASSUME Typed, NEW q \in Requests, NEW r \in Request,
         r.step \in {"stats", "lower"} => r.todo # <<>>,
         req' = [req EXCEPT ![q] = r]
  PROVE  /\ req' \in [Requests -> Request]
         /\ \A p \in Requests : req'[p].step \in {"stats", "lower"} => req'[p].todo # <<>>
<1>1. req \in [Requests -> Request]
  BY DEF Typed, LiveOK
<1>2. \A p \in Requests : req'[p] = IF p = q THEN r ELSE req[p]
  BY <1>1
<1> QED
  BY <1>1, <1>2 DEF Typed

LEMMA IdleType == Idle \in Request /\ Idle.step = "idle"
<1>1. (CHOOSE o \in Orders : TRUE) \in Orders
  BY DeliveryStatsAssumption
<1>2. LastDay \in Nat /\ MaxBegun \in Nat
  BY DeliveryStatsAssumption
<1>3. <<>> \in Seq(-LastDay .. LastDay)
  OBVIOUS
<1> QED
  BY <1>1, <1>2, <1>3 DEF Idle, Request, Steps, NoSample, NoStats, Samples, Stats

\* Steps of a request that leave the rest of it as it is.
LEMMA GotoType ==
  ASSUME Typed, NEW q \in Requests, NEW s \in Steps, Goto(q, s),
         s \in {"stats", "lower"} => req[q].todo # <<>>
  PROVE  /\ req' \in [Requests -> Request]
         /\ \A p \in Requests : req'[p].step \in {"stats", "lower"} => req'[p].todo # <<>>
<1> DEFINE r == [req[q] EXCEPT !.step = s]
<1>1. req[q] \in Request
  BY DEF Typed, LiveOK
<1>2. r \in Request /\ r.step = s /\ r.todo = req[q].todo
  BY <1>1 DEF Request
<1>3. req' = [req EXCEPT ![q] = r]
  BY DEF Goto
<1> HIDE DEF r
<1> QED
  BY <1>2, <1>3, RequestBecomes

LEMMA BeginType ==
  ASSUME Typed, NEW q \in Requests, NEW o \in Orders, NEW op \in {"receive", "revert"},
         NEW s \in {"read", "sample"}, Begin(q, op, o, s)
  PROVE  Typed'
<1> DEFINE r == [Idle EXCEPT !.op = op, !.step = s, !.order = o,
                   !.was = done[o], !.wasOn = on[o], !.number = begun + 1]
<1>1. begun + 1 \in 0 .. MaxBegun /\ done[o] \in BOOLEAN /\ on[o] \in 0 .. LastDay
  BY DeliveryStatsAssumption DEF Begin, Typed, LiveOK
<1>2. r \in Request /\ r.step \notin {"stats", "lower"}
  BY <1>1, IdleType DEF Request, Steps
<1>3. req' = [req EXCEPT ![q] = r]
  BY DEF Begin
<1>4. begun' \in 0 .. MaxBegun /\ UNCHANGED <<done, on, sample, stats, today, drift>>
  BY <1>1 DEF Begin, rows
<1> HIDE DEF r
<1>5. /\ req' \in [Requests -> Request]
      /\ \A p \in Requests : req'[p].step \in {"stats", "lower"} => req'[p].todo # <<>>
  BY <1>2, <1>3, RequestBecomes
<1> QED
  BY <1>4, <1>5 DEF Typed, LiveOK

\* Steps that leave the orders, the samples and the counters alone.
LEMMA ReadType ==
  ASSUME Typed, drift' \in BOOLEAN, UNCHANGED <<done, on, sample, stats, today, begun>>,
         req' \in [Requests -> Request],
         \A p \in Requests : req'[p].step \in {"stats", "lower"} => req'[p].todo # <<>>
  PROVE  Typed'
BY DEF Typed, LiveOK

LEMMA TodoType ==
  ASSUME Typed, NEW q \in Requests, At(q, "winner"), FindWinner(q)
  PROVE  /\ req'[q].todo \in Seq(-LastDay .. LastDay)
         /\ req'[q].step = "stats" => req'[q].todo # <<>>
<1> DEFINE s == req[q].sample
           o == req[q].order
           won == \A p \in Others(o) : ~Before(p, s, o)
<1>1. req \in [Requests -> Request] /\ sample \in [Orders -> Samples]
  BY DEF Typed, LiveOK
<1>2. s \in Samples /\ o \in Orders /\ req[q].op \in {"receive", "undo", "revert", "recalc"}
  BY <1>1 DEF Request
<1>3. LastDay \in Nat /\ s.on \in 0 .. LastDay
  BY <1>2, DeliveryStatsAssumption DEF Samples
<1>4. /\ req'[q].todo = IF won THEN Replace(s, o) ELSE <<>>
      /\ req'[q].step = IF won THEN "stats" ELSE After(q)
  BY <1>1 DEF FindWinner, Request
<1>5. /\ Replace(s, o) \in Seq(-LastDay .. LastDay) /\ Replace(s, o) # <<>>
  <2>1. CASE Replace(s, o) = <<-s.on>>
    BY <1>3, <2>1
  <2>2. ASSUME NEW p \in Orders, Replace(s, o) = <<-s.on, sample[p].on>>
        PROVE  Replace(s, o) \in Seq(-LastDay .. LastDay) /\ Replace(s, o) # <<>>
    <3>1. sample[p].on \in 0 .. LastDay
      BY <1>1 DEF Samples
    <3>2. -s.on \in -LastDay .. LastDay /\ sample[p].on \in -LastDay .. LastDay
      BY <1>3, <3>1
    <3> QED
      BY <2>2, <3>2
  <2> QED
    BY <1>1, <1>2, <2>1, <2>2, Replaced
<1>6. After(q) # "stats"
  BY DEF After
<1>7. <<>> \in Seq(-LastDay .. LastDay)
  OBVIOUS
<1>8. CASE won
  BY <1>4, <1>5, <1>8
<1>9. CASE ~won
  BY <1>4, <1>6, <1>7, <1>9
<1> QED
  BY <1>8, <1>9

LEMMA WinnerType ==
  ASSUME Typed, NEW q \in Requests, FindWinner(q)
  PROVE  Typed'
<1>1. req \in [Requests -> Request] /\ At(q, "winner")
  BY DEF Typed, LiveOK, FindWinner
<1> DEFINE step == req'[q].step
           todo == req'[q].todo
           r == [req[q] EXCEPT !.step = step, !.todo = todo]
<1>2. todo \in Seq(-LastDay .. LastDay) /\ (step = "stats" => todo # <<>>)
  BY <1>1, TodoType
<1>3. step \in Steps \ {"lower"}
  BY <1>1 DEF FindWinner, After, Steps, Request
<1>4. req' = [req EXCEPT ![q] = r]
  BY <1>1 DEF FindWinner, Request
<1>5. drift' \in BOOLEAN /\ UNCHANGED <<done, on, sample, stats, today, begun>>
  BY DEF FindWinner, Typed, LiveOK, rows
<1> HIDE DEF step, todo
<1>6. r \in Request /\ r.step = step /\ r.todo = todo
  BY <1>1, <1>2, <1>3 DEF Request
<1> HIDE DEF r
<1>7. /\ req' \in [Requests -> Request]
      /\ \A p \in Requests : req'[p].step \in {"stats", "lower"} => req'[p].todo # <<>>
  BY <1>2, <1>3, <1>4, <1>6, RequestBecomes
<1> QED
  BY <1>5, <1>7, ReadType

LEMMA LowerType ==
  ASSUME Typed, NEW q \in Requests, WriteStats(q)
  PROVE  Typed'
<1> DEFINE days == Head(req[q].todo)
           rest == Tail(req[q].todo)
           read == req[q].stats
           step == IF rest = <<>> THEN After(q) ELSE "stats"
           r == [req[q] EXCEPT !.todo = rest, !.stats = NoStats, !.step = step]
<1>1. req \in [Requests -> Request] /\ stats \in Stats /\ req[q].todo # <<>>
  BY DEF Typed, LiveOK, WriteStats, At
<1>2. /\ read \in Stats /\ req[q] \in Request
      /\ req[q].todo \in Seq(-LastDay .. LastDay) /\ req[q].todo # <<>>
  BY <1>1 DEF Request
<1>3. days \in -LastDay .. LastDay /\ rest \in Seq(-LastDay .. LastDay)
  BY <1>2, HeadTailProperties
<1>4. days \in Int
  BY <1>3, DeliveryStatsAssumption
<1>5. NoStats \in Stats
  BY DEF NoStats, Stats
<1>6. step \in Steps \ {"lower"} /\ (step = "stats" => rest # <<>>)
  BY DEF After, Steps
<1>7. req' = [req EXCEPT ![q] = r]
  BY <1>1 DEF WriteStats, Request
<1>8. stats' = CASE read.row /\ stats.row /\ days < 0 -> Lowered(read, days)
                 [] read.row /\ stats.row /\ days > 0 -> Added(read, days)
                 [] ~read.row /\ ~stats.row /\ days > 0 -> Added(NoStats, days)
                 [] OTHER -> stats
  BY DEF WriteStats
<1>9. UNCHANGED <<done, on, sample, today, begun>> /\ drift' \in BOOLEAN
  BY DEF WriteStats, Disturb, Typed, LiveOK, rows
<1> HIDE DEF days, rest, read, step
<1>10. stats' \in Stats
  <2>1. CASE days < 0
    <3>1. Lowered(read, days) \in Stats
      BY <1>2, <1>4, CountersType
    <3> QED
      BY <1>1, <1>4, <1>8, <2>1, <3>1
  <2>2. CASE days > 0
    <3>1. Added(read, days) \in Stats /\ Added(NoStats, days) \in Stats
      BY <1>2, <1>4, <1>5, <2>2, CountersType
    <3> QED
      BY <1>1, <1>4, <1>8, <2>2, <3>1
  <2>3. CASE days = 0
    BY <1>1, <1>8, <2>3
  <2> QED
    BY <1>4, <2>1, <2>2, <2>3
<1>11. r \in Request /\ r.step = step /\ r.todo = rest
  BY <1>2, <1>3, <1>5, <1>6 DEF Request
<1> HIDE DEF r
<1>12. /\ req' \in [Requests -> Request]
       /\ \A p \in Requests : req'[p].step \in {"stats", "lower"} => req'[p].todo # <<>>
  BY <1>6, <1>7, <1>11, RequestBecomes
<1> QED
  BY <1>9, <1>10, <1>12 DEF Typed, LiveOK

\* Steps that only move their request on.
LEMMA MoveType ==
  ASSUME Typed, NEW q \in Requests, NEW s \in Steps \ {"stats", "lower"}, Goto(q, s),
         UNCHANGED begun, drift' \in BOOLEAN, today' = today,
         done' \in [Orders -> BOOLEAN], on' \in [Orders -> 0 .. LastDay],
         sample' \in [Orders -> Samples], stats' \in Stats
  PROVE  Typed'
<1>1. /\ req' \in [Requests -> Request]
      /\ \A p \in Requests : req'[p].step \in {"stats", "lower"} => req'[p].todo # <<>>
  BY GotoType
<1> QED
  BY <1>1 DEF Typed, LiveOK

\* Steps that replace their request.
LEMMA ReplaceType ==
  ASSUME Typed, NEW q \in Requests, NEW r \in Request, req' = [req EXCEPT ![q] = r],
         r.step \in {"stats", "lower"} => r.todo # <<>>,
         UNCHANGED <<done, on, sample, today, begun>>, drift' \in BOOLEAN, stats' \in Stats
  PROVE  Typed'
<1>1. /\ req' \in [Requests -> Request]
      /\ \A p \in Requests : req'[p].step \in {"stats", "lower"} => req'[p].todo # <<>>
  BY RequestBecomes
<1> QED
  BY <1>1 DEF Typed, LiveOK

LEMMA ReceiptType ==
  ASSUME Typed, NEW q \in Requests, Receipt(q)
  PROVE  Typed'
<1> USE DEF rows
<1>1. /\ req[q] \in Request /\ req[q].was \in BOOLEAN /\ req[q].number \in 0 .. MaxBegun
      /\ req[q].order \in Orders
  BY DEF Typed, LiveOK, Request
<1>2. {"sample", "insert", "written", "siblings", "increment", "read"} \subseteq Steps
  BY DEF Steps
<1>3. /\ today \in 1 .. LastDay /\ today \in 0 .. LastDay /\ 0 \in 0 .. LastDay /\ today \in Nat
      /\ today > 0
  BY DeliveryStatsAssumption DEF Typed, LiveOK
<1>4. ASSUME NEW o \in Orders, ReadReceipt(q, o) PROVE Typed'
  BY <1>4, BeginType DEF ReadReceipt
<1>5. CASE WriteReceipt(q)
  <2>1. done' \in [Orders -> BOOLEAN] /\ on' \in [Orders -> 0 .. LastDay]
    BY <1>1, <1>3, <1>5 DEF WriteReceipt, WriteRow, Typed, LiveOK
  <2>2. Goto(q, "sample") \/ Goto(q, "insert")
    BY <1>5 DEF WriteReceipt
  <2>3. UNCHANGED <<sample, stats, today, begun>> /\ drift' \in BOOLEAN
    BY <1>5 DEF WriteReceipt, Disturb, Typed, LiveOK
  <2> QED
    BY <1>2, <2>1, <2>2, <2>3, MoveType DEF Typed, LiveOK
<1>6. CASE InsertSample(q)
  <2>1. sample' \in [Orders -> Samples]
    <3>1. on[req[q].order] \in 0 .. LastDay
      BY <1>1 DEF Typed, LiveOK
    <3>2. [id |-> req[q].number, on |-> on[req[q].order]] \in Samples
      BY <1>1, <3>1 DEF Samples
    <3> QED
      BY <1>1, <1>6, <3>2 DEF InsertSample, Typed, LiveOK
  <2>2. Goto(q, "written") \/ Goto(q, "siblings")
    BY <1>6 DEF InsertSample
  <2>3. UNCHANGED <<done, on, stats, today, begun>> /\ drift' \in BOOLEAN
    BY <1>6 DEF InsertSample, Disturb, Typed, LiveOK
  <2> QED
    BY <1>2, <2>1, <2>2, <2>3, MoveType DEF Typed, LiveOK
<1>7. CASE CheckSiblings(q)
  <2>1. Goto(q, "written") \/ Goto(q, "increment")
    BY <1>7 DEF CheckSiblings
  <2>2. UNCHANGED <<done, on, sample, stats, today, begun, drift>>
    BY <1>7 DEF CheckSiblings
  <2> QED
    BY <1>2, <2>1, <2>2, MoveType DEF Typed, LiveOK
<1>8. CASE Increment(q)
  <2>1. stats' \in Stats /\ Goto(q, "written")
    BY <1>3, <1>8, CountersType DEF Increment, Typed, LiveOK
  <2>2. UNCHANGED <<done, on, sample, today, begun>> /\ drift' \in BOOLEAN
    BY <1>8 DEF Increment, Disturb, Typed, LiveOK
  <2> QED
    BY <1>2, <2>1, <2>2, MoveType DEF Typed, LiveOK
<1>9. CASE InsertFails(q) \/ CheckFails(q)
  <2>1. Goto(q, "siblings") \/ Goto(q, "increment")
    BY <1>9 DEF InsertFails, CheckFails
  <2>2. UNCHANGED <<done, on, sample, stats, today, begun>> /\ drift' \in BOOLEAN
    BY <1>9 DEF InsertFails, CheckFails
  <2> QED
    BY <1>2, <2>1, <2>2, MoveType DEF Typed, LiveOK
<1>10. CASE IncrementFails(q)
  <2> DEFINE r == [req[q] EXCEPT !.step = "stats", !.todo = <<today>>]
  <2>1. req' = [req EXCEPT ![q] = r] /\ stats \in Stats
    BY <1>1, <1>10 DEF IncrementFails, Request, Typed, LiveOK
  <2>2. today \in -LastDay .. LastDay
    BY <1>3, DeliveryStatsAssumption
  <2>3. <<today>> \in Seq(-LastDay .. LastDay) /\ <<today>> # <<>> /\ "stats" \in Steps
    BY <2>2 DEF Steps
  <2>4. r \in Request /\ r.todo # <<>>
    BY <1>1, <2>3 DEF Request
  <2>5. UNCHANGED <<done, on, sample, stats, today, begun>> /\ drift' \in BOOLEAN
    BY <1>10 DEF IncrementFails
  <2> HIDE DEF r
  <2> QED
    BY <2>1, <2>4, <2>5, ReplaceType
<1> QED
  BY <1>4, <1>5, <1>6, <1>7, <1>8, <1>9, <1>10 DEF Receipt

\* Corrections made of the weight of a deleted sample.
LEMMA TodoTyped ==
  ASSUME NEW s \in Samples, NEW next \in 0 .. LastDay
  PROVE  /\ <<-s.on>> \in Seq(-LastDay .. LastDay) /\ <<-s.on>> # <<>>
         /\ <<-s.on, next>> \in Seq(-LastDay .. LastDay) /\ <<-s.on, next>> # <<>>
<1>1. -s.on \in -LastDay .. LastDay /\ next \in -LastDay .. LastDay
  BY DeliveryStatsAssumption DEF Samples
<1> QED
  BY <1>1

LEMMA OrphansType ==
  ASSUME Typed, KeptOK, NEW q \in Requests, FindAmongOrphans(q) \/ SiblingsFail(q)
  PROVE  Typed'
<1> USE DEF rows
<1>1. /\ req \in [Requests -> Request] /\ req[q] \in Request /\ req[q].sample \in Samples
      /\ sample \in [Orders -> Samples] /\ orphan \in [Orders -> Samples] /\ stats \in Stats
  BY DEF Typed, LiveOK, Request, KeptOK, PurgedOK
<1>2. UNCHANGED <<done, on, sample, stats, today, begun>> /\ drift' \in BOOLEAN
  BY DEF FindAmongOrphans, SiblingsFail
<1>3. After(q) \in Steps \ {"stats", "lower"} /\ "stats" \in Steps
  BY DEF After, Steps
<1>4. ASSUME NEW step \in Steps \ {"lower"}, NEW todo \in Seq(-LastDay .. LastDay),
             step = "stats" => todo # <<>>,
             req' = [req EXCEPT ![q].step = step, ![q].todo = todo]
      PROVE  Typed'
  <2> DEFINE r == [req[q] EXCEPT !.step = step, !.todo = todo]
  <2>1. req' = [req EXCEPT ![q] = r]
    BY <1>1, <1>4 DEF Request
  <2>2. r \in Request /\ r.step = step /\ r.todo = todo
    BY <1>1, <1>4 DEF Request
  <2> HIDE DEF r
  <2> QED
    BY <1>1, <1>2, <1>4, <2>1, <2>2, ReplaceType
<1>5. CASE SiblingsFail(q)
  <2> DEFINE todo == <<-req[q].sample.on>>
  <2>1. 0 \in 0 .. LastDay
    BY DeliveryStatsAssumption
  <2>2. todo \in Seq(-LastDay .. LastDay) /\ todo # <<>>
    BY <1>1, <2>1, TodoTyped
  <2>3. req' = [req EXCEPT ![q].step = "stats", ![q].todo = todo]
    BY <1>5 DEF SiblingsFail
  <2> HIDE DEF todo
  <2> QED
    BY <1>3, <1>4, <2>2, <2>3
<1>6. CASE FindAmongOrphans(q)
  <2> DEFINE s == req[q].sample
             o == req[q].order
             left == {orphan[p].on : p \in Orphans(o)}
             dates == left \cup {sample[p].on : p \in Others(o)}
             won == (\A p \in Others(o) : ~Before(p, s, o)) /\ \A date \in left : s.on < date
  <2>1. PICK next \in dates :
          req' = [req EXCEPT ![q].step = IF won THEN "stats" ELSE After(q),
                             ![q].todo = IF won THEN <<-s.on, next>> ELSE <<>>]
    BY <1>6, Zenon DEF FindAmongOrphans
  <2>2. next \in 0 .. LastDay
    BY <1>1 DEF Orphans, Others, Siblings, Samples
  <2>3. <<-s.on, next>> \in Seq(-LastDay .. LastDay) /\ <<-s.on, next>> # <<>>
    BY <1>1, <2>2, TodoTyped
  <2>4. <<>> \in Seq(-LastDay .. LastDay)
    OBVIOUS
  <2> HIDE DEF won, dates
  <2>5. CASE won
    BY <1>3, <1>4, <2>1, <2>3, <2>5
  <2>6. CASE ~won
    BY <1>3, <1>4, <2>1, <2>4, <2>6
  <2> QED
    BY <2>5, <2>6
<1> QED
  BY <1>5, <1>6

LEMMA SoftDeleteType ==
  ASSUME Typed, KeptOK, NEW q \in Requests, SoftDelete(q)
  PROVE  Typed'
<1> USE DEF rows
<1>1. /\ req \in [Requests -> Request] /\ req[q] \in Request /\ req[q].order \in Orders
      /\ stats \in Stats /\ sample \in [Orders -> Samples]
  BY DEF Typed, LiveOK, Request
<1>2. {"delete", "winner", "lower", "written", "restore"} \subseteq Steps
  BY DEF Steps
<1>3. After(q) \in {"written", "restore"}
  BY DEF After
<1>4. CASE ReadSample(q)
  <2> DEFINE s == sample[req[q].order]
             step == IF s = NoSample THEN After(q) ELSE "delete"
             r == [req[q] EXCEPT !.sample = s, !.step = step]
  <2>1. s \in Samples /\ step \in Steps \ {"stats", "lower"}
    BY <1>1, <1>2, <1>3
  <2>2. req' = [req EXCEPT ![q] = r]
    BY <1>1, <1>4 DEF ReadSample, Request
  <2>3. UNCHANGED <<done, on, sample, stats, today, begun, drift>>
    BY <1>4 DEF ReadSample
  <2> HIDE DEF s, step
  <2>4. r \in Request /\ r.step = step
    BY <1>1, <2>1 DEF Request
  <2> HIDE DEF r
  <2> QED
    BY <2>1, <2>2, <2>3, <2>4, ReplaceType DEF Typed, LiveOK
<1>5. CASE SampleFails(q)
  <2>1. Goto(q, After(q)) /\ UNCHANGED <<done, on, sample, stats, today, begun>>
        /\ drift' \in BOOLEAN
    BY <1>5 DEF SampleFails
  <2>2. After(q) \in Steps \ {"stats", "lower"}
    BY <1>2, <1>3
  <2> QED
    BY <2>1, <2>2, MoveType DEF Typed, LiveOK
<1>6. CASE DeleteSample(q)
  <2>1. NoSample \in Samples
    BY DeliveryStatsAssumption DEF NoSample, Samples
  <2>2. sample' \in [Orders -> Samples]
    BY <1>1, <1>6, <2>1 DEF DeleteSample
  <2>3. Goto(q, "winner") /\ UNCHANGED <<done, on, stats, today, begun>> /\ drift' \in BOOLEAN
    BY <1>6 DEF DeleteSample, Disturb, Typed, LiveOK
  <2> QED
    BY <1>2, <2>2, <2>3, MoveType DEF Typed, LiveOK
<1>7. CASE ReadStats(q)
  <2> DEFINE r == [req[q] EXCEPT !.step = "lower", !.stats = stats]
  <2>1. req' = [req EXCEPT ![q] = r] /\ req[q].todo # <<>>
    BY <1>1, <1>7 DEF ReadStats, Request, Typed, At
  <2>2. r \in Request /\ r.todo = req[q].todo
    BY <1>1, <1>2 DEF Request
  <2>3. UNCHANGED <<done, on, sample, stats, today, begun, drift>>
    BY <1>7 DEF ReadStats
  <2> HIDE DEF r
  <2> QED
    BY <1>1, <2>1, <2>2, <2>3, ReplaceType DEF Typed, LiveOK
<1> QED
  BY <1>4, <1>5, <1>6, <1>7, WinnerType, OrphansType, LowerType DEF SoftDelete

LEMMA ResetType ==
  ASSUME Typed, NEW q \in Requests, Reset(q)
  PROVE  Typed'
<1> USE DEF rows
<1>1. /\ req \in [Requests -> Request] /\ req[q] \in Request /\ req[q].order \in Orders
      /\ req[q].was \in BOOLEAN /\ req[q].wasOn \in 0 .. LastDay
  BY DEF Typed, LiveOK, Request
<1>2. {"restore", "sample", "wipe"} \subseteq Steps
  BY DEF Steps
<1>3. CASE UndoDelivery(q)
  <2> DEFINE step == IF req[q].was THEN "restore" ELSE "sample"
             r == [req[q] EXCEPT !.op = "undo", !.step = step]
  <2>1. step \in Steps \ {"stats", "lower"}
    BY <1>2
  <2>2. req' = [req EXCEPT ![q] = r]
    BY <1>1, <1>3 DEF UndoDelivery, Request
  <2>3. UNCHANGED <<done, on, sample, stats, today, begun, drift>>
    BY <1>3 DEF UndoDelivery
  <2> HIDE DEF step
  <2>4. r \in Request /\ r.step = step
    BY <1>1, <2>1 DEF Request
  <2> HIDE DEF r
  <2> QED
    BY <2>1, <2>2, <2>3, <2>4, ReplaceType DEF Typed, LiveOK
<1>4. ASSUME NEW o \in Orders, Revert(q, o) PROVE Typed'
  BY <1>4, BeginType DEF Revert
<1>5. CASE Restore(q)
  <2>1. done' \in [Orders -> BOOLEAN] /\ on' \in [Orders -> 0 .. LastDay]
    <3> DEFINE back == req[q].op = "undo" /\ req[q].was
    <3>1. WriteRow(req[q].order, back, IF back THEN req[q].wasOn ELSE 0)
      BY <1>5 DEF Restore
    <3>2. (IF back THEN req[q].wasOn ELSE 0) \in 0 .. LastDay /\ back \in BOOLEAN
      BY <1>1, DeliveryStatsAssumption
    <3> HIDE DEF back
    <3> QED
      BY <1>1, <3>1, <3>2 DEF WriteRow, Typed, LiveOK
  <2>2. Goto(q, "wipe") /\ UNCHANGED <<sample, stats, today, begun>> /\ drift' \in BOOLEAN
    BY <1>5 DEF Restore, Typed, LiveOK
  <2> QED
    BY <1>2, <2>1, <2>2, MoveType DEF Typed, LiveOK
<1> QED
  BY <1>3, <1>4, <1>5 DEF Reset

LEMMA RecalculationType ==
  ASSUME Typed, NEW q \in Requests, Recalculation(q) \/ Expire(q) \/ GiveUp(q)
  PROVE  Typed'
<1> USE DEF rows
<1>1. /\ req \in [Requests -> Request] /\ req[q] \in Request /\ stats \in Stats
      /\ req[q].stats \in Stats
  BY DEF Typed, LiveOK, Request
<1>2. {"wipe", "history", "refill"} \subseteq Steps
  BY DEF Steps
<1>3. CASE Recalculate(q)
  <2> DEFINE r == [Idle EXCEPT !.step = "wipe"]
  <2>1. req' = [req EXCEPT ![q] = r] /\ UNCHANGED <<done, on, sample, stats, today, begun, drift>>
    BY <1>3 DEF Recalculate
  <2>2. r \in Request /\ r.step = "wipe"
    BY <1>2, IdleType DEF Request
  <2> HIDE DEF r
  <2> QED
    BY <1>1, <2>1, <2>2, ReplaceType DEF Typed, LiveOK
<1>4. CASE Wipe(q)
  <2>1. NoStats \in Stats
    BY DEF NoStats, Stats
  <2>2. /\ stats' = NoStats /\ Goto(q, "history") /\ UNCHANGED <<done, on, sample, today, begun>>
        /\ drift' \in BOOLEAN
    BY <1>4 DEF Wipe, Disturb, Typed, LiveOK
  <2> QED
    BY <1>2, <2>1, <2>2, MoveType DEF Typed, LiveOK
<1>5. CASE ReadHistory(q)
  <2> DEFINE r == [req[q] EXCEPT !.stats = Aggregate, !.step = "refill"]
  <2>1. req' = [req EXCEPT ![q] = r] /\ UNCHANGED <<done, on, sample, stats, today, begun, drift>>
    BY <1>1, <1>5 DEF ReadHistory, Request
  <2>2. Aggregate \in Stats
    BY AggregateType DEF Typed, LiveOK, Dates
  <2>3. r \in Request /\ r.step = "refill"
    BY <1>1, <1>2, <2>2 DEF Request
  <2> HIDE DEF r
  <2> QED
    BY <1>1, <2>1, <2>3, ReplaceType DEF Typed, LiveOK
<1>6. CASE Refill(q)
  <2>1. /\ stats' \in Stats /\ req' = [req EXCEPT ![q] = Idle] /\ drift' \in BOOLEAN
        /\ UNCHANGED <<done, on, sample, today, begun>>
    BY <1>1, <1>6 DEF Refill, Disturb, Typed, LiveOK
  <2> QED
    BY <2>1, IdleType, ReplaceType
<1>7. CASE Expire(q) \/ GiveUp(q)
  <2>1. /\ req' = [req EXCEPT ![q] = Idle] /\ drift' \in BOOLEAN
        /\ UNCHANGED <<done, on, sample, stats, today, begun>>
    BY <1>7 DEF Expire, GiveUp, Typed, LiveOK
  <2> QED
    BY <1>1, <2>1, IdleType, ReplaceType
<1> QED
  BY <1>3, <1>4, <1>5, <1>6, <1>7 DEF Recalculation

LEMMA PurgeType ==
  ASSUME Typed, NEW S \in SUBSET Orders, Purge(S)
  PROVE  Typed'
<1>1. /\ done \in [Orders -> BOOLEAN] /\ on \in [Orders -> 0 .. LastDay]
      /\ sample \in [Orders -> Samples]
  BY DEF Typed, LiveOK
<1>2. NoSample \in Samples /\ 0 \in 0 .. LastDay
  BY DeliveryStatsAssumption DEF NoSample, Samples
<1>3. done' \in [Orders -> BOOLEAN]
  BY <1>1 DEF Purge
<1>4. on' \in [Orders -> 0 .. LastDay]
  BY <1>1, <1>2 DEF Purge
<1>5. sample' \in [Orders -> Samples]
  BY <1>1, <1>2 DEF Purge
<1>6. UNCHANGED <<stats, req, today, begun>> /\ drift' \in BOOLEAN
  BY DEF Purge, Splits, Typed, LiveOK
<1> QED
  BY <1>3, <1>4, <1>5, <1>6 DEF Typed, LiveOK

\* What the purge has taken and left changes with it, with a deletion by id and with a
\* recalculation.
LEMMA KeptStep == ASSUME Typed, KeptOK, [Next]_vars PROVE KeptOK'
<1>1. /\ orphan \in [Orders -> Samples] /\ NoSample \in Samples
      /\ kept \in [sum : Nat, count : Nat] /\ gone \subseteq Orders
  BY DeliveryStatsAssumption DEF KeptOK, PurgedOK, NoSample, Samples
<1>2. CASE UNCHANGED purged
  BY <1>2 DEF purged, KeptOK, PurgedOK
<1>3. ASSUME NEW q \in Requests, DeleteSample(q) PROVE KeptOK'
  <2>1. UNCHANGED <<gone, kept>> /\ orphan' \in [Orders -> Samples]
    BY <1>1, <1>3 DEF DeleteSample
  <2> QED
    BY <1>1, <2>1 DEF KeptOK, PurgedOK
<1>4. ASSUME NEW q \in Requests, Refill(q) PROVE KeptOK'
  <2>1. UNCHANGED <<gone, orphan>> /\ kept' = NoDays
    BY <1>4 DEF Refill
  <2> QED
    BY <1>1, <2>1 DEF KeptOK, PurgedOK, NoDays
<1>5. ASSUME NEW S \in SUBSET Orders, Purge(S) PROVE KeptOK'
  <2>1. PICK first \in S : kept' = [sum |-> kept.sum + on[first], count |-> kept.count + 1]
    BY <1>5 DEF Purge
  <2>2. on[first] \in Nat
    BY DEF Typed, LiveOK
  <2>3. kept' \in [sum : Nat, count : Nat] /\ kept'.count # 0
    BY <1>1, <2>1, <2>2
  <2>4. gone' \subseteq Orders
    BY <1>1, <1>5 DEF Purge
  <2>5. orphan' \in [Orders -> Samples]
    BY <1>1, <1>5 DEF Purge, Typed, LiveOK
  <2> QED
    BY <2>3, <2>4, <2>5 DEF KeptOK, PurgedOK
<1>6. ASSUME NEW q \in Requests, Receipt(q) PROVE UNCHANGED purged
  <2>1. ASSUME NEW o \in Orders, ReadReceipt(q, o) PROVE UNCHANGED purged
    BY <2>1 DEF ReadReceipt, Begin
  <2>2. CASE WriteReceipt(q) \/ InsertSample(q) \/ InsertFails(q)
    BY <2>2 DEF WriteReceipt, InsertSample, InsertFails
  <2>3. CASE CheckSiblings(q) \/ CheckFails(q) \/ Increment(q) \/ IncrementFails(q)
    BY <2>3 DEF CheckSiblings, CheckFails, Increment, IncrementFails
  <2> QED
    BY <1>6, <2>1, <2>2, <2>3 DEF Receipt
<1>7. ASSUME NEW q \in Requests, SoftDelete(q), ~DeleteSample(q) PROVE UNCHANGED purged
  <2>1. CASE ReadSample(q) \/ SampleFails(q) \/ FindWinner(q) \/ ReadStats(q)
    BY <2>1 DEF ReadSample, SampleFails, FindWinner, ReadStats
  <2>2. CASE FindAmongOrphans(q) \/ SiblingsFail(q) \/ WriteStats(q)
    BY <2>2 DEF FindAmongOrphans, SiblingsFail, WriteStats
  <2> QED
    BY <1>7, <2>1, <2>2 DEF SoftDelete
<1>8. ASSUME NEW q \in Requests, Reset(q) PROVE UNCHANGED purged
  <2>1. ASSUME NEW o \in Orders, Revert(q, o) PROVE UNCHANGED purged
    BY <2>1 DEF Revert, Begin
  <2>2. CASE UndoDelivery(q) \/ Restore(q)
    BY <2>2 DEF UndoDelivery, Restore
  <2> QED
    BY <1>8, <2>1, <2>2 DEF Reset
<1>9. ASSUME NEW q \in Requests, Recalculation(q) \/ Expire(q) \/ GiveUp(q), ~Refill(q)
      PROVE  UNCHANGED purged
  BY <1>9 DEF Recalculation, Recalculate, Wipe, ReadHistory, Expire, GiveUp
<1>10. Tick \/ UNCHANGED vars => UNCHANGED purged
  BY DEF Tick, vars, purged
<1> QED
  BY <1>2, <1>3, <1>4, <1>5, <1>6, <1>7, <1>8, <1>9, <1>10 DEF Next

LEMMA TypedStep == ASSUME Typed, KeptOK, [Next]_vars PROVE Typed'
<1>1. CASE Tick
  <2>1. today' \in 1 .. LastDay
    BY <1>1, DeliveryStatsAssumption DEF Tick, Typed, LiveOK
  <2> QED
    BY <1>1, <2>1 DEF Tick, Typed, LiveOK, rows
<1>2. CASE UNCHANGED vars
  BY <1>2 DEF vars, rows, Typed, LiveOK
<1> QED
  BY <1>1, <1>2, ReceiptType, SoftDeleteType, ResetType, RecalculationType, PurgeType DEF Next

LEMMA TypedHolds == Spec => [](Typed /\ KeptOK)
<1>1. Init => Typed /\ KeptOK
  <2>1. LastDay \in Nat \ {0} /\ MaxBegun \in Nat
    BY DeliveryStatsAssumption
  <2>2. NoSample \in Samples /\ NoStats \in Stats
    BY <2>1 DEF NoSample, Samples, NoStats, Stats
  <2> SUFFICES ASSUME Init PROVE Typed /\ KeptOK
    OBVIOUS
  <2>3. req \in [Requests -> Request] /\ \A q \in Requests : req[q].step = "idle"
    <3> HIDE DEF Idle, Request
    <3> QED
      BY IdleType DEF Init
  <2>4. done \in [Orders -> BOOLEAN] /\ on \in [Orders -> 0 .. LastDay]
    BY <2>1 DEF Init
  <2>5. sample \in [Orders -> Samples] /\ stats \in Stats
    BY <2>2 DEF Init
  <2>6. today \in 1 .. LastDay /\ begun \in 0 .. MaxBegun /\ drift \in BOOLEAN
    <3>1. today = 1 /\ begun = 0
      BY DEF Init
    <3>2. drift \in BOOLEAN
      BY DEF Init
    <3>3. today \in 1 .. LastDay /\ begun \in 0 .. MaxBegun
      BY <2>1, <3>1
    <3> QED
      BY <3>2, <3>3
  <2>7. KeptOK
    BY <2>2 DEF Init, KeptOK, PurgedOK, NoDays
  <2> QED
    BY <2>3, <2>4, <2>5, <2>6, <2>7 DEF Typed, LiveOK
<1> QED
  BY <1>1, TypedStep, KeptStep, PTL DEF Spec

\* Every reachable state is well typed; above all neither counter falls below zero,
\* whatever overlaps, dies or is undone.
THEOREM TypeCorrect == Spec => []TypeOK
<1>1. Typed /\ KeptOK => TypeOK
  BY DEF Typed, KeptOK, TypeOK
<1> QED
  BY <1>1, TypedHolds, PTL

-----------------------------------------------------------------------------
(* What a request knows of the day of its order, as long as nothing has    *)
(* drifted.                                                                *)

\* Complete orders are those with a date.  No row has no counters.
RowsFit ==
  /\ \A o \in Orders : (done[o] <=> on[o] > 0) /\ on[o] <= today
  /\ \A q \in Requests : (req[q].was <=> req[q].wasOn > 0) /\ req[q].wasOn <= today
  /\ ~stats.row => stats = NoStats
  /\ \A q \in Requests : ~req[q].stats.row => req[q].stats = NoStats

\* The sample of an order is the one it should have.
Fit(o) == IF done[o] THEN sample[o] # NoSample /\ sample[o].on = on[o]
          ELSE sample[o] = NoSample

Deleting == {"winner", "stats", "lower"}

\* The samples and the counters differ by what q is about to write.
Unsettled(q) == req[q].step \in {"siblings", "increment"} \cup Deleting

Refilling(q) == req[q].step \in {"history", "refill"}

KnowsRow(q) ==
  LET r == req[q]
      o == r.order
  IN /\ r.step = "read" => r.op = "receive" /\ (done[o] <=> r.was)
     /\ r.step \in {"insert", "siblings", "increment"} => done[o] /\ on[o] = today /\ ~r.was
     /\ r.step \in {"sample", "delete"} \cup Deleting =>
          IF r.op = "receive" THEN r.was /\ ~done[o] ELSE done[o]
     /\ r.step = "written" => IF r.was THEN sample[o] = NoSample ELSE done[o]

KnowsSample(q) ==
  LET r == req[q]
      o == r.order
  IN /\ r.step = "insert" => sample[o] = NoSample
     /\ r.step \in {"siblings", "increment"} => Fit(o)
     /\ r.step = "sample" /\ r.op = "receive" => sample[o].on > 0
     /\ r.step = "delete" => sample[o] = r.sample /\ (r.op = "receive" => r.sample.on > 0)
     /\ r.step \in Deleting => sample[o] = NoSample /\ r.sample.on > 0
     /\ r.step = "restore" => sample[o] = NoSample

\* The sample that q has deleted was the first of its day; its date goes, and that of
\* the next one comes or is to come.
Planned(q) ==
  LET r == req[q]
      o == r.order
  IN /\ \A p \in Others(o) : ~Before(p, r.sample, o)
     /\ \/ Others(o) = {} /\ r.todo = <<-r.sample.on>>
        \/ \E p \in Orders :
             Heir(o, p) /\ r.todo \in {<<-r.sample.on, sample[p].on>>, <<sample[p].on>>}

KnowsDay(q) ==
  LET o == req[q].order
  IN /\ Unsettled(q) => \A p \in Siblings(o) : Fit(p)
     /\ req[q].step = "increment" => \A p \in Siblings(o) : ~done[p]
     /\ req[q].step \in {"stats", "lower"} => Planned(q)

KnowsStats(q) ==
  /\ req[q].step = "lower" => req[q].stats = stats
  /\ req[q].step = "refill" => req[q].stats = Aggregate

Knows(q) == KnowsRow(q) /\ KnowsSample(q) /\ KnowsDay(q) /\ KnowsStats(q)

\* It has changed an order and not come to its sample, or the other way round.
Open(q) ==
  \/ req[q].step = "insert"
  \/ req[q].op = "receive" /\ req[q].step \in {"sample", "delete"}
  \/ req[q].op # "receive" /\ req[q].step \in Deleting \cup {"restore"}

FitOrOpen ==
  \A o \in Orders : Fit(o) \/ \E q \in Requests : req[q].order = o /\ Open(q)

\* No two requests have counters to change for one day,
OnePerDay ==
  \A p, q \in Requests :
    Unsettled(p) /\ Unsettled(q) /\ SameDay(req[p].order, req[q].order) => p = q

\* and none while they are built up from nothing.
RefilledAlone ==
  \A q \in Requests : Refilling(q) =>
    /\ stats = NoStats
    /\ \A p \in Requests : ~Unsettled(p) /\ (Refilling(p) => p = q)
    /\ \A o \in Orders : Fit(o)

Ledger == (\A q \in Requests : Knows(q)) /\ FitOrOpen /\ OnePerDay /\ RefilledAlone

\* A step of q that tells no other request anything new: it only reads, or nobody else
\* is concerned.
Apart(q) ==
  /\ \A p \in Requests \ {q} : req'[p] = req[p]
  /\ \A x \in Orders \ {req[q].order} :
       (done'[x] <=> done[x]) /\ on'[x] = on[x] /\ sample'[x] = sample[x]
  /\ today' = today
  /\ UNCHANGED <<done, on, sample, stats>> \/ ~Disturbs(q)

\* Nothing changes on a day another request works on.
LEMMA DayKept ==
  ASSUME Typed, NEW q \in Requests, NEW p \in Requests \ {q}, Apart(q),
         req[p].step # "idle", NEW x \in Orders, SameDay(req[p].order, x)
  PROVE  (done'[x] <=> done[x]) /\ on'[x] = on[x] /\ sample'[x] = sample[x] /\ (Fit(x)' <=> Fit(x))
<1>1. (done'[x] <=> done[x]) /\ on'[x] = on[x] /\ sample'[x] = sample[x]
  <2>1. CASE UNCHANGED <<done, on, sample, stats>>
    BY <2>1
  <2>2. CASE ~Disturbs(q)
    <3>1. ~SameDay(req[p].order, req[q].order)
      BY <2>2 DEF Disturbs
    <3>2. x # req[q].order
      BY <3>1
    <3> QED
      BY <3>2 DEF Apart
  <2> QED
    BY <2>1, <2>2 DEF Apart
<1> QED
  BY <1>1 DEF Fit

\* It goes on knowing what it knows if that day, and what it has read of the counters,
\* stays as it is.
LEMMA KnowsFramed ==
  ASSUME Typed, NEW p \in Requests, Knows(p), UNCHANGED today, req'[p] = req[p],
         req[p].step # "idle" =>
           \A x \in Orders : SameDay(req[p].order, x) =>
             (done'[x] <=> done[x]) /\ on'[x] = on[x] /\ sample'[x] = sample[x],
         req[p].step \in {"lower", "refill"} => UNCHANGED stats,
         req[p].step = "refill" => UNCHANGED <<done, on>>
  PROVE  Knows(p)'
<1>0. PICK o \in Orders : o = req[p].order
  BY DEF Typed, LiveOK, Request
<1>1. req'[p] = req[p] /\ req[p].order = o /\ today' = today /\ SameDay(o, o)
  BY <1>0 DEF SameDay
<1>2. CASE req[p].step = "idle"
  BY <1>1, <1>2 DEF Knows, KnowsRow, KnowsSample, KnowsDay, KnowsStats, Unsettled, Deleting
<1>3. CASE req[p].step # "idle"
  <2>0. ASSUME NEW x \in Orders, SameDay(o, x)
        PROVE  /\ (done'[x] <=> done[x]) /\ on'[x] = on[x] /\ sample'[x] = sample[x]
               /\ (Fit(x)' <=> Fit(x))
    <3>1. (done'[x] <=> done[x]) /\ on'[x] = on[x] /\ sample'[x] = sample[x]
      BY <1>1, <1>3, <2>0
    <3> QED
      BY <3>1 DEF Fit
  <2>1. /\ (done'[o] <=> done[o]) /\ on'[o] = on[o] /\ sample'[o] = sample[o]
        /\ (Fit(o)' <=> Fit(o))
    BY <1>1, <2>0
  <2>2. /\ \A x \in Siblings(o) : (done'[x] <=> done[x]) /\ sample'[x] = sample[x]
        /\ \A x \in Siblings(o) : Fit(x)' <=> Fit(x)
    BY <1>1, <2>0 DEF Siblings
  <2>3. KnowsRow(p)'
    BY <1>1, <2>1 DEF Knows, KnowsRow
  <2>4. KnowsSample(p)'
    BY <1>1, <2>1 DEF Knows, KnowsSample
  <2>5. Planned(p) => Planned(p)'
    <3>1. Others(o)' = Others(o) /\ Others(o) \subseteq Siblings(o)
      BY <2>2 DEF Others
    <3>2. ASSUME NEW x \in Others(o), NEW s, NEW y PROVE Before(x, s, y)' <=> Before(x, s, y)
      BY <2>2, <3>1 DEF Before
    <3>3. ASSUME NEW x \in Others(o), NEW y \in Others(o)
          PROVE  Before(x, sample[y], y)' <=> Before(x, sample[y], y)
      BY <2>2, <3>1 DEF Before
    <3>4. ASSUME NEW x \in Orders, Heir(o, x) PROVE Heir(o, x)' /\ sample'[x] = sample[x]
      BY <2>2, <3>1, <3>3, <3>4 DEF Heir
    <3>5. ASSUME NEW s
          PROVE  (\A x \in Others(o) : ~Before(x, s, o)) => (\A x \in Others(o) : ~Before(x, s, o))'
      BY <3>1, <3>2
    <3> QED
      BY <1>1, <3>1, <3>4, <3>5 DEF Planned
  <2>6. KnowsDay(p)'
    <3>1. Unsettled(p)' <=> Unsettled(p)
      BY <1>1 DEF Unsettled
    <3> QED
      BY <1>1, <2>2, <2>5, <3>1 DEF Knows, KnowsDay
  <2>7. KnowsStats(p)'
    <3>1. UNCHANGED <<done, on>> => Aggregate' = Aggregate
      BY DEF Aggregate, First, Total
    <3> QED
      BY <1>1, <3>1 DEF Knows, KnowsStats
  <2> QED
    BY <2>3, <2>4, <2>6, <2>7 DEF Knows
<1> QED
  BY <1>2, <1>3

LEMMA KnowsKept ==
  ASSUME Typed, NEW q \in Requests, NEW p \in Requests \ {q}, Apart(q), Knows(p)
  PROVE  Knows(p)'
<1>1. req'[p] = req[p] /\ UNCHANGED today
  BY DEF Apart
<1>2. req[p].step # "idle" =>
        \A x \in Orders : SameDay(req[p].order, x) =>
          (done'[x] <=> done[x]) /\ on'[x] = on[x] /\ sample'[x] = sample[x]
  BY DayKept
<1>3. req[p].step \in {"lower", "refill"} => UNCHANGED <<done, on, stats>>
  BY DEF Apart, Disturbs
<1> QED
  BY <1>1, <1>2, <1>3, KnowsFramed

\* Steps that only move their request on.
LEMMA Moved ==
  ASSUME Typed, NEW q \in Requests, NEW s, Goto(q, s)
  PROVE  /\ \A p \in Requests \ {q} : req'[p] = req[p]
         /\ req'[q].step = s /\ req'[q].op = req[q].op /\ req'[q].order = req[q].order
         /\ req'[q].was = req[q].was /\ req'[q].wasOn = req[q].wasOn
         /\ req'[q].sample = req[q].sample /\ req'[q].todo = req[q].todo
         /\ req'[q].stats = req[q].stats
<1>1. req \in [Requests -> Request] /\ req[q] \in Request
  BY DEF Typed, LiveOK
<1>2. req'[q] = [req[q] EXCEPT !.step = s] /\ \A p \in Requests \ {q} : req'[p] = req[p]
  BY <1>1 DEF Goto
<1> QED
  BY <1>1, <1>2 DEF Request

\* What a request remembers of its row, and the counters it holds.
Recalls(r, w, d, s) == (r.was <=> w) /\ r.wasOn = d /\ r.stats = s

LEMMA RowsFitRecalled ==
  ASSUME Typed, RowsFit,
         \A p \in Requests :
           \/ Recalls(req'[p], req[p].was, req[p].wasOn, req[p].stats)
           \/ Recalls(req'[p], req[p].was, req[p].wasOn, stats)
           \/ Recalls(req'[p], req[p].was, req[p].wasOn, Aggregate)
           \/ Recalls(req'[p], req[p].was, req[p].wasOn, NoStats)
           \/ Recalls(req'[p], FALSE, 0, NoStats)
           \/ \E o \in Orders : Recalls(req'[p], done[o], on[o], NoStats)
  PROVE  /\ \A p \in Requests : (req'[p].was <=> req'[p].wasOn > 0) /\ req'[p].wasOn <= today
         /\ \A p \in Requests : ~req'[p].stats.row => req'[p].stats = NoStats
<1>1. today \in Nat /\ today > 0
  BY DeliveryStatsAssumption DEF Typed, LiveOK
<1>2. ~Aggregate.row => Aggregate = NoStats
  BY AggregateType DEF Typed, LiveOK, Dates
<1>3. ~stats.row => stats = NoStats
  BY DEF RowsFit
<1> QED
  BY <1>1, <1>2, <1>3 DEF RowsFit, Recalls

LEMMA ReceiptRows ==
  ASSUME Typed, RowsFit, NEW q \in Requests, Receipt(q)
  PROVE  RowsFit'
<1> USE DEF rows
<1>1. /\ req \in [Requests -> Request] /\ req[q] \in Request /\ req[q].order \in Orders
      /\ req[q].was \in BOOLEAN /\ today \in Nat /\ today > 0 /\ UNCHANGED today
  <2>1. /\ req \in [Requests -> Request] /\ req[q] \in Request /\ req[q].order \in Orders
        /\ req[q].was \in BOOLEAN
    BY DEF Typed, LiveOK, Request
  <2>2. today \in Nat /\ today > 0
    BY DeliveryStatsAssumption DEF Typed, LiveOK
  <2>3. UNCHANGED today
    <3>1. ASSUME NEW o \in Orders, ReadReceipt(q, o) PROVE UNCHANGED today
      BY <3>1 DEF ReadReceipt, Begin
    <3>2. CASE WriteReceipt(q)
      BY <3>2 DEF WriteReceipt
    <3>3. CASE InsertSample(q) \/ CheckSiblings(q) \/ Increment(q)
      BY <3>3 DEF InsertSample, CheckSiblings, Increment
    <3>4. CASE InsertFails(q) \/ CheckFails(q) \/ IncrementFails(q)
      BY <3>4 DEF InsertFails, CheckFails, IncrementFails
    <3> QED
      BY <3>1, <3>2, <3>3, <3>4 DEF Receipt
  <2> QED
    BY <2>1, <2>2, <2>3
<1>2. ASSUME NEW s, Goto(q, s) PROVE \A p \in Requests : Recalls(req'[p], req[p].was, req[p].wasOn, req[p].stats)
  BY <1>2, Moved DEF Recalls
<1>3. ASSUME NEW o \in Orders, ReadReceipt(q, o) PROVE RowsFit'
  <2>1. \A p \in Requests : Recalls(req'[p], req[p].was, req[p].wasOn, req[p].stats)
                            \/ Recalls(req'[p], done[o], on[o], NoStats)
    BY <1>1, <1>3 DEF ReadReceipt, Begin, Idle, Recalls
  <2> QED
    BY <1>3, <2>1, RowsFitRecalled DEF ReadReceipt, Begin, RowsFit
<1>4. CASE WriteReceipt(q)
  <2>1. \A p \in Requests : Recalls(req'[p], req[p].was, req[p].wasOn, req[p].stats)
    BY <1>2, <1>4 DEF WriteReceipt
  <2>2. \A x \in Orders : (done'[x] <=> on'[x] > 0) /\ on'[x] <= today
    <3>1. done \in [Orders -> BOOLEAN] /\ on \in [Orders -> 0 .. LastDay]
      BY DEF Typed, LiveOK
    <3> SUFFICES ASSUME req[q].order \notin gone
                 PROVE  \A x \in Orders : (done'[x] <=> on'[x] > 0) /\ on'[x] <= today
      BY <1>4 DEF WriteReceipt, WriteRow, RowsFit
    <3>2. done' = [done EXCEPT ![req[q].order] = ~req[q].was]
      BY <1>4 DEF WriteReceipt, WriteRow
    <3>3. on' = [on EXCEPT ![req[q].order] = IF req[q].was THEN 0 ELSE today]
      BY <1>4 DEF WriteReceipt, WriteRow
    <3>4. \A x \in Orders \ {req[q].order} : (done'[x] <=> done[x]) /\ on'[x] = on[x]
      BY <3>1, <3>2, <3>3
    <3>5. /\ done'[req[q].order] <=> ~req[q].was
          /\ on'[req[q].order] = IF req[q].was THEN 0 ELSE today
      BY <1>1, <3>1, <3>2, <3>3
    <3> QED
      BY <1>1, <3>4, <3>5 DEF RowsFit
  <2> QED
    BY <1>1, <1>4, <2>1, <2>2, RowsFitRecalled DEF WriteReceipt, RowsFit
<1>5. CASE InsertSample(q) \/ CheckSiblings(q)
  <2>1. \A p \in Requests : Recalls(req'[p], req[p].was, req[p].wasOn, req[p].stats)
    BY <1>2, <1>5 DEF InsertSample, CheckSiblings
  <2> QED
    BY <1>1, <1>5, <2>1, RowsFitRecalled DEF InsertSample, CheckSiblings, RowsFit
<1>6. CASE Increment(q)
  <2>1. \A p \in Requests : Recalls(req'[p], req[p].was, req[p].wasOn, req[p].stats)
    BY <1>2, <1>6 DEF Increment
  <2> QED
    BY <1>1, <1>6, <2>1, RowsFitRecalled DEF Increment, Added, RowsFit
<1>7. CASE InsertFails(q) \/ CheckFails(q) \/ IncrementFails(q)
  <2>1. \A p \in Requests : Recalls(req'[p], req[p].was, req[p].wasOn, req[p].stats)
    <3>1. CASE InsertFails(q) \/ CheckFails(q)
      BY <1>2, <3>1 DEF InsertFails, CheckFails
    <3>2. CASE IncrementFails(q)
      BY <1>1, <3>2 DEF IncrementFails, Request, Recalls
    <3> QED
      BY <1>7, <3>1, <3>2
  <2>2. UNCHANGED <<done, on, stats>>
    BY <1>7 DEF InsertFails, CheckFails, IncrementFails
  <2> QED
    BY <1>1, <2>1, <2>2, RowsFitRecalled DEF RowsFit
<1> QED
  BY <1>3, <1>4, <1>5, <1>6, <1>7 DEF Receipt

LEMMA SoftDeleteRows ==
  ASSUME Typed, RowsFit, NEW q \in Requests, SoftDelete(q)
  PROVE  RowsFit'
<1> USE DEF rows
<1>1. /\ req \in [Requests -> Request] /\ req[q] \in Request
      /\ UNCHANGED <<done, on, today>>
  <2>1. CASE ReadSample(q) \/ SampleFails(q) \/ DeleteSample(q) \/ FindWinner(q)
    BY <2>1 DEF Typed, LiveOK, ReadSample, SampleFails, DeleteSample, FindWinner
  <2>2. CASE FindAmongOrphans(q) \/ SiblingsFail(q) \/ ReadStats(q) \/ WriteStats(q)
    BY <2>2 DEF Typed, LiveOK, FindAmongOrphans, SiblingsFail, ReadStats, WriteStats
  <2> QED
    BY <2>1, <2>2 DEF SoftDelete
<1>2. \A p \in Requests : \/ Recalls(req'[p], req[p].was, req[p].wasOn, req[p].stats)
                          \/ Recalls(req'[p], req[p].was, req[p].wasOn, stats)
                          \/ Recalls(req'[p], req[p].was, req[p].wasOn, NoStats)
  <2>1. CASE ReadSample(q)
    <3> DEFINE s == sample[req[q].order]
               step == IF s = NoSample THEN After(q) ELSE "delete"
    <3>1. req' = [req EXCEPT ![q].sample = s, ![q].step = step]
      BY <2>1 DEF ReadSample
    <3> HIDE DEF s, step
    <3> QED
      BY <1>1, <3>1 DEF Request, Recalls
  <2>5. CASE ReadStats(q)
    BY <1>1, <2>5 DEF ReadStats, Request, Recalls
  <2>3. CASE FindWinner(q)
    BY <1>1, <2>3 DEF FindWinner, Request, Recalls
  <2>4. CASE WriteStats(q)
    BY <1>1, <2>4 DEF WriteStats, Request, Recalls
  <2>2. CASE SampleFails(q) \/ DeleteSample(q)
    BY <2>2, Moved DEF SampleFails, DeleteSample, Recalls
  <2>6. CASE SiblingsFail(q)
    BY <1>1, <2>6 DEF SiblingsFail, Request, Recalls
  <2>7. CASE FindAmongOrphans(q)
    <3>1. PICK step, todo : req' = [req EXCEPT ![q].step = step, ![q].todo = todo]
      BY <2>7 DEF FindAmongOrphans
    <3> QED
      BY <1>1, <3>1 DEF Request, Recalls
  <2> QED
    BY <2>1, <2>2, <2>3, <2>4, <2>5, <2>6, <2>7 DEF SoftDelete
<1>3. stats' = stats \/ stats'.row
  <2>1. CASE WriteStats(q)
    <3>1. \/ stats' = stats
          \/ stats' = Lowered(req[q].stats, Head(req[q].todo))
          \/ stats' = Added(req[q].stats, Head(req[q].todo))
          \/ stats' = Added(NoStats, Head(req[q].todo))
      BY <2>1 DEF WriteStats
    <3> QED
      BY <3>1 DEF Lowered, Added
  <2>2. CASE ~WriteStats(q)
    BY <2>2 DEF SoftDelete, ReadSample, SampleFails, DeleteSample, FindWinner, FindAmongOrphans,
         SiblingsFail, ReadStats
  <2> QED
    BY <2>1, <2>2
<1> QED
  BY <1>1, <1>2, <1>3, RowsFitRecalled DEF RowsFit

LEMMA ResetRows ==
  ASSUME Typed, RowsFit, NEW q \in Requests, Reset(q)
  PROVE  RowsFit'
<1> USE DEF rows
<1>1. /\ req \in [Requests -> Request] /\ req[q] \in Request /\ req[q].order \in Orders
      /\ req[q].was \in BOOLEAN /\ today \in Nat /\ UNCHANGED <<today, stats>>
  <2>1. /\ req \in [Requests -> Request] /\ req[q] \in Request /\ req[q].order \in Orders
        /\ req[q].was \in BOOLEAN
    BY DEF Typed, LiveOK, Request
  <2>2. today \in Nat
    BY DeliveryStatsAssumption DEF Typed, LiveOK
  <2>3. UNCHANGED <<today, stats>>
    <3>1. ASSUME NEW o \in Orders, Revert(q, o) PROVE UNCHANGED <<today, stats>>
      BY <3>1 DEF Revert, Begin
    <3>2. CASE UndoDelivery(q)
      BY <3>2 DEF UndoDelivery
    <3>3. CASE Restore(q)
      BY <3>3 DEF Restore
    <3> QED
      BY <3>1, <3>2, <3>3 DEF Reset
  <2> QED
    BY <2>1, <2>2, <2>3
<1>2. CASE UndoDelivery(q)
  <2>1. \A p \in Requests : Recalls(req'[p], req[p].was, req[p].wasOn, req[p].stats)
    BY <1>1, <1>2 DEF UndoDelivery, Request, Recalls
  <2> QED
    BY <1>1, <1>2, <2>1, RowsFitRecalled DEF UndoDelivery, RowsFit
<1>3. ASSUME NEW o \in Orders, Revert(q, o) PROVE RowsFit'
  <2>1. \A p \in Requests : Recalls(req'[p], req[p].was, req[p].wasOn, req[p].stats)
                            \/ Recalls(req'[p], done[o], on[o], NoStats)
    BY <1>1, <1>3 DEF Revert, Begin, Idle, Recalls
  <2> QED
    BY <1>3, <2>1, RowsFitRecalled DEF Revert, Begin, RowsFit
<1>4. CASE Restore(q)
  <2>1. \A p \in Requests : Recalls(req'[p], req[p].was, req[p].wasOn, req[p].stats)
    BY <1>4, Moved DEF Restore, Recalls
  <2>2. \A x \in Orders : (done'[x] <=> on'[x] > 0) /\ on'[x] <= today
    <3>1. done \in [Orders -> BOOLEAN] /\ on \in [Orders -> 0 .. LastDay]
      BY DEF Typed, LiveOK
    <3>2. (req[q].was <=> req[q].wasOn > 0) /\ req[q].wasOn <= today
      BY DEF RowsFit
    <3> DEFINE back == req[q].op = "undo" /\ req[q].was
    <3>0. WriteRow(req[q].order, back, IF back THEN req[q].wasOn ELSE 0)
      BY <1>4 DEF Restore
    <3> SUFFICES ASSUME req[q].order \notin gone
                 PROVE  \A x \in Orders : (done'[x] <=> on'[x] > 0) /\ on'[x] <= today
      BY <1>1, <3>0 DEF WriteRow, RowsFit
    <3>3. done' = [done EXCEPT ![req[q].order] = back]
      BY <3>0 DEF WriteRow
    <3>4. on' = [on EXCEPT ![req[q].order] = IF back THEN req[q].wasOn ELSE 0]
      BY <3>0 DEF WriteRow
    <3>5. \A x \in Orders \ {req[q].order} : (done'[x] <=> done[x]) /\ on'[x] = on[x]
      BY <3>1, <3>3, <3>4
    <3>6. /\ done'[req[q].order] <=> back
          /\ on'[req[q].order] = IF back THEN req[q].wasOn ELSE 0
      BY <1>1, <3>1, <3>3, <3>4
    <3> QED
      BY <1>1, <3>2, <3>5, <3>6 DEF RowsFit
  <2> QED
    BY <1>1, <1>4, <2>1, <2>2, RowsFitRecalled DEF Restore, RowsFit
<1> QED
  BY <1>2, <1>3, <1>4 DEF Reset

LEMMA RecalculationRows ==
  ASSUME Typed, RowsFit, NEW q \in Requests, Recalculation(q) \/ Expire(q) \/ GiveUp(q)
  PROVE  RowsFit'
<1> USE DEF rows
<1>1. req \in [Requests -> Request] /\ req[q] \in Request /\ UNCHANGED <<done, on, today>>
  BY DEF Typed, LiveOK, Recalculation, Recalculate, Wipe, ReadHistory, Refill, Expire, GiveUp
<1>2. \A p \in Requests : \/ Recalls(req'[p], req[p].was, req[p].wasOn, req[p].stats)
                          \/ Recalls(req'[p], req[p].was, req[p].wasOn, Aggregate)
                          \/ Recalls(req'[p], FALSE, 0, NoStats)
  <2>1. CASE Wipe(q)
    BY <2>1, Moved DEF Wipe, Recalls
  <2>2. CASE ReadHistory(q)
    BY <1>1, <2>2 DEF ReadHistory, Request, Recalls
  <2>3. CASE Recalculate(q)
    BY <1>1, <2>3 DEF Recalculate, Idle, Recalls
  <2>4. CASE Refill(q) \/ Expire(q) \/ GiveUp(q)
    <3>1. req' = [req EXCEPT ![q] = Idle]
      BY <2>4 DEF Refill, Expire, GiveUp
    <3> QED
      BY <1>1, <3>1 DEF Idle, Recalls
  <2> QED
    BY <2>1, <2>2, <2>3, <2>4 DEF Recalculation
<1>3. stats' = stats \/ stats' = NoStats \/ stats' = req[q].stats
  BY DEF Recalculation, Recalculate, Wipe, ReadHistory, Refill, Expire, GiveUp
<1> QED
  BY <1>1, <1>2, <1>3, RowsFitRecalled DEF RowsFit

LEMMA PurgeRows ==
  ASSUME Typed, RowsFit, NEW S \in SUBSET Orders, Purge(S)
  PROVE  RowsFit'
<1>1. \A o \in Orders : /\ done'[o] <=> done[o] /\ o \notin S
                        /\ on'[o] = IF o \in S THEN 0 ELSE on[o]
  BY DEF Purge
<1>2. UNCHANGED <<stats, req, today>> /\ today \in Nat
  BY DeliveryStatsAssumption DEF Purge, Typed, LiveOK
<1>3. \A o \in Orders : (done'[o] <=> on'[o] > 0) /\ on'[o] <= today
  BY <1>1, <1>2 DEF RowsFit
<1> QED
  BY <1>2, <1>3 DEF RowsFit

LEMMA RowsStep == ASSUME Typed, RowsFit, [Next]_vars PROVE RowsFit'
<1>1. CASE Tick
  <2>1. today' = today + 1 /\ today \in Nat /\ UNCHANGED <<done, on, stats, req>>
    BY <1>1, DeliveryStatsAssumption DEF Tick, Typed, LiveOK, rows
  <2>2. /\ \A o \in Orders : on[o] \in Nat
        /\ \A q \in Requests : req[q].wasOn \in Nat
    BY DeliveryStatsAssumption DEF Typed, LiveOK, Request
  <2> QED
    BY <2>1, <2>2 DEF RowsFit
<1>2. CASE UNCHANGED vars
  BY <1>2 DEF vars, rows, RowsFit
<1> QED
  BY <1>1, <1>2, ReceiptRows, SoftDeleteRows, ResetRows, RecalculationRows,
     PurgeRows DEF Next

LEMMA RowsFitHolds == Spec => []RowsFit
<1>1. Init => RowsFit
  <2> SUFFICES ASSUME Init PROVE RowsFit
    OBVIOUS
  <2>1. \A o \in Orders : ~done[o] /\ on[o] = 0
    BY DEF Init
  <2>2. \A q \in Requests : ~req[q].was /\ req[q].wasOn = 0 /\ req[q].stats = NoStats
    BY DEF Init, Idle
  <2>3. stats = NoStats /\ today = 1
    BY DEF Init
  <2> QED
    BY <2>1, <2>2, <2>3 DEF RowsFit
<1> QED
  BY <1>1, RowsStep, TypedHolds, PTL DEF Spec

-----------------------------------------------------------------------------
(* As long as nothing has drifted, every step keeps the ledger.            *)

LEMMA LedgerKept ==
  ASSUME Typed, Ledger, NEW q \in Requests, Apart(q), Knows(q)',
         \A x \in Orders : \/ Fit(x)'
                           \/ Open(q)' /\ req'[q].order = x
                           \/ (Fit(x)' <=> Fit(x)) /\ ~(Open(q) /\ req[q].order = x),
         Unsettled(q)' => /\ req'[q].order = req[q].order
                          /\ Unsettled(q) \/ ~Disturbs(q),
         Refilling(q)' => /\ Refilling(q) \/ (At(q, "wipe") /\ ~Disturbs(q))
                          /\ stats' = NoStats /\ \A x \in Orders : Fit(x)'
  PROVE  Ledger'
<1>1. \A p \in Requests \ {q} :
        /\ req'[p] = req[p] /\ (Open(p)' <=> Open(p)) /\ (Unsettled(p)' <=> Unsettled(p))
        /\ (Refilling(p)' <=> Refilling(p))
  BY DEF Apart, Open, Unsettled, Refilling
<1>2. \A p \in Requests : Knows(p)'
  BY KnowsKept DEF Ledger
<1>3. FitOrOpen'
  BY <1>1 DEF Ledger, FitOrOpen
<1>4. OnePerDay'
  <2> SUFFICES ASSUME NEW p1 \in Requests, NEW p2 \in Requests, p1 # p2,
                      Unsettled(p1)', Unsettled(p2)',
                      SameDay(req'[p1].order, req'[p2].order)
               PROVE  FALSE
    BY DEF OnePerDay, SameDay
  <2>1. CASE p1 # q /\ p2 # q
    BY <1>1, <2>1 DEF Ledger, OnePerDay
  <2>2. ASSUME NEW p \in Requests \ {q}, Unsettled(p)', Unsettled(q)',
               SameDay(req'[p].order, req'[q].order) \/ SameDay(req'[q].order, req'[p].order)
        PROVE  FALSE
    <3>1. SameDay(req[p].order, req[q].order) /\ Unsettled(p)
      BY <1>1, <2>2, OneDay DEF Typed, LiveOK, Request
    <3>2. Unsettled(q) => FALSE
      BY <3>1 DEF Ledger, OnePerDay
    <3>3. Disturbs(q)
      BY <3>1 DEF Disturbs, Unsettled, Deleting
    <3> QED
      BY <2>2, <3>2, <3>3
  <2> QED
    BY <2>1, <2>2
<1>5. RefilledAlone'
  <2>1. ASSUME NEW p \in Requests \ {q}, Refilling(p)'
        PROVE  /\ stats' = NoStats /\ \A x \in Orders : Fit(x)'
               /\ \A p2 \in Requests : ~Unsettled(p2)' /\ (Refilling(p2)' => p2 = p)
    <3>1. Refilling(p) /\ Disturbs(q)
      BY <1>1, <2>1 DEF Disturbs, Refilling
    <3>2. UNCHANGED <<done, on, sample, stats>>
      BY <3>1 DEF Apart
    <3>3. \A x \in Orders : Fit(x)' <=> Fit(x)
      BY <3>2 DEF Fit
    <3>4. ~Unsettled(q) /\ ~Refilling(q)
      BY <3>1 DEF Ledger, RefilledAlone
    <3> QED
      BY <1>1, <3>1, <3>2, <3>3, <3>4 DEF Ledger, RefilledAlone
  <2>2. ASSUME Refilling(q)'
        PROVE  /\ stats' = NoStats /\ \A x \in Orders : Fit(x)'
               /\ \A p2 \in Requests : ~Unsettled(p2)' /\ (Refilling(p2)' => p2 = q)
    <3>1. ~Unsettled(q)'
      BY <2>2 DEF Refilling, Unsettled, Deleting
    <3>2. ASSUME NEW p \in Requests \ {q} PROVE ~Unsettled(p) /\ ~Refilling(p)
      <4>1. CASE Refilling(q)
        BY <4>1 DEF Ledger, RefilledAlone
      <4>2. CASE At(q, "wipe") /\ ~Disturbs(q)
        BY <4>2 DEF Disturbs, At, Working, Unsettled, Deleting, Refilling
      <4> QED
        BY <2>2, <4>1, <4>2
    <3> QED
      BY <1>1, <2>2, <3>1, <3>2
  <2> QED
    BY <2>1, <2>2 DEF RefilledAlone
<1> QED
  BY <1>2, <1>3, <1>4, <1>5 DEF Ledger

\* Steps of q that change nothing but q.
Reads(q) ==
  /\ UNCHANGED <<done, on, sample, stats, today>>
  /\ \A p \in Requests \ {q} : req'[p] = req[p]

LEMMA ReadKept ==
  ASSUME Typed, Ledger, NEW q \in Requests, Reads(q), Knows(q)',
         Open(q) => Open(q)', Open(q) \/ Unsettled(q)' => req'[q].order = req[q].order,
         Unsettled(q)' => Unsettled(q), Refilling(q)' => Refilling(q)
  PROVE  Ledger'
<1>1. Apart(q)
  BY DEF Apart, Reads
<1>2. \A x \in Orders : Fit(x)' <=> Fit(x)
  BY DEF Reads, Fit
<1>3. Refilling(q) => stats' = NoStats /\ \A x \in Orders : Fit(x)'
  BY <1>2 DEF Ledger, RefilledAlone, Reads
<1> QED
  BY <1>1, <1>2, <1>3, LedgerKept

\* Nobody else is about to change what q finds on the day of its order.
LEMMA DayFits ==
  ASSUME Typed, Ledger, NEW q \in Requests, ~Disturbs(q), NEW x \in Orders,
         SameDay(req[q].order, x), ~(Open(q) /\ req[q].order = x)
  PROVE  Fit(x)
<1>1. SUFFICES ASSUME NEW p \in Requests \ {q}, req[p].order = x, Open(p) PROVE FALSE
  BY DEF Ledger, FitOrOpen
<1>2. req[p].step # "idle"
  BY <1>1 DEF Open, Deleting
<1>3. SameDay(req[p].order, req[q].order)
  BY <1>1, OneDay DEF Typed, LiveOK, Request
<1> QED
  BY <1>2, <1>3 DEF Disturbs

LEMMA WriteReceiptLedger ==
  ASSUME Typed, RowsFit, Ledger, NEW q \in Requests, WriteReceipt(q), ~drift'
  PROVE  Ledger'
<1>0. PICK o \in Orders : o = req[q].order
  BY DEF Typed, LiveOK, Request
<1>a. o \notin gone
  BY <1>0 DEF WriteReceipt, Disturb, Disturbs, At
<1>1. /\ At(q, "read") /\ ~Disturbs(q) /\ UNCHANGED <<sample, stats, today>>
      /\ done' = [done EXCEPT ![o] = ~req[q].was]
      /\ on' = [on EXCEPT ![o] = IF req[q].was THEN 0 ELSE today]
      /\ Goto(q, IF req[q].was THEN "sample" ELSE "insert")
  BY <1>0, <1>a DEF WriteReceipt, WriteRow, Disturb
<1>2. /\ \A p \in Requests \ {q} : req'[p] = req[p]
      /\ req'[q].op = req[q].op /\ req'[q].order = o /\ req'[q].was = req[q].was
      /\ req'[q].step = IF req[q].was THEN "sample" ELSE "insert"
  BY <1>0, <1>1, Moved
<1>3. /\ done'[o] <=> ~req[q].was
      /\ on'[o] = IF req[q].was THEN 0 ELSE today
      /\ \A x \in Orders \ {o} : (done'[x] <=> done[x]) /\ on'[x] = on[x]
  <2>1. done \in [Orders -> BOOLEAN] /\ on \in [Orders -> 0 .. LastDay]
        /\ req[q].was \in BOOLEAN
    BY DEF Typed, LiveOK, Request
  <2>2. \A x \in Orders \ {o} : (done'[x] <=> done[x]) /\ on'[x] = on[x]
    BY <1>1, <2>1
  <2>3. done'[o] <=> ~req[q].was
    BY <1>1, <2>1
  <2>4. on'[o] = IF req[q].was THEN 0 ELSE today
    BY <1>1, <2>1
  <2> QED
    BY <2>2, <2>3, <2>4
<1>4. req[q].op = "receive" /\ (done[o] <=> req[q].was) /\ ~Open(q)
  BY <1>0, <1>1 DEF Ledger, Knows, KnowsRow, At, Open, Deleting
<1>5. Fit(o) /\ (done[o] => on[o] > 0)
  BY <1>0, <1>1, <1>4, DayFits DEF SameDay, RowsFit
<1>6. Open(q)' /\ ~Unsettled(q)' /\ ~Refilling(q)'
  BY <1>2, <1>4 DEF Open, Unsettled, Refilling, Deleting
<1>7. Knows(q)'
  <2>1. KnowsRow(q)'
    <3>1. CASE req[q].was
      BY <1>2, <1>3, <1>4, <3>1 DEF KnowsRow, Deleting
    <3>2. CASE ~req[q].was
      BY <1>1, <1>2, <1>3, <3>2 DEF KnowsRow, Deleting
    <3> QED
      BY <3>1, <3>2
  <2>2. KnowsSample(q)'
    BY <1>2, <1>4, <1>5, <1>1 DEF KnowsSample, Deleting, Fit
  <2>3. KnowsDay(q)' /\ KnowsStats(q)'
    BY <1>2, <1>6 DEF KnowsDay, KnowsStats
  <2> QED
    BY <2>1, <2>2, <2>3 DEF Knows
<1>8. \A x \in Orders \ {o} : Fit(x)' <=> Fit(x)
  BY <1>1, <1>3 DEF Fit
<1>9. Apart(q)
  BY <1>0, <1>1, <1>2, <1>3 DEF Apart
<1> QED
  BY <1>0, <1>2, <1>4, <1>6, <1>7, <1>8, <1>9, LedgerKept

LEMMA InsertSampleLedger ==
  ASSUME Typed, RowsFit, Ledger, NEW q \in Requests, InsertSample(q), ~drift'
  PROVE  Ledger'
<1>0. PICK o \in Orders : o = req[q].order
  BY DEF Typed, LiveOK, Request
<1>1. /\ At(q, "insert") /\ ~Disturbs(q) /\ UNCHANGED <<done, on, stats, today>>
      /\ done[o] /\ on[o] = today /\ ~req[q].was /\ sample[o] = NoSample
  BY <1>0 DEF InsertSample, Disturb, rows, Ledger, Knows, KnowsRow, KnowsSample, At
<1>2. Goto(q, "siblings") /\ sample' = [sample EXCEPT ![o] = [id |-> req[q].number, on |-> on[o]]]
  BY <1>0, <1>1 DEF InsertSample
<1>3. /\ \A p \in Requests \ {q} : req'[p] = req[p]
      /\ req'[q].order = o /\ req'[q].was = req[q].was /\ req'[q].step = "siblings"
  BY <1>0, <1>2, Moved
<1>4. /\ sample'[o].on = today /\ sample'[o] # NoSample
      /\ \A x \in Orders \ {o} : sample'[x] = sample[x]
  <2>1. sample \in [Orders -> Samples] /\ today \in Nat /\ today > 0
    BY DeliveryStatsAssumption DEF Typed, LiveOK
  <2> QED
    BY <1>1, <1>2, <2>1 DEF NoSample
<1>5. Fit(o)' /\ \A x \in Orders \ {o} : Fit(x)' <=> Fit(x)
  BY <1>1, <1>4 DEF Fit
<1>6. \A x \in Siblings(o) : Fit(x)'
  BY <1>0, <1>1, <1>5, DayFits, OneDay DEF Siblings
<1>7. Knows(q)'
  <2>1. KnowsRow(q)'
    BY <1>1, <1>3 DEF KnowsRow, Deleting
  <2>2. KnowsSample(q)'
    BY <1>3, <1>5 DEF KnowsSample, Deleting
  <2>3. KnowsDay(q)' /\ KnowsStats(q)'
    BY <1>3, <1>6 DEF KnowsDay, KnowsStats
  <2> QED
    BY <2>1, <2>2, <2>3 DEF Knows
<1>8. Apart(q) /\ ~Refilling(q)'
  BY <1>0, <1>1, <1>3, <1>4 DEF Apart, Refilling
<1> QED
  BY <1>0, <1>1, <1>3, <1>5, <1>7, <1>8, LedgerKept

LEMMA CheckSiblingsLedger ==
  ASSUME Typed, Ledger, NEW q \in Requests, CheckSiblings(q)
  PROVE  Ledger'
<1>0. PICK o \in Orders : o = req[q].order
  BY DEF Typed, LiveOK, Request
<1>1. /\ At(q, "siblings") /\ UNCHANGED <<done, on, sample, stats, today>>
      /\ Goto(q, IF Counted(o) THEN "written" ELSE "increment")
      /\ done[o] /\ on[o] = today /\ ~req[q].was /\ Fit(o)
      /\ Unsettled(q) /\ \A x \in Siblings(o) : Fit(x)
  BY <1>0 DEF CheckSiblings, rows, Ledger, Knows, KnowsRow, KnowsSample, KnowsDay, At, Unsettled
<1>2. /\ \A p \in Requests \ {q} : req'[p] = req[p]
      /\ req'[q].order = o /\ req'[q].was = req[q].was
      /\ req'[q].step = IF Counted(o) THEN "written" ELSE "increment"
  BY <1>0, <1>1, Moved
<1>3. \A x \in Orders : Fit(x)' <=> Fit(x)
  BY <1>1 DEF Fit
<1>4. Knows(q)'
  <2>1. KnowsRow(q)'
    BY <1>1, <1>2 DEF KnowsRow, Deleting
  <2>2. KnowsSample(q)'
    BY <1>1, <1>2, <1>3 DEF KnowsSample, Deleting
  <2>3. KnowsDay(q)'
    BY <1>1, <1>2, <1>3 DEF KnowsDay, Counted, Siblings
  <2>4. KnowsStats(q)'
    BY <1>2 DEF KnowsStats
  <2> QED
    BY <2>1, <2>2, <2>3, <2>4 DEF Knows
<1>5. Reads(q) /\ ~Open(q) /\ ~Refilling(q)'
  BY <1>1, <1>2 DEF Reads, Open, Refilling, At, Deleting
<1> QED
  BY <1>0, <1>1, <1>2, <1>4, <1>5, ReadKept

LEMMA IncrementLedger ==
  ASSUME Typed, Ledger, NEW q \in Requests, Increment(q), ~drift'
  PROVE  Ledger'
<1>0. PICK o \in Orders : o = req[q].order
  BY DEF Typed, LiveOK, Request
<1>1. /\ At(q, "increment") /\ ~Disturbs(q) /\ UNCHANGED <<done, on, sample, today>>
      /\ Goto(q, "written") /\ done[o] /\ ~req[q].was
  BY <1>0 DEF Increment, Disturb, rows, Ledger, Knows, KnowsRow, At
<1>2. /\ \A p \in Requests \ {q} : req'[p] = req[p]
      /\ req'[q].order = o /\ req'[q].was = req[q].was /\ req'[q].step = "written"
  BY <1>0, <1>1, Moved
<1>3. Knows(q)'
  <2>1. KnowsRow(q)'
    BY <1>1, <1>2 DEF KnowsRow, Deleting
  <2> QED
    BY <1>2, <2>1 DEF Knows, KnowsSample, KnowsDay, KnowsStats, Unsettled, Deleting
<1>4. /\ Apart(q) /\ ~Refilling(q)' /\ ~Unsettled(q)' /\ ~Open(q)
      /\ \A x \in Orders : Fit(x)' <=> Fit(x)
  BY <1>1, <1>2 DEF Apart, Refilling, Unsettled, Open, Deleting, At, Fit
<1> QED
  BY <1>3, <1>4, LedgerKept

LEMMA ReadSampleLedger ==
  ASSUME Typed, Ledger, NEW q \in Requests, ReadSample(q)
  PROVE  Ledger'
<1>0. PICK o \in Orders : o = req[q].order
  BY DEF Typed, LiveOK, Request
<1> DEFINE step == IF sample[o] = NoSample THEN After(q) ELSE "delete"
<1>1. /\ At(q, "sample") /\ UNCHANGED <<done, on, sample, stats, today>>
      /\ req' = [req EXCEPT ![q].sample = sample[o], ![q].step = step]
      /\ IF req[q].op = "receive" THEN req[q].was /\ ~done[o] ELSE done[o]
      /\ req[q].op = "receive" => sample[o].on > 0
  BY <1>0 DEF ReadSample, rows, Ledger, Knows, KnowsRow, KnowsSample, At
<1>2. step = (IF req[q].op = "receive" \/ sample[o] # NoSample THEN "delete" ELSE "restore")
  <2>1. req[q].op = "receive" => sample[o] # NoSample
    BY <1>1 DEF NoSample
  <2> QED
    BY <2>1 DEF After
<1> HIDE DEF step
<1>3. /\ \A p \in Requests \ {q} : req'[p] = req[p]
      /\ req'[q].op = req[q].op /\ req'[q].order = o /\ req'[q].was = req[q].was
      /\ req'[q].sample = sample[o] /\ req'[q].step = step
  BY <1>0, <1>1 DEF Typed, LiveOK, Request
<1>4. Knows(q)'
  <2>1. KnowsRow(q)'
    BY <1>1, <1>2, <1>3 DEF KnowsRow, Deleting
  <2>2. KnowsSample(q)'
    BY <1>1, <1>2, <1>3 DEF KnowsSample, Deleting
  <2> QED
    BY <1>2, <1>3, <2>1, <2>2 DEF Knows, KnowsDay, KnowsStats, Unsettled, Deleting
<1>5. Reads(q)
  BY <1>1, <1>3 DEF Reads
<1>6. Open(q) => Open(q)'
  BY <1>1, <1>2, <1>3 DEF Open, At, Deleting
<1>7. ~Refilling(q)' /\ ~Unsettled(q)'
  BY <1>2, <1>3 DEF Refilling, Deleting, Unsettled
<1> QED
  BY <1>0, <1>3, <1>4, <1>5, <1>6, <1>7, ReadKept

LEMMA DeleteSampleLedger ==
  ASSUME Typed, RowsFit, Ledger, NEW q \in Requests, DeleteSample(q), ~drift'
  PROVE  Ledger'
<1>0. PICK o \in Orders : o = req[q].order
  BY DEF Typed, LiveOK, Request
<1>1. /\ At(q, "delete") /\ ~Disturbs(q) /\ UNCHANGED <<done, on, stats, today>>
      /\ Goto(q, "winner") /\ sample[o] = req[q].sample
      /\ IF req[q].op = "receive" THEN req[q].was /\ ~done[o] ELSE done[o]
      /\ req[q].op = "receive" => req[q].sample.on > 0
  BY <1>0 DEF DeleteSample, Disturb, rows, Ledger, Knows, KnowsRow, KnowsSample, At
<1>2. sample' = [sample EXCEPT ![o] = NoSample]
  BY <1>0, <1>1 DEF DeleteSample
<1>3. /\ \A p \in Requests \ {q} : req'[p] = req[p]
      /\ req'[q].op = req[q].op /\ req'[q].order = o /\ req'[q].was = req[q].was
      /\ req'[q].sample = req[q].sample /\ req'[q].step = "winner"
  BY <1>0, <1>1, Moved
<1>4. sample'[o] = NoSample /\ \A x \in Orders \ {o} : sample'[x] = sample[x]
  BY <1>2 DEF Typed, LiveOK
<1>5. req[q].sample.on > 0
  <2>1. req[q].op # "receive" => Fit(o) /\ done[o] /\ on[o] > 0
    BY <1>0, <1>1, DayFits DEF Open, At, SameDay, Deleting, RowsFit
  <2> QED
    BY <1>1, <2>1 DEF Fit
<1>6. \A x \in Orders \ {o} : Fit(x)' <=> Fit(x)
  BY <1>1, <1>4 DEF Fit
<1>7. \A x \in Siblings(o) : Fit(x)'
  BY <1>0, <1>1, <1>6, DayFits, OneDay DEF Siblings
<1>8. Fit(o)' \/ Open(q)'
  BY <1>1, <1>3, <1>4 DEF Fit, Open, Deleting
<1>9. Knows(q)'
  <2>1. KnowsRow(q)'
    BY <1>1, <1>3 DEF KnowsRow, Deleting
  <2>2. KnowsSample(q)'
    BY <1>3, <1>4, <1>5 DEF KnowsSample, Deleting
  <2> QED
    BY <1>3, <1>7, <2>1, <2>2 DEF Knows, KnowsDay, KnowsStats
<1>10. Apart(q) /\ ~Refilling(q)'
  BY <1>0, <1>1, <1>3, <1>4 DEF Apart, Refilling
<1> QED
  BY <1>0, <1>1, <1>3, <1>6, <1>8, <1>9, <1>10, LedgerKept

LEMMA FindWinnerLedger ==
  ASSUME Typed, Ledger, NEW q \in Requests, FindWinner(q)
  PROVE  Ledger'
<1>0. PICK o \in Orders : o = req[q].order
  BY DEF Typed, LiveOK, Request
<1> DEFINE s == req[q].sample
           won == \A p \in Others(o) : ~Before(p, s, o)
           todo == IF won THEN Replace(s, o) ELSE <<>>
           step == IF won THEN "stats" ELSE After(q)
<1>1. /\ At(q, "winner") /\ UNCHANGED <<done, on, sample, stats, today>>
      /\ req' = [req EXCEPT ![q].step = step, ![q].todo = todo]
      /\ IF req[q].op = "receive" THEN req[q].was /\ ~done[o] ELSE done[o]
      /\ sample[o] = NoSample /\ s.on > 0
      /\ Unsettled(q) /\ \A x \in Siblings(o) : Fit(x)
  BY <1>0 DEF FindWinner, rows, Ledger, Knows, KnowsRow, KnowsSample, KnowsDay, At, Deleting, Unsettled
<1>2. won => \/ Others(o) = {} /\ todo = <<-s.on>>
             \/ \E p \in Orders : Heir(o, p) /\ todo = <<-s.on, sample[p].on>>
  BY Replaced DEF Typed, LiveOK
<1>3. step = (IF won THEN "stats" ELSE IF req[q].op = "receive" THEN "written" ELSE "restore")
  BY DEF After
<1> HIDE DEF step, todo, won
<1>4. /\ \A p \in Requests \ {q} : req'[p] = req[p]
      /\ req'[q].op = req[q].op /\ req'[q].order = o /\ req'[q].was = req[q].was
      /\ req'[q].sample = s /\ req'[q].step = step /\ req'[q].todo = todo
  BY <1>0, <1>1 DEF Typed, LiveOK, Request
<1>5. \A x \in Orders : Fit(x)' <=> Fit(x)
  BY <1>1 DEF Fit
<1>6. Knows(q)'
  <2>1. KnowsRow(q)'
    BY <1>1, <1>3, <1>4 DEF KnowsRow, Deleting
  <2>2. KnowsSample(q)'
    BY <1>1, <1>3, <1>4 DEF KnowsSample, Deleting
  <2>3. won => Planned(q)'
    <3>1. Others(o)' = Others(o) /\ \A p : Heir(o, p)' <=> Heir(o, p)
      BY <1>1 DEF Others, Heir, Before
    <3>2. \A p : Before(p, s, o) <=> (sample'[p].on < s.on \/ (sample'[p].on = s.on /\ p < o))
      BY <1>1 DEF Before
    <3> QED
      BY <1>1, <1>2, <1>4, <3>1, <3>2 DEF Planned, Before, won
  <2>4. KnowsDay(q)'
    BY <1>1, <1>3, <1>4, <1>5, <2>3 DEF KnowsDay, Siblings
  <2>5. KnowsStats(q)'
    BY <1>3, <1>4 DEF KnowsStats
  <2> QED
    BY <2>1, <2>2, <2>4, <2>5 DEF Knows
<1>7. Open(q) => Open(q)'
  BY <1>1, <1>3, <1>4 DEF Open, At, Deleting
<1>8. Reads(q)
  BY <1>1, <1>4 DEF Reads
<1>9. ~Refilling(q)'
  BY <1>3, <1>4 DEF Refilling
<1> QED
  BY <1>0, <1>1, <1>4, <1>6, <1>7, <1>8, <1>9, ReadKept

LEMMA ReadStatsLedger ==
  ASSUME Typed, Ledger, NEW q \in Requests, ReadStats(q)
  PROVE  Ledger'
<1>0. PICK o \in Orders : o = req[q].order
  BY DEF Typed, LiveOK, Request
<1>1. /\ At(q, "stats") /\ UNCHANGED <<done, on, sample, stats, today>>
      /\ req' = [req EXCEPT ![q].step = "lower", ![q].stats = stats]
      /\ Knows(q) /\ Unsettled(q) /\ ~Refilling(q)
  BY DEF ReadStats, rows, Ledger, At, Deleting, Unsettled, Refilling
<1>2. /\ \A p \in Requests \ {q} : req'[p] = req[p]
      /\ req'[q].op = req[q].op /\ req'[q].order = o /\ req'[q].was = req[q].was
      /\ req'[q].sample = req[q].sample /\ req'[q].step = "lower" /\ req'[q].todo = req[q].todo
      /\ req'[q].stats = stats
  BY <1>0, <1>1 DEF Typed, LiveOK, Request
<1>3. \A x \in Orders : Fit(x)' <=> Fit(x)
  BY <1>1 DEF Fit
<1>4. Knows(q)'
  <2>1. KnowsRow(q)'
    BY <1>0, <1>1, <1>2 DEF Knows, KnowsRow, Deleting, At
  <2>2. KnowsSample(q)'
    BY <1>0, <1>1, <1>2 DEF Knows, KnowsSample, Deleting, At
  <2>3. Planned(q)'
    <3>1. Planned(q)
      BY <1>1 DEF Knows, KnowsDay, At
    <3>2. Others(o)' = Others(o) /\ \A p : Heir(o, p)' <=> Heir(o, p)
      BY <1>1 DEF Others, Heir, Before
    <3>3. \A p, s : Before(p, s, o)' <=> Before(p, s, o)
      BY <1>1 DEF Before
    <3> QED
      BY <1>0, <1>1, <1>2, <3>1, <3>2, <3>3 DEF Planned
  <2>4. KnowsDay(q)'
    BY <1>0, <1>1, <1>2, <1>3, <2>3 DEF Knows, KnowsDay, Siblings
  <2>5. KnowsStats(q)'
    BY <1>1, <1>2 DEF KnowsStats
  <2> QED
    BY <2>1, <2>2, <2>4, <2>5 DEF Knows
<1>5. Open(q) => Open(q)'
  BY <1>1, <1>2 DEF Open, At, Deleting
<1>6. Reads(q) /\ ~Refilling(q)'
  BY <1>1, <1>2 DEF Reads, Refilling
<1> QED
  BY <1>0, <1>1, <1>2, <1>4, <1>5, <1>6, ReadKept

LEMMA WriteStatsLedger ==
  ASSUME Typed, Ledger, NEW q \in Requests, WriteStats(q), ~drift'
  PROVE  Ledger'
<1>0. PICK o \in Orders : o = req[q].order
  BY DEF Typed, LiveOK, Request
<1>a. PICK s : s = req[q].sample
  OBVIOUS
<1> DEFINE rest == Tail(req[q].todo)
           step == IF rest = <<>> THEN After(q) ELSE "stats"
<1>1. /\ At(q, "lower") /\ ~Disturbs(q) /\ UNCHANGED <<done, on, sample, today>>
      /\ req' = [req EXCEPT ![q].todo = rest, ![q].stats = NoStats, ![q].step = step]
      /\ IF req[q].op = "receive" THEN req[q].was /\ ~done[o] ELSE done[o]
      /\ sample[o] = NoSample /\ s.on > 0
      /\ Planned(q) /\ Unsettled(q) /\ \A x \in Siblings(o) : Fit(x)
  BY <1>0, <1>a DEF WriteStats, Disturb, rows, Ledger, Knows, KnowsRow, KnowsSample, KnowsDay, At,
       Deleting, Unsettled
<1>2. rest # <<>> => \E p \in Orders : Heir(o, p) /\ rest = <<sample[p].on>>
  <2>1. \A m, n : Tail(<<m>>) = <<>> /\ Tail(<<m, n>>) = <<n>>
    OBVIOUS
  <2>2. CASE req[q].todo = <<-s.on>>
    BY <2>1, <2>2
  <2>3. ASSUME NEW p \in Orders, Heir(o, p),
               req[q].todo \in {<<-s.on, sample[p].on>>, <<sample[p].on>>}
        PROVE  rest = <<>> \/ rest = <<sample[p].on>>
    BY <2>1, <2>3
  <2> HIDE DEF rest
  <2> QED
    BY <1>0, <1>a, <1>1, <2>1, <2>2, <2>3 DEF Planned
<1>3. step = (IF rest # <<>> THEN "stats" ELSE IF req[q].op = "receive" THEN "written" ELSE "restore")
  BY DEF After
<1> HIDE DEF step, rest
<1>4. /\ \A p \in Requests \ {q} : req'[p] = req[p]
      /\ req'[q].op = req[q].op /\ req'[q].order = o /\ req'[q].was = req[q].was
      /\ req'[q].sample = s /\ req'[q].step = step /\ req'[q].todo = rest
  BY <1>0, <1>a, <1>1 DEF Typed, LiveOK, Request
<1>5. \A x \in Orders : Fit(x)' <=> Fit(x)
  BY <1>1 DEF Fit
<1>6. Knows(q)'
  <2>1. KnowsRow(q)'
    BY <1>1, <1>3, <1>4 DEF KnowsRow, Deleting
  <2>2. KnowsSample(q)'
    BY <1>1, <1>3, <1>4 DEF KnowsSample, Deleting
  <2>3. rest # <<>> => Planned(q)'
    <3>1. Others(o)' = Others(o) /\ \A p : Heir(o, p)' <=> Heir(o, p)
      BY <1>1 DEF Others, Heir, Before
    <3>2. \A p : Before(p, s, o)' <=> Before(p, s, o)
      BY <1>1 DEF Before
    <3>3. \A p \in Others(o) : ~Before(p, s, o)
      BY <1>0, <1>a, <1>1 DEF Planned
    <3> QED
      BY <1>1, <1>2, <1>4, <3>1, <3>2, <3>3 DEF Planned
  <2>4. KnowsDay(q)'
    BY <1>1, <1>3, <1>4, <1>5, <2>3 DEF KnowsDay, Siblings
  <2>5. KnowsStats(q)'
    BY <1>3, <1>4 DEF KnowsStats
  <2> QED
    BY <2>1, <2>2, <2>4, <2>5 DEF Knows
<1>7. Open(q) => Open(q)'
  BY <1>1, <1>3, <1>4 DEF Open, At, Deleting
<1>8. Apart(q)
  BY <1>1, <1>4 DEF Apart
<1>9. ~Refilling(q)'
  BY <1>3, <1>4 DEF Refilling
<1>10. Unsettled(q)' => req'[q].order = req[q].order
  BY <1>0, <1>4
<1>11. \A x \in Orders : (Open(q)' /\ req'[q].order = x) \/ ~(Open(q) /\ req[q].order = x)
  BY <1>0, <1>4, <1>7
<1> QED
  BY <1>1, <1>5, <1>6, <1>8, <1>9, <1>10, <1>11, LedgerKept

LEMMA UndoLedger ==
  ASSUME Typed, Ledger, NEW q \in Requests, UndoDelivery(q)
  PROVE  Ledger'
<1>0. PICK o \in Orders : o = req[q].order
  BY DEF Typed, LiveOK, Request
<1>1. /\ At(q, "written") /\ UNCHANGED <<done, on, sample, stats, today>>
      /\ req' = [req EXCEPT ![q].op = "undo",
                            ![q].step = IF req[q].was THEN "restore" ELSE "sample"]
      /\ IF req[q].was THEN sample[o] = NoSample ELSE done[o]
  BY <1>0 DEF UndoDelivery, rows, Ledger, Knows, KnowsRow, At
<1>2. /\ \A p \in Requests \ {q} : req'[p] = req[p]
      /\ req'[q].op = "undo" /\ req'[q].order = o
      /\ req'[q].step = IF req[q].was THEN "restore" ELSE "sample"
  BY <1>0, <1>1 DEF Typed, LiveOK, Request
<1>3. Knows(q)'
  <2>1. KnowsRow(q)' /\ KnowsSample(q)'
    BY <1>1, <1>2 DEF KnowsRow, KnowsSample, Deleting
  <2> QED
    BY <1>2, <2>1 DEF Knows, KnowsDay, KnowsStats, Unsettled, Deleting
<1>4. Reads(q) /\ ~Open(q)
  BY <1>1, <1>2 DEF Reads, Open, At, Deleting
<1>5. ~Refilling(q)' /\ ~Unsettled(q)'
  BY <1>2 DEF Refilling, Deleting, Unsettled
<1> QED
  BY <1>3, <1>4, <1>5, ReadKept

LEMMA BeginLedger ==
  ASSUME Typed, Ledger, NEW q \in Requests, NEW o \in Orders, NEW op, NEW s,
         (op = "receive" /\ s = "read") \/ (op = "revert" /\ s = "sample" /\ done[o]),
         Begin(q, op, o, s)
  PROVE  Ledger'
<1>1. /\ At(q, "idle") /\ UNCHANGED <<done, on, sample, stats, today>>
      /\ \A p \in Requests \ {q} : req'[p] = req[p]
      /\ req'[q].op = op /\ req'[q].order = o /\ req'[q].step = s /\ (req'[q].was <=> done[o])
  BY DEF Begin, rows, Typed, LiveOK, Idle
<1>2. Knows(q)'
  <2>1. KnowsRow(q)' /\ KnowsSample(q)'
    BY <1>1 DEF KnowsRow, KnowsSample, Deleting
  <2> QED
    BY <1>1, <2>1 DEF Knows, KnowsDay, KnowsStats, Unsettled, Deleting
<1>3. Reads(q) /\ ~Open(q) /\ ~Refilling(q)' /\ ~Unsettled(q)'
  BY <1>1 DEF Reads, Open, Refilling, At, Deleting, Unsettled
<1> QED
  BY <1>2, <1>3, ReadKept

LEMMA RestoreLedger ==
  ASSUME Typed, Ledger, NEW q \in Requests, Restore(q), ~drift'
  PROVE  Ledger'
<1>0. PICK o \in Orders : o = req[q].order
  BY DEF Typed, LiveOK, Request
<1>1. sample[o] = NoSample
  BY <1>0 DEF Restore, Ledger, Knows, KnowsSample, At
<1>a. o \notin gone
  BY <1>0 DEF Restore, Disturbs, At
<1>2. /\ At(q, "restore") /\ ~Disturbs(q) /\ UNCHANGED <<sample, stats, today>>
      /\ done' = [done EXCEPT ![o] = FALSE] /\ on' = [on EXCEPT ![o] = 0]
      /\ Goto(q, "wipe")
  BY <1>0, <1>1, <1>a DEF Restore, WriteRow
<1>3. /\ \A p \in Requests \ {q} : req'[p] = req[p]
      /\ req'[q].order = o /\ req'[q].step = "wipe"
  BY <1>0, <1>2, Moved
<1>4. ~done'[o] /\ \A x \in Orders \ {o} : (done'[x] <=> done[x]) /\ on'[x] = on[x]
  BY <1>2 DEF Typed, LiveOK
<1>5. Fit(o)' /\ \A x \in Orders \ {o} : Fit(x)' <=> Fit(x)
  BY <1>1, <1>2, <1>4 DEF Fit
<1>6. Knows(q)' /\ ~Refilling(q)' /\ ~Unsettled(q)'
  BY <1>3 DEF Knows, KnowsRow, KnowsSample, KnowsDay, KnowsStats, Unsettled, Deleting, Refilling
<1>7. Apart(q)
  BY <1>0, <1>2, <1>3, <1>4 DEF Apart
<1> QED
  BY <1>0, <1>5, <1>6, <1>7, LedgerKept

LEMMA WipeLedger ==
  ASSUME Typed, Ledger, NEW q \in Requests, Wipe(q), ~drift'
  PROVE  Ledger'
<1>1. /\ At(q, "wipe") /\ ~Disturbs(q) /\ UNCHANGED <<done, on, sample, today>>
      /\ stats' = NoStats /\ Goto(q, "history")
  BY DEF Wipe, Disturb, rows
<1>2. /\ \A p \in Requests \ {q} : req'[p] = req[p]
      /\ req'[q].order = req[q].order /\ req'[q].step = "history"
  BY <1>1, Moved
<1>3. \A p \in Requests \ {q} : ~Working(p)
  BY <1>1 DEF Disturbs, At
<1>4. \A p \in Requests : ~Open(p)
  BY <1>1, <1>3 DEF Open, Working, At, Deleting
<1>5. \A x \in Orders : Fit(x)'
  BY <1>1, <1>4 DEF Ledger, FitOrOpen, Fit
<1>6. Knows(q)' /\ ~Unsettled(q)'
  BY <1>2 DEF Knows, KnowsRow, KnowsSample, KnowsDay, KnowsStats, Unsettled, Deleting
<1>7. Apart(q)
  BY <1>1, <1>2 DEF Apart
<1> QED
  BY <1>1, <1>5, <1>6, <1>7, LedgerKept

LEMMA ReadHistoryLedger ==
  ASSUME Typed, Ledger, NEW q \in Requests, ReadHistory(q)
  PROVE  Ledger'
<1>1. /\ At(q, "history") /\ UNCHANGED <<done, on, sample, stats, today>>
      /\ req' = [req EXCEPT ![q].stats = Aggregate, ![q].step = "refill"]
      /\ Refilling(q) /\ ~Open(q)
  BY DEF ReadHistory, rows, Refilling, At, Open, Deleting
<1>2. /\ \A p \in Requests \ {q} : req'[p] = req[p]
      /\ req'[q].step = "refill" /\ req'[q].stats = Aggregate
  BY <1>1 DEF Typed, LiveOK, Request
<1>3. Aggregate' = Aggregate
  BY <1>1 DEF Aggregate, First, Total
<1>4. Knows(q)' /\ ~Unsettled(q)'
  <2>1. KnowsStats(q)'
    BY <1>2, <1>3 DEF KnowsStats
  <2> QED
    BY <1>2, <2>1 DEF Knows, KnowsRow, KnowsSample, KnowsDay, Unsettled, Deleting
<1>5. Reads(q)
  BY <1>1, <1>2 DEF Reads
<1> QED
  BY <1>1, <1>4, <1>5, ReadKept

\* The request ends, or a new one has no order.
LEMMA EndLedger ==
  ASSUME Typed, Ledger, NEW q \in Requests, ~drift',
         Recalculate(q) \/ Refill(q) \/ Expire(q) \/ GiveUp(q)
  PROVE  Ledger'
<1>1. req[q].step \in {"idle", "refill", "written", "read"}
  BY DEF Recalculate, Refill, Expire, GiveUp, At
<1>2. /\ UNCHANGED <<done, on, sample, today>> /\ (stats' = stats \/ ~Disturbs(q))
      /\ req' = [req EXCEPT ![q] = Idle] \/ req' = [req EXCEPT ![q] = [Idle EXCEPT !.step = "wipe"]]
  BY DEF Recalculate, Refill, Expire, GiveUp, Disturb, rows
<1>3. /\ \A p \in Requests \ {q} : req'[p] = req[p]
      /\ req'[q].step \in {"idle", "wipe"}
  BY <1>2 DEF Typed, LiveOK, Idle
<1>4. Knows(q)'
  BY <1>3 DEF Knows, KnowsRow, KnowsSample, KnowsDay, KnowsStats, Unsettled, Deleting
<1>5. ~Open(q) /\ ~Refilling(q)' /\ ~Unsettled(q)'
  BY <1>1, <1>3 DEF Open, Refilling, Deleting, Unsettled
<1>6. Apart(q)
  BY <1>2, <1>3 DEF Apart
<1>7. \A x \in Orders : Fit(x)' <=> Fit(x)
  BY <1>2 DEF Fit
<1> QED
  BY <1>4, <1>5, <1>6, <1>7, LedgerKept

\* A purge takes days on which nobody works, as a whole.
LEMMA PurgeLedger ==
  ASSUME Typed, Ledger, NEW S \in SUBSET Orders, Purge(S), ~drift'
  PROVE  Ledger'
<1>1. ~Splits(S) /\ UNCHANGED <<stats, req, today>>
  BY DEF Purge
<1>2. \A x \in Orders \ S :
        (done'[x] <=> done[x]) /\ on'[x] = on[x] /\ sample'[x] = sample[x]
  BY DEF Purge
<1>3. \A x \in S : ~done'[x] /\ sample'[x] = NoSample
  BY DEF Purge
<1>4. \A q \in Requests : ~Refilling(q)
  BY <1>1 DEF Splits, Refilling
<1>5. ASSUME NEW q \in Requests PROVE Knows(q)'
  <2>1. req[q].step # "idle" => \A x \in S : ~SameDay(req[q].order, x)
    BY <1>1 DEF Splits
  <2>2. req[q].step # "refill"
    BY <1>4 DEF Refilling
  <2>3. Knows(q) /\ req'[q] = req[q] /\ UNCHANGED <<stats, today>>
    BY <1>1 DEF Ledger
  <2> QED
    BY <1>2, <2>1, <2>2, <2>3, KnowsFramed
<1>6. \A x \in Orders : Fit(x) => Fit(x)'
  BY <1>2, <1>3 DEF Fit
<1>7. \A q \in Requests : /\ Open(q)' <=> Open(q)
                          /\ Unsettled(q)' <=> Unsettled(q)
                          /\ Refilling(q)' <=> Refilling(q)
  BY <1>1 DEF Open, Unsettled, Refilling
<1>8. FitOrOpen'
  BY <1>1, <1>6, <1>7 DEF Ledger, FitOrOpen
<1>9. OnePerDay'
  BY <1>1, <1>7 DEF Ledger, OnePerDay, SameDay
<1>10. RefilledAlone'
  BY <1>4, <1>7 DEF RefilledAlone
<1> QED
  BY <1>5, <1>8, <1>9, <1>10 DEF Ledger

LEMMA LedgerStep ==
  ASSUME Typed, RowsFit, ~drift => Ledger, [Next]_vars
  PROVE  ~drift' => Ledger'
<1> SUFFICES ASSUME ~drift' PROVE Ledger'
  OBVIOUS
<1>1. ASSUME NEW q \in Requests, Receipt(q) PROVE Ledger'
  <2>0. ~InsertFails(q) /\ ~CheckFails(q) /\ ~IncrementFails(q)
    BY DEF InsertFails, CheckFails, IncrementFails
  <2>1. ~drift
    <3>1. ASSUME NEW o \in Orders, ReadReceipt(q, o) PROVE ~drift
      BY <3>1 DEF ReadReceipt, Begin
    <3>2. CASE WriteReceipt(q)
      BY <3>2 DEF WriteReceipt, Disturb
    <3>3. CASE InsertSample(q) \/ CheckSiblings(q) \/ Increment(q)
      BY <3>3 DEF InsertSample, CheckSiblings, Increment, Disturb
    <3> QED
      BY <1>1, <2>0, <3>1, <3>2, <3>3 DEF Receipt
  <2>2. ASSUME NEW o \in Orders, ReadReceipt(q, o) PROVE Ledger'
    <3>1. Begin(q, "receive", o, "read")
      BY <2>2 DEF ReadReceipt
    <3>2. Ledger
      BY <2>1
    <3> QED
      BY <3>1, <3>2, BeginLedger
  <2> QED
    BY <1>1, <2>0, <2>1, <2>2, WriteReceiptLedger, InsertSampleLedger, CheckSiblingsLedger,
       IncrementLedger DEF Receipt
<1>2. ASSUME NEW q \in Requests, SoftDelete(q) PROVE Ledger'
  <2>0. ~SampleFails(q) /\ ~FindAmongOrphans(q) /\ ~SiblingsFail(q)
    BY DEF SampleFails, FindAmongOrphans, SiblingsFail
  <2>1. ~drift
    <3>1. CASE ReadSample(q) \/ FindWinner(q) \/ ReadStats(q)
      BY <3>1 DEF ReadSample, FindWinner, ReadStats
    <3>2. CASE DeleteSample(q)
      BY <3>2 DEF DeleteSample, Disturb
    <3>3. CASE WriteStats(q)
      BY <3>3 DEF WriteStats, Disturb
    <3> QED
      BY <1>2, <2>0, <3>1, <3>2, <3>3 DEF SoftDelete
  <2> QED
    BY <1>2, <2>0, <2>1, ReadSampleLedger, DeleteSampleLedger, FindWinnerLedger, ReadStatsLedger,
       WriteStatsLedger DEF SoftDelete
<1>3. ASSUME NEW q \in Requests, Reset(q) PROVE Ledger'
  <2>1. ASSUME NEW o \in Orders, Revert(q, o) PROVE Ledger'
    <3>1. ~drift
      BY <2>1 DEF Revert, Begin
    <3> QED
      BY <2>1, <3>1, BeginLedger DEF Revert
  <2>2. CASE UndoDelivery(q)
    BY <2>2, UndoLedger DEF UndoDelivery
  <2>3. CASE Restore(q)
    <3>1. ~drift
      BY <2>3 DEF Restore
    <3> QED
      BY <2>3, <3>1, RestoreLedger
  <2> QED
    BY <1>3, <2>1, <2>2, <2>3 DEF Reset
<1>4. ASSUME NEW q \in Requests, Recalculation(q) \/ Expire(q) \/ GiveUp(q) PROVE Ledger'
  <2>1. ~drift
    BY <1>4 DEF Recalculation, Recalculate, Wipe, ReadHistory, Refill, Expire, GiveUp, Disturb
  <2> QED
    BY <1>4, <2>1, WipeLedger, ReadHistoryLedger, EndLedger DEF Recalculation
<1>5. CASE Tick
  <2>1. /\ UNCHANGED <<done, on, sample, stats, req, drift>>
        /\ \A q \in Requests : req[q].step \in {"idle", "written"}
    BY <1>5 DEF Tick, rows, Working
  <2>2. Ledger
    BY <1>5, <2>1
  <2>3. \A q \in Requests : Knows(q)'
    <3> SUFFICES ASSUME NEW q \in Requests PROVE Knows(q)'
      OBVIOUS
    <3>1. KnowsRow(q)'
      BY <2>1, <2>2 DEF Ledger, Knows, KnowsRow, Deleting
    <3>2. KnowsSample(q)'
      BY <2>1 DEF KnowsSample, Deleting
    <3>3. KnowsDay(q)' /\ KnowsStats(q)'
      BY <2>1 DEF KnowsDay, KnowsStats, Unsettled, Deleting
    <3> QED
      BY <3>1, <3>2, <3>3 DEF Knows
  <2>4. (\A x \in Orders : Fit(x)' <=> Fit(x)) /\ (\A q \in Requests : Open(q)' <=> Open(q))
    BY <2>1 DEF Fit, Open
  <2>5. \A q \in Requests : ~Unsettled(q)' /\ ~Refilling(q)'
    BY <2>1 DEF Unsettled, Refilling, Deleting
  <2> QED
    BY <2>1, <2>2, <2>3, <2>4, <2>5 DEF Ledger, FitOrOpen, OnePerDay, RefilledAlone
<1>6. CASE UNCHANGED vars
  <2>1. UNCHANGED <<done, on, sample, stats, req, today, drift>>
    BY <1>6 DEF vars, rows
  <2>2. Ledger
    BY <2>1
  <2>3. \A x \in Orders : Fit(x)' <=> Fit(x)
    BY <2>1 DEF Fit
  <2>4. \A q \in Requests :
          /\ KnowsRow(q)' <=> KnowsRow(q)
          /\ KnowsSample(q)' <=> KnowsSample(q)
          /\ KnowsDay(q)' <=> KnowsDay(q)
          /\ KnowsStats(q)' <=> KnowsStats(q)
          /\ Open(q)' <=> Open(q)
          /\ Unsettled(q)' <=> Unsettled(q)
          /\ Refilling(q)' <=> Refilling(q)
    <3> SUFFICES ASSUME NEW q \in Requests
                 PROVE  /\ KnowsRow(q)' <=> KnowsRow(q)
                        /\ KnowsSample(q)' <=> KnowsSample(q)
                        /\ KnowsDay(q)' <=> KnowsDay(q)
                        /\ KnowsStats(q)' <=> KnowsStats(q)
                        /\ Open(q)' <=> Open(q)
                        /\ Unsettled(q)' <=> Unsettled(q)
                        /\ Refilling(q)' <=> Refilling(q)
      OBVIOUS
    <3>1. KnowsRow(q)' <=> KnowsRow(q)
      BY <2>1 DEF KnowsRow
    <3>2. KnowsSample(q)' <=> KnowsSample(q)
      BY <2>1 DEF KnowsSample, Fit
    <3>3. KnowsDay(q)' <=> KnowsDay(q)
      BY <2>1 DEF KnowsDay, Planned, Others, Heir, Before, Fit, Unsettled
    <3>4. KnowsStats(q)' <=> KnowsStats(q)
      BY <2>1 DEF KnowsStats, Aggregate, First, Total
    <3>5. /\ Open(q)' <=> Open(q)
          /\ Unsettled(q)' <=> Unsettled(q)
          /\ Refilling(q)' <=> Refilling(q)
      BY <2>1 DEF Open, Unsettled, Refilling
    <3> QED
      BY <3>1, <3>2, <3>3, <3>4, <3>5
  <2> QED
    BY <2>1, <2>2, <2>3, <2>4 DEF Ledger, Knows, FitOrOpen, OnePerDay, RefilledAlone
<1>7. ASSUME NEW S \in SUBSET Orders, Purge(S) PROVE Ledger'
  BY <1>7, PurgeLedger DEF Purge
<1> QED
  BY <1>1, <1>2, <1>3, <1>4, <1>5, <1>6, <1>7 DEF Next

LEMMA LedgerHolds == Spec => [](~drift => Ledger)
<1>1. Init => Ledger
  <2> SUFFICES ASSUME Init PROVE Ledger
    OBVIOUS
  <2>1. /\ \A o \in Orders : ~done[o] /\ sample[o] = NoSample
        /\ \A q \in Requests : req[q].step = "idle"
    BY DEF Init, Idle
  <2> QED
    BY <2>1 DEF Ledger, Knows, KnowsRow, KnowsSample, KnowsDay, KnowsStats, Unsettled, Refilling,
         Deleting, FitOrOpen, Fit, OnePerDay, RefilledAlone
<1> QED
  BY <1>1, LedgerStep, TypedHolds, RowsFitHolds, PTL DEF Spec

\* When nobody works and nothing has drifted, the samples are those of the complete
\* orders: an order may lack its sample, or have one too many, only while the request
\* that has changed it is under way.
THEOREM SamplesKept == Spec => []SamplesFollow
<1>1. (~drift => Ledger) => SamplesFollow
  <2> SUFFICES ASSUME Ledger, Quiet PROVE SamplesFit
    BY DEF SamplesFollow
  <2>1. \A q \in Requests : ~Open(q)
    BY DEF Quiet, Working, Open, Deleting
  <2>2. \A o \in Orders : Fit(o)
    BY <2>1 DEF Ledger, FitOrOpen
  <2> QED
    BY <2>2 DEF SamplesFit, Fit
<1> QED
  BY <1>1, LedgerHolds, PTL

-----------------------------------------------------------------------------
(* What the counters count while requests are under way.                   *)

\* q has taken the date of the deleted sample out and not yet added the next one.
Promotes(q) == req[q].step \in {"stats", "lower"} /\ Head(req[q].todo) > 0

\* The sample of x is not counted yet, or the deleted one still is.
Silent(q, x) ==
  \/ req[q].step \in {"siblings", "increment"} /\ req[q].order = x
  \/ Promotes(q) /\ SameDay(req[q].order, x)
Lingers(q, x) == req[q].step \in Deleting /\ ~Promotes(q) /\ req[q].order = x

Concerns(q, x) == Silent(q, x) \/ Lingers(q, x)
Says(q, x, n) == (Silent(q, x) => n = 0) /\ (Lingers(q, x) => n = req[q].sample.on)

\* c are the dates the counters count each order with.
Reckons(c) ==
  \A x \in Orders :
    /\ \A q \in Requests : Says(q, x, c[x])
    /\ (\A q \in Requests : ~Concerns(q, x)) => c[x] = sample[x].on

\* The counters count them, and the days purged since the last recalculation.
Tallies(c) == stats.sum = Weight(c) + kept.sum /\ stats.count = Days(c) + kept.count

Counts(c) == Reckons(c) /\ Tallies(c)

Accounts == (\A q \in Requests : ~Refilling(q)) => \E c \in Dates : Counts(c)

LEMMA ConcernsDay ==
  ASSUME NEW q \in Requests, NEW x \in Orders
  PROVE  /\ Concerns(q, x) => Unsettled(q) /\ SameDay(req[q].order, x)
         /\ ~Concerns(q, x) => \A n : Says(q, x, n)
BY DEF Concerns, Says, Silent, Lingers, Unsettled, Promotes, Deleting, SameDay

LEMMA NobodyElse ==
  ASSUME Typed, Ledger, NEW q \in Requests, Unsettled(q) \/ ~Disturbs(q),
         NEW x \in Orders, SameDay(req[q].order, x), NEW p \in Requests \ {q}
  PROVE  ~Concerns(p, x)
<1> SUFFICES ASSUME Concerns(p, x) PROVE FALSE
  OBVIOUS
<1>1. Unsettled(p) /\ SameDay(req[p].order, req[q].order)
  BY ConcernsDay, OneDay DEF Typed, LiveOK, Request
<1>2. req[p].step # "idle"
  BY <1>1 DEF Unsettled, Deleting
<1> QED
  BY <1>1, <1>2 DEF Ledger, OnePerDay, Disturbs

\* The dates of the orders that q has to do with change, if any.
LEMMA Reckoning ==
  ASSUME NEW q \in Requests, \A p \in Requests \ {q} : req'[p] = req[p],
         NEW c \in Dates, NEW e \in Dates, Reckons(c),
         \A x \in Orders :
           \/ /\ e[x] = c[x] /\ sample'[x] = sample[x]
              /\ Says(q, x, c[x])' /\ (Concerns(q, x) => Concerns(q, x)')
           \/ /\ \A p \in Requests \ {q} : ~Concerns(p, x)
              /\ Says(q, x, e[x])' /\ (Concerns(q, x)' \/ e[x] = sample'[x].on)
  PROVE  Reckons(e)'
<1>1. ASSUME NEW p \in Requests \ {q}, NEW x \in Orders
      PROVE  (Concerns(p, x)' <=> Concerns(p, x)) /\ \A n : Says(p, x, n)' <=> Says(p, x, n)
  BY <1>1 DEF Concerns, Says, Silent, Lingers, Promotes
<1>2. ASSUME NEW x \in Orders
      PROVE  /\ \A p \in Requests : Says(p, x, e[x])'
             /\ (\A p \in Requests : ~Concerns(p, x)') => e[x] = sample'[x].on
  <2>1. CASE /\ e[x] = c[x] /\ sample'[x] = sample[x]
             /\ Says(q, x, c[x])' /\ (Concerns(q, x) => Concerns(q, x)')
    <3>1. Says(q, x, e[x])'
      BY <2>1
    <3>2. \A p \in Requests \ {q} : Says(p, x, c[x])
      BY DEF Reckons
    <3>3. \A p \in Requests \ {q} : Says(p, x, e[x])'
      BY <1>1, <2>1, <3>2
    <3>4. (\A p \in Requests : ~Concerns(p, x)') => \A p \in Requests : ~Concerns(p, x)
      BY <1>1, <2>1
    <3>5. (\A p \in Requests : ~Concerns(p, x)') => e[x] = sample'[x].on
      BY <2>1, <3>4 DEF Reckons
    <3> QED
      BY <3>1, <3>3, <3>5
  <2>2. CASE /\ \A p \in Requests \ {q} : ~Concerns(p, x)
             /\ Says(q, x, e[x])' /\ (Concerns(q, x)' \/ e[x] = sample'[x].on)
    <3>1. \A p \in Requests \ {q} : Says(p, x, e[x])'
      BY <1>1, <2>2, ConcernsDay
    <3> QED
      BY <2>2, <3>1
  <2> QED
    BY <2>1, <2>2
<1> QED
  BY <1>2 DEF Reckons

\* Steps that do not concern the counters.
LEMMA SameCounts ==
  ASSUME NEW q \in Requests, \A p \in Requests \ {q} : req'[p] = req[p],
         UNCHANGED <<sample, stats, kept>>, Accounts, Refilling(q) => Refilling(q)',
         ~Unsettled(q), ~Unsettled(q)'
  PROVE  Accounts'
<1>1. \A x \in Orders : /\ ~Concerns(q, x) /\ ~Concerns(q, x)'
                        /\ \A n : Says(q, x, n)'
  BY DEF Concerns, Says, Silent, Lingers, Unsettled, Promotes, Deleting
<1>2. (\A p \in Requests : ~Refilling(p)') => \A p \in Requests : ~Refilling(p)
  BY DEF Refilling
<1>3. ASSUME NEW c \in Dates, Counts(c) PROVE Counts(c)'
  <2>1. Reckons(c)'
    BY <1>1, <1>3, Reckoning DEF Counts
  <2> QED
    BY <1>3, <2>1 DEF Counts, Tallies, Weight, Days, Leaders, Ahead, Total
<1> QED
  BY <1>2, <1>3 DEF Accounts

\* Nobody concerns a sibling of the order of q, except q.
LEMMA DayReckoned ==
  ASSUME Typed, Ledger, NEW q \in Requests, Unsettled(q) \/ ~Disturbs(q),
         NEW c \in Dates, Reckons(c), NEW x \in Orders, SameDay(req[q].order, x),
         ~Concerns(q, x)
  PROVE  c[x] = sample[x].on
BY NobodyElse DEF Reckons

\* Samples of orders that fit have a date.
LEMMA FitDate ==
  ASSUME Typed, RowsFit, NEW x \in Orders, Fit(x)
  PROVE  /\ sample[x].on = on[x] /\ (done[x] <=> sample[x].on > 0)
         /\ (sample[x] # NoSample <=> done[x]) /\ sample[x].on <= today
BY DEF Typed, LiveOK, RowsFit, Fit, NoSample

LEMMA SampleDates == ASSUME Typed, NEW x \in Orders PROVE sample[x].on \in 0 .. LastDay
BY DEF Typed, LiveOK, Samples

LEMMA Redated ==
  ASSUME NEW c \in Dates, NEW o \in Orders, NEW d \in 0 .. LastDay
  PROVE  \E e \in Dates : e[o] = d /\ \A x \in Orders \ {o} : e[x] = c[x]
<1>1. [c EXCEPT ![o] = d] \in Dates
  BY DEF Dates
<1> QED
  BY <1>1 DEF Dates

\* Counters that do not change.
LEMMA CountsKept ==
  ASSUME NEW c \in Dates, NEW e \in Dates, Reckons(e)', UNCHANGED <<stats, kept>>, Tallies(c),
         Days(c) = Days(e), Weight(c) = Weight(e)
  PROVE  Counts(e)'
BY DEF Counts, Tallies, Weight, Days, Leaders, Ahead, Total

LEMMA InsertSampleCounts ==
  ASSUME Typed, Ledger, Accounts, NEW q \in Requests, InsertSample(q), ~drift'
  PROVE  Accounts'
<1>0. PICK o \in Orders : o = req[q].order
  BY DEF Typed, LiveOK, Request
<1>1. /\ At(q, "insert") /\ ~Disturbs(q) /\ UNCHANGED <<stats, kept>> /\ sample[o] = NoSample
  BY <1>0 DEF InsertSample, Disturb, purged, Ledger, Knows, KnowsSample, At
<1>2. Goto(q, "siblings") /\ sample' = [sample EXCEPT ![o] = [id |-> req[q].number, on |-> on[o]]]
  BY <1>0, <1>1 DEF InsertSample
<1>3. /\ \A p \in Requests \ {q} : req'[p] = req[p]
      /\ req'[q].order = o /\ req'[q].step = "siblings"
  BY <1>0, <1>2, Moved
<1>4. \A x \in Orders \ {o} : sample'[x] = sample[x]
  BY <1>2 DEF Typed, LiveOK
<1>5. (\A p \in Requests : ~Refilling(p)') => \A p \in Requests : ~Refilling(p)
  BY <1>1, <1>3 DEF Refilling, At
<1>6. ASSUME NEW c \in Dates, Counts(c) PROVE Counts(c)'
  <2>1. \A x \in Orders : ~Concerns(q, x)
    BY <1>1 DEF Concerns, Silent, Lingers, At, Promotes, Deleting
  <2>2. c[o] = 0
    BY <1>0, <1>1, <1>6, <2>1, DayReckoned DEF SameDay, NoSample, Counts
  <2>3. Concerns(q, o)' /\ Says(q, o, c[o])'
    BY <1>3, <2>2 DEF Concerns, Says, Silent, Lingers, Deleting
  <2>4. \A x \in Orders \ {o} : Says(q, x, c[x])'
    BY <1>3 DEF Says, Silent, Lingers, Deleting, Promotes
  <2>5. \A p \in Requests \ {q} : ~Concerns(p, o)
    BY <1>0, <1>1, NobodyElse DEF SameDay
  <2>6. Reckons(c)'
    BY <1>3, <1>4, <1>6, <2>1, <2>3, <2>4, <2>5, Reckoning DEF Counts
  <2> QED
    BY <1>1, <1>6, <2>6, CountsKept DEF Counts
<1> QED
  BY <1>5, <1>6 DEF Accounts

LEMMA DeleteSampleCounts ==
  ASSUME Typed, Ledger, Accounts, NEW q \in Requests, DeleteSample(q), ~drift'
  PROVE  Accounts'
<1>0. PICK o \in Orders : o = req[q].order
  BY DEF Typed, LiveOK, Request
<1>1. /\ At(q, "delete") /\ ~Disturbs(q) /\ UNCHANGED <<stats, kept>>
      /\ Goto(q, "winner") /\ sample[o] = req[q].sample
  BY <1>0 DEF DeleteSample, Disturb, Ledger, Knows, KnowsSample, At
<1>2. sample' = [sample EXCEPT ![o] = NoSample]
  BY <1>0, <1>1 DEF DeleteSample
<1>3. /\ \A p \in Requests \ {q} : req'[p] = req[p]
      /\ req'[q].order = o /\ req'[q].step = "winner" /\ req'[q].sample = sample[o]
  BY <1>0, <1>1, Moved
<1>4. \A x \in Orders \ {o} : sample'[x] = sample[x]
  BY <1>2 DEF Typed, LiveOK
<1>5. (\A p \in Requests : ~Refilling(p)') => \A p \in Requests : ~Refilling(p)
  BY <1>1, <1>3 DEF Refilling, At
<1>6. ASSUME NEW c \in Dates, Counts(c) PROVE Counts(c)'
  <2>1. \A x \in Orders : ~Concerns(q, x)
    BY <1>1 DEF Concerns, Silent, Lingers, At, Promotes, Deleting
  <2>2. c[o] = sample[o].on
    BY <1>0, <1>1, <1>6, <2>1, DayReckoned DEF SameDay, Counts
  <2>3. Concerns(q, o)' /\ Says(q, o, c[o])'
    BY <1>3, <2>2 DEF Concerns, Says, Silent, Lingers, Deleting, Promotes
  <2>4. \A x \in Orders \ {o} : Says(q, x, c[x])'
    BY <1>3 DEF Says, Silent, Lingers, Deleting, Promotes
  <2>5. \A p \in Requests \ {q} : ~Concerns(p, o)
    BY <1>0, <1>1, NobodyElse DEF SameDay
  <2>6. Reckons(c)'
    BY <1>3, <1>4, <1>6, <2>1, <2>3, <2>4, <2>5, Reckoning DEF Counts
  <2> QED
    BY <1>1, <1>6, <2>6, CountsKept DEF Counts
<1> QED
  BY <1>5, <1>6 DEF Accounts

LEMMA CheckSiblingsCounts ==
  ASSUME Typed, RowsFit, Ledger, Accounts, NEW q \in Requests, CheckSiblings(q)
  PROVE  Accounts'
<1>0. PICK o \in Orders : o = req[q].order
  BY DEF Typed, LiveOK, Request
<1>1. /\ At(q, "siblings") /\ UNCHANGED <<sample, stats, kept>> /\ Unsettled(q)
      /\ Goto(q, IF Counted(o) THEN "written" ELSE "increment")
      /\ done[o] /\ on[o] = today /\ Fit(o) /\ \A x \in Siblings(o) : Fit(x)
  BY <1>0 DEF CheckSiblings, rows, purged, Ledger, Knows, KnowsRow, KnowsSample, KnowsDay, At, Unsettled
<1>2. /\ \A p \in Requests \ {q} : req'[p] = req[p]
      /\ req'[q].order = o
      /\ req'[q].step = IF Counted(o) THEN "written" ELSE "increment"
  BY <1>0, <1>1, Moved
<1>3. (\A p \in Requests : ~Refilling(p)') => \A p \in Requests : ~Refilling(p)
  BY <1>1, <1>2 DEF Refilling, At
<1>4. \A x \in Orders : Concerns(q, x) <=> x = o
  BY <1>0, <1>1 DEF Concerns, Silent, Lingers, At, Promotes, Deleting
<1>5. ASSUME NEW c \in Dates, Counts(c) PROVE \E e \in Dates : Counts(e)'
  <2>1. Silent(q, o)
    BY <1>0, <1>1 DEF Silent, At
  <2>2. c[o] = 0
    BY <1>5, <2>1 DEF Counts, Reckons, Says
  <2>3. CASE ~Counted(o)
    <3>1. \A x \in Orders : (Concerns(q, x)' <=> x = o) /\ Says(q, x, c[x])'
      BY <1>2, <2>2, <2>3 DEF Concerns, Says, Silent, Lingers, Promotes, Deleting
    <3>2. Reckons(c)'
      BY <1>1, <1>2, <1>4, <1>5, <3>1, Reckoning DEF Counts
    <3> QED
      BY <1>1, <1>5, <3>2, CountsKept DEF Counts
  <2>4. CASE Counted(o)
    <3>1. sample[o].on \in 0 .. LastDay /\ sample[o].on > 0 /\ sample[o].on = today
      BY <1>1, FitDate, SampleDates
    <3>2. PICK e \in Dates : e[o] = sample[o].on /\ \A x \in Orders \ {o} : e[x] = c[x]
      BY <3>1, Redated
    <3>3. PICK y \in Siblings(o) : done[y]
      BY <2>4 DEF Counted
    <3>4. y \in Orders /\ y # o /\ SameDay(o, y)
      BY OneDay DEF Siblings
    <3>5. c[y] = sample[y].on
      BY <1>0, <1>1, <1>4, <1>5, <3>4, DayReckoned DEF Counts
    <3>6. c[y] > 0 /\ c[y] <= e[o]
      BY <1>1, <3>1, <3>2, <3>3, <3>4, <3>5, FitDate
    <3>7. Days(c) = Days(e) /\ Weight(c) = Weight(e)
      BY <2>2, <3>1, <3>2, <3>6, DayJoined
    <3>8. \A x \in Orders : ~Concerns(q, x)' /\ Says(q, x, e[x])'
      BY <1>2, <2>4 DEF Concerns, Says, Silent, Lingers, Promotes, Deleting
    <3>9. \A p \in Requests \ {q} : ~Concerns(p, o)
      BY <1>0, <1>1, NobodyElse DEF SameDay
    <3>10. \A x \in Orders \ {o} : e[x] = c[x] /\ sample'[x] = sample[x] /\ ~Concerns(q, x)
      BY <1>1, <1>4, <3>2
    <3>11. e[o] = sample'[o].on
      BY <1>1, <3>2
    <3>12. \A x \in Orders \ {o} : Says(q, x, c[x])'
      BY <3>8, <3>10
    <3>13. Reckons(e)'
      BY <1>2, <1>5, <3>2, <3>8, <3>9, <3>10, <3>11, <3>12, Reckoning DEF Counts
    <3> QED
      BY <1>1, <1>5, <3>7, <3>13, CountsKept DEF Counts
  <2> QED
    BY <2>3, <2>4
<1> QED
  BY <1>3, <1>5 DEF Accounts

\* One more day counts, from its first delivery on.
LEMMA CountsAdded ==
  ASSUME stats \in Stats, KeptOK, NEW c \in Dates, NEW e \in Dates, NEW p \in Leaders(e),
         \A x \in Orders : c[x] = IF SameDay(p, x) THEN 0 ELSE e[x],
         Tallies(c), UNCHANGED kept, stats' = Added(stats, e[p]), Reckons(e)'
  PROVE  Counts(e)'
<1>1. Days(e) = Days(c) + 1 /\ Weight(e) = Weight(c) + e[p]
  BY DayOut
<1>2. /\ Days(c) \in Nat /\ Weight(c) \in Nat /\ e[p] \in Nat
      /\ kept.sum \in Nat /\ kept.count \in Nat
  BY TotalType DEF Days, Weight, Leaders, Dates, KeptOK, PurgedOK
<1>3. stats'.sum = Weight(e) + kept'.sum /\ stats'.count = Days(e) + kept'.count
  BY <1>1, <1>2 DEF Added, Tallies
<1> QED
  BY <1>3 DEF Counts, Tallies, Weight, Days, Leaders, Ahead, Total

LEMMA IncrementCounts ==
  ASSUME Typed, KeptOK, RowsFit, Ledger, Accounts, NEW q \in Requests, Increment(q), ~drift'
  PROVE  Accounts'
<1>0. PICK o \in Orders : o = req[q].order
  BY DEF Typed, LiveOK, Request
<1>1. /\ At(q, "increment") /\ UNCHANGED <<sample, kept>> /\ Unsettled(q) /\ Goto(q, "written")
      /\ done[o] /\ on[o] = today /\ Fit(o) /\ \A x \in Siblings(o) : Fit(x) /\ ~done[x]
      /\ stats' = Added(stats, today)
  BY <1>0 DEF Increment, rows, purged, Ledger, Knows, KnowsRow, KnowsSample, KnowsDay, At, Unsettled
<1>2. /\ \A p \in Requests \ {q} : req'[p] = req[p]
      /\ req'[q].order = o /\ req'[q].step = "written"
  BY <1>0, <1>1, Moved
<1>3. (\A p \in Requests : ~Refilling(p)') => \A p \in Requests : ~Refilling(p)
  BY <1>1, <1>2 DEF Refilling, At
<1>4. \A x \in Orders : Concerns(q, x) <=> x = o
  BY <1>0, <1>1 DEF Concerns, Silent, Lingers, At, Promotes, Deleting
<1>5. ASSUME NEW c \in Dates, Counts(c) PROVE \E e \in Dates : Counts(e)'
  <2>1. Silent(q, o)
    BY <1>0, <1>1 DEF Silent, At
  <2>2. c[o] = 0
    BY <1>5, <2>1 DEF Counts, Reckons, Says
  <2>3. sample[o].on \in 0 .. LastDay /\ sample[o].on > 0 /\ sample[o].on = today
    BY <1>1, FitDate, SampleDates
  <2>4. PICK e \in Dates : e[o] = sample[o].on /\ \A x \in Orders \ {o} : e[x] = c[x]
    BY <2>3, Redated
  <2>5. \A y \in Siblings(o) : c[y] = 0
    <3> SUFFICES ASSUME NEW y \in Siblings(o) PROVE c[y] = 0
      OBVIOUS
    <3>1. y \in Orders /\ y # o /\ SameDay(o, y)
      BY OneDay DEF Siblings
    <3>2. c[y] = sample[y].on
      BY <1>0, <1>1, <1>4, <1>5, <3>1, DayReckoned DEF Counts
    <3>3. sample[y] = NoSample
      BY <1>1 DEF Fit
    <3> QED
      BY <3>2, <3>3 DEF NoSample
  <2>6. \A x \in Orders : c[x] = IF SameDay(o, x) THEN 0 ELSE e[x]
    BY <2>2, <2>4, <2>5, OneDay
  <2>7. o \in Leaders(e)
    BY <2>3, <2>4, <2>5, OneDay DEF Leaders, Siblings
  <2>8. \A x \in Orders : /\ ~Concerns(q, x)' /\ Says(q, x, e[x])' /\ Says(q, x, c[x])'
    BY <1>2 DEF Concerns, Says, Silent, Lingers, Promotes, Deleting
  <2>9. \A p \in Requests \ {q} : ~Concerns(p, o)
    BY <1>0, <1>1, NobodyElse DEF SameDay
  <2>10. Reckons(e)'
    BY <1>1, <1>2, <1>4, <1>5, <2>4, <2>8, <2>9, Reckoning DEF Counts
  <2>11. stats \in Stats /\ stats' = Added(stats, e[o])
    BY <1>1, <2>3, <2>4 DEF Typed, LiveOK
  <2> QED
    BY <1>1, <1>5, <2>6, <2>7, <2>10, <2>11, CountsAdded DEF Counts
<1> QED
  BY <1>3, <1>5 DEF Accounts

LEMMA FindWinnerCounts ==
  ASSUME Typed, RowsFit, Ledger, Accounts, NEW q \in Requests, FindWinner(q)
  PROVE  Accounts'
<1>0. PICK o \in Orders, s \in Samples : o = req[q].order /\ s = req[q].sample
  BY DEF Typed, LiveOK, Request
<1> DEFINE won == \A p \in Others(o) : ~Before(p, s, o)
           todo == IF won THEN Replace(s, o) ELSE <<>>
           step == IF won THEN "stats" ELSE After(q)
<1>1. /\ At(q, "winner") /\ UNCHANGED <<sample, stats, kept>> /\ Unsettled(q)
      /\ req' = [req EXCEPT ![q].step = step, ![q].todo = todo]
      /\ sample[o] = NoSample /\ s.on > 0 /\ \A x \in Siblings(o) : Fit(x)
  BY <1>0 DEF FindWinner, rows, purged, Ledger, Knows, KnowsSample, KnowsDay, At, Deleting, Unsettled
<1>2. won => Head(todo) = -s.on
  <2>1. \A m, n : Head(<<m>>) = m /\ Head(<<m, n>>) = m
    OBVIOUS
  <2>2. Replace(s, o) = <<-s.on>> \/ \E p \in Orders : Replace(s, o) = <<-s.on, sample[p].on>>
    BY Replaced DEF Typed, LiveOK
  <2> QED
    BY <2>1, <2>2
<1>3. ~won => step \in {"written", "restore"}
  BY DEF After
<1>4. won => step = "stats"
  OBVIOUS
<1>5. ~won => \E x \in Others(o) : Before(x, s, o)
  OBVIOUS
<1> HIDE DEF step, todo, won
<1>6. /\ \A p \in Requests \ {q} : req'[p] = req[p]
      /\ req'[q].order = o /\ req'[q].sample = s /\ req'[q].step = step /\ req'[q].todo = todo
  BY <1>0, <1>1 DEF Typed, LiveOK, Request
<1>7. (\A p \in Requests : ~Refilling(p)') => \A p \in Requests : ~Refilling(p)
  BY <1>1, <1>6 DEF Refilling, At
<1>8. \A x \in Orders : Concerns(q, x) <=> x = o
  BY <1>0, <1>1 DEF Concerns, Silent, Lingers, At, Promotes, Deleting
<1>9. ASSUME NEW c \in Dates, Counts(c) PROVE \E e \in Dates : Counts(e)'
  <2>1. Lingers(q, o)
    BY <1>0, <1>1 DEF Lingers, At, Deleting, Promotes
  <2>2. c[o] = s.on
    BY <1>0, <1>9, <2>1 DEF Counts, Reckons, Says
  <2>3. CASE won
    <3>1. ~Promotes(q)'
      <4>1. s.on \in Nat /\ ~(-s.on > 0)
        BY <1>1, DeliveryStatsAssumption DEF Samples
      <4> QED
        BY <1>2, <1>6, <2>3, <4>1 DEF Promotes
    <3>2. \A x \in Orders : (Concerns(q, x)' <=> x = o) /\ Says(q, x, c[x])'
      BY <1>4, <1>6, <2>2, <2>3, <3>1 DEF Concerns, Says, Silent, Lingers, Deleting
    <3>3. Reckons(c)'
      BY <1>1, <1>6, <1>8, <1>9, <3>2, Reckoning DEF Counts
    <3> QED
      BY <1>1, <1>9, <3>3, CountsKept DEF Counts
  <2>4. CASE ~won
    <3>1. sample[o].on = 0 /\ sample[o].on \in 0 .. LastDay
      BY <1>1, SampleDates DEF NoSample
    <3>2. PICK e \in Dates : e[o] = sample[o].on /\ \A x \in Orders \ {o} : e[x] = c[x]
      BY <3>1, Redated
    <3>3. PICK y \in Others(o) : Before(y, s, o)
      BY <1>5, <2>4
    <3>4. y \in Orders /\ y # o /\ SameDay(o, y) /\ y \in Siblings(o) /\ sample[y] # NoSample
      BY OneDay DEF Siblings, Others
    <3>5. c[y] = sample[y].on
      BY <1>0, <1>1, <1>8, <1>9, <3>4, DayReckoned DEF Counts
    <3>6. e[y] > 0 /\ e[y] <= c[o]
      <4>1. sample[y].on > 0
        BY <1>1, <3>4, FitDate
      <4>2. sample[y].on <= s.on
        BY <3>3, <3>4, SampleDates, DeliveryStatsAssumption DEF Before, Samples
      <4> QED
        BY <2>2, <3>2, <3>4, <3>5, <4>1, <4>2
    <3>7. Days(e) = Days(c) /\ Weight(e) = Weight(c)
      BY <1>1, <2>2, <3>1, <3>2, <3>4, <3>6, DayJoined
    <3>8. \A x \in Orders : ~Concerns(q, x)' /\ Says(q, x, e[x])' /\ Says(q, x, c[x])'
      BY <1>3, <1>6, <2>4 DEF Concerns, Says, Silent, Lingers, Promotes, Deleting
    <3>9. \A p \in Requests \ {q} : ~Concerns(p, o)
      BY <1>0, <1>1, NobodyElse DEF SameDay
    <3>10. Reckons(e)'
      BY <1>1, <1>6, <1>8, <1>9, <3>2, <3>8, <3>9, Reckoning DEF Counts
    <3> QED
      BY <1>1, <1>9, <3>7, <3>10, CountsKept DEF Counts
  <2> QED
    BY <2>3, <2>4
<1> QED
  BY <1>7, <1>9 DEF Accounts

\* The first delivered orders are those that lead their day.
LEMMA WinnersLead ==
  ASSUME Typed, RowsFit
  PROVE  Aggregate.sum = Weight(on) /\ Aggregate.count = Days(on)
<1>1. \A o \in Orders : on[o] > 0 <=> done[o]
  BY DEF RowsFit
<1>2. \A o \in Orders : First(o) <=> o \in Leaders(on)
  BY <1>1 DEF First, Leaders, Ahead, Siblings
<1>3. {o \in Orders : First(o)} = Leaders(on)
  BY <1>2 DEF Leaders
<1> QED
  BY <1>3 DEF Aggregate, Weight, Days

LEMMA RefillCounts ==
  ASSUME Typed, RowsFit, Ledger, NEW q \in Requests, Refill(q)
  PROVE  Accounts'
<1>1. /\ Refilling(q) /\ req[q].stats = Aggregate /\ UNCHANGED <<on, sample>>
      /\ req' = [req EXCEPT ![q] = Idle] /\ stats' = IF stats.row THEN stats ELSE req[q].stats
      /\ kept' = NoDays
  BY DEF Refill, Refilling, At, rows, Ledger, Knows, KnowsStats
<1>2. /\ stats = NoStats /\ \A x \in Orders : Fit(x)
      /\ \A p \in Requests : ~Unsettled(p) /\ (Refilling(p) => p = q)
  BY <1>1 DEF Ledger, RefilledAlone
<1>3. stats' = Aggregate
  BY <1>1, <1>2 DEF NoStats
<1>4. /\ \A p \in Requests \ {q} : req'[p] = req[p]
      /\ req'[q].step = "idle"
  BY <1>1, IdleType DEF Typed, LiveOK
<1>5. \A p \in Requests, x \in Orders : ~Concerns(p, x)' /\ Says(p, x, on[x])'
  <2>1. \A p \in Requests : ~Unsettled(p)'
    BY <1>2, <1>4 DEF Unsettled, Deleting
  <2> QED
    BY <1>1, <2>1 DEF Unsettled, Concerns, Says, Silent, Lingers, Promotes, Deleting
<1>6. PICK c \in Dates : c = on
  BY DEF Typed, LiveOK, Dates
<1>7. \A x \in Orders : c[x] = sample'[x].on
  BY <1>1, <1>2, <1>6, FitDate
<1>8. Reckons(c)'
  BY <1>1, <1>5, <1>6, <1>7 DEF Reckons
<1>9. stats'.sum = Weight(c) + kept'.sum /\ stats'.count = Days(c) + kept'.count
  <2>1. stats'.sum = Weight(c) /\ stats'.count = Days(c)
    BY <1>3, <1>6, WinnersLead
  <2>2. Weight(c) \in Nat /\ Days(c) \in Nat
    BY TotalType DEF Days, Weight, Leaders
  <2> QED
    BY <1>1, <2>1, <2>2 DEF NoDays
<1>10. Counts(c)'
  BY <1>8, <1>9 DEF Counts, Tallies, Weight, Days, Leaders, Ahead, Total
<1> QED
  BY <1>10 DEF Accounts

\* The first correction takes a day out, with the deleted sample that led it.
LEMMA CountsLowered ==
  ASSUME stats \in Stats, KeptOK, NEW c \in Dates, NEW e \in Dates, NEW o \in Leaders(c),
         \A x \in Orders : e[x] = IF SameDay(o, x) THEN 0 ELSE c[x],
         Tallies(c), UNCHANGED kept, stats' = Lowered(stats, -c[o]), Reckons(e)'
  PROVE  Counts(e)'
<1>1. Days(c) = Days(e) + 1 /\ Weight(c) = Weight(e) + c[o]
  BY DayOut
<1>2. /\ Days(e) \in Nat /\ Weight(e) \in Nat /\ (Days(e) = 0 => Weight(e) = 0)
      /\ o \in Orders /\ c[o] \in Nat
  <2>1. Leaders(e) \in SUBSET Orders /\ o \in Orders
    BY DEF Leaders
  <2> QED
    BY <2>1, TotalType DEF Days, Weight, Dates
<1>a. /\ stats.sum = Weight(c) + kept.sum /\ stats.count = Days(c) + kept.count
      /\ kept.sum \in Nat /\ kept.count \in Nat /\ (kept.count = 0 => kept.sum = 0)
  BY DEF Tallies, KeptOK, PurgedOK
<1>3. -c[o] \in Int
  BY <1>2
<1>4. stats.count = 1 \/ stats.count > 1
  BY <1>1, <1>2, <1>a
<1>5. stats'.sum = Weight(e) + kept.sum /\ stats'.count = Days(e) + kept.count
  <2>1. CASE stats.count = 1
    <3>1. stats'.count = 0 /\ stats'.sum = 0
      BY <1>3, <2>1, CountersType
    <3> QED
      BY <1>1, <1>2, <1>a, <2>1, <3>1
  <2>2. CASE stats.count > 1
    <3>1. stats.sum + (-c[o]) >= 0
      BY <1>1, <1>2, <1>a
    <3>2. stats'.count = stats.count - 1 /\ stats'.sum = stats.sum + (-c[o])
      BY <1>3, <2>2, <3>1, CountersType
    <3> QED
      BY <1>1, <1>2, <1>a, <3>2
  <2> QED
    BY <1>4, <2>1, <2>2
<1> QED
  BY <1>5 DEF Counts, Tallies, Weight, Days, Leaders, Ahead, Total

LEMMA WriteStatsCounts ==
  ASSUME Typed, KeptOK, RowsFit, Ledger, Accounts, NEW q \in Requests, WriteStats(q), ~drift'
  PROVE  Accounts'
<1>0. PICK o \in Orders, s \in Samples : o = req[q].order /\ s = req[q].sample
  BY DEF Typed, LiveOK, Request
<1> DEFINE days == Head(req[q].todo)
           rest == Tail(req[q].todo)
           step == IF rest = <<>> THEN After(q) ELSE "stats"
<1>1. /\ At(q, "lower") /\ UNCHANGED <<sample, kept>> /\ Unsettled(q)
      /\ req' = [req EXCEPT ![q].todo = rest, ![q].stats = NoStats, ![q].step = step]
      /\ sample[o] = NoSample /\ s.on > 0 /\ \A x \in Siblings(o) : Fit(x)
      /\ Planned(q) /\ req[q].stats = stats
  BY <1>0 DEF WriteStats, rows, purged, Ledger, Knows, KnowsSample, KnowsDay, KnowsStats, At, Deleting,
       Unsettled
<1>2. stats' = CASE stats.row /\ days < 0 -> Lowered(stats, days)
                 [] stats.row /\ days > 0 -> Added(stats, days)
                 [] ~stats.row /\ days > 0 -> Added(NoStats, days)
                 [] OTHER -> stats
  BY <1>1 DEF WriteStats
<1>3. \/ Others(o) = {} /\ days = -s.on /\ rest = <<>>
      \/ \E p \in Orders : Heir(o, p) /\ \/ days = -s.on /\ rest = <<sample[p].on>>
                                         \/ days = sample[p].on /\ rest = <<>>
  <2>1. \A m, n : /\ Head(<<m>>) = m /\ Tail(<<m>>) = <<>>
                  /\ Head(<<m, n>>) = m /\ Tail(<<m, n>>) = <<n>>
    OBVIOUS
  <2>2. req[q].todo = <<-s.on>> => days = -s.on /\ rest = <<>>
    BY <2>1
  <2>3. ASSUME NEW p \in Orders
        PROVE  /\ req[q].todo = <<-s.on, sample[p].on>> => days = -s.on /\ rest = <<sample[p].on>>
               /\ req[q].todo = <<sample[p].on>> => days = sample[p].on /\ rest = <<>>
    BY <2>1
  <2> HIDE DEF days, rest
  <2> QED
    BY <1>0, <1>1, <2>2, <2>3 DEF Planned
<1>4. step = (IF rest # <<>> THEN "stats" ELSE IF req[q].op = "receive" THEN "written" ELSE "restore")
  BY DEF After
<1>5. Promotes(q) <=> days > 0
  BY <1>1 DEF Promotes, At
<1> HIDE DEF step, rest
<1>6. /\ \A p \in Requests \ {q} : req'[p] = req[p]
      /\ req'[q].order = o /\ req'[q].step = step /\ req'[q].todo = rest
  BY <1>0, <1>1 DEF Typed, LiveOK, Request
<1>7. (\A p \in Requests : ~Refilling(p)') => \A p \in Requests : ~Refilling(p)
  BY <1>1, <1>6 DEF Refilling, At
<1>8. /\ \A p \in Requests \ {q}, x \in Orders : SameDay(o, x) => ~Concerns(p, x)
      /\ \A x \in Orders : Concerns(q, x) => SameDay(o, x)
      /\ \A y \in Siblings(o) : y \in Orders /\ y # o /\ SameDay(o, y)
      /\ \A y \in Siblings(o) : y \in Others(o) <=> sample[y].on > 0
      /\ \A y \in Siblings(o) : y \notin Others(o) => sample[y].on = 0
  <2>1. \A p \in Requests \ {q}, x \in Orders : SameDay(o, x) => ~Concerns(p, x)
    BY <1>0, <1>1, NobodyElse
  <2>2. \A x \in Orders : Concerns(q, x) => SameDay(o, x)
    BY <1>0, ConcernsDay
  <2>3. \A y \in Siblings(o) : y \in Orders /\ y # o /\ SameDay(o, y)
    BY OneDay DEF Siblings
  <2>4. ASSUME NEW y \in Siblings(o)
        PROVE  (y \in Others(o) <=> sample[y].on > 0) /\ (y \notin Others(o) => sample[y].on = 0)
    <3>1. (sample[y] # NoSample <=> sample[y].on > 0) /\ (sample[y] = NoSample => sample[y].on = 0)
      BY <1>1, <2>3, FitDate DEF NoSample
    <3> QED
      BY <3>1 DEF Others
  <2> QED
    BY <2>1, <2>2, <2>3, <2>4
<1>9. s.on \in Nat /\ s.on \in 0 .. LastDay /\ sample[o].on = 0 /\ SameDay(o, o)
       /\ \A x \in Orders : sample[x].on \in 0 .. LastDay /\ sample[x].on \in Nat
  BY <1>1, SampleDates, OneDay, DeliveryStatsAssumption DEF Samples, NoSample
<1>10. ASSUME NEW c \in Dates, Counts(c), days = -s.on,
              \/ Others(o) = {} /\ rest = <<>>
              \/ \E p \in Orders : Heir(o, p) /\ rest = <<sample[p].on>>
       PROVE  \E e \in Dates : Counts(e)'
  <2>1. ~Promotes(q)
    BY <1>1, <1>5, <1>9, <1>10
  <2>2. Lingers(q, o) /\ \A x \in Orders : Concerns(q, x) <=> x = o
    BY <1>0, <1>1, <2>1 DEF Concerns, Silent, Lingers, At, Deleting
  <2>3. c[o] = s.on
    BY <1>0, <1>10, <2>2 DEF Counts, Reckons, Says
  <2>4. \A y \in Siblings(o) : c[y] = sample[y].on
    BY <1>8, <1>10, <2>2 DEF Counts, Reckons
  <2>5. o \in Leaders(c)
    <3>1. ASSUME NEW y \in Siblings(o), c[y] > 0 PROVE Ahead(c, o, y)
      <4>1. y \in Others(o) /\ y \in Orders /\ y # o
        BY <1>8, <2>4, <3>1
      <4>2. ~Before(y, s, o)
        BY <1>0, <1>1, <4>1 DEF Planned
      <4>3. y \in Nat /\ o \in Nat
        BY <4>1, DeliveryStatsAssumption
      <4> QED
        BY <1>9, <2>3, <2>4, <4>1, <4>2, <4>3 DEF Before, Ahead
    <3> QED
      BY <1>1, <2>3, <3>1 DEF Leaders
  <2>6. PICK e \in Dates : \A x \in Orders : e[x] = IF SameDay(o, x) THEN 0 ELSE c[x]
    <3>1. [x \in Orders |-> IF SameDay(o, x) THEN 0 ELSE c[x]] \in Dates
      BY DeliveryStatsAssumption DEF Dates
    <3> QED
      BY <3>1
  <2>7. \A x \in Orders : ~SameDay(o, x) => ~Concerns(q, x)' /\ Says(q, x, c[x])'
    BY <1>6, OneDay DEF Concerns, Says, Silent, Lingers
  <2>8. ASSUME NEW x \in Orders, SameDay(o, x)
        PROVE  Says(q, x, e[x])' /\ (Concerns(q, x)' \/ e[x] = sample'[x].on)
    <3>1. e[x] = 0
      BY <2>6, <2>8
    <3>2. CASE Others(o) = {} /\ rest = <<>>
      <4>1. ~Concerns(q, x)' /\ Says(q, x, e[x])'
        BY <1>4, <1>6, <3>2 DEF Concerns, Says, Silent, Lingers, Promotes, Deleting
      <4>2. x = o \/ x \in Siblings(o)
        BY <2>8, OneDay
      <4>3. sample[x].on = 0
        BY <1>8, <1>9, <3>2, <4>2
      <4> QED
        BY <1>1, <3>1, <4>1, <4>3
    <3>3. ASSUME NEW p \in Orders, Heir(o, p), rest = <<sample[p].on>>
          PROVE  Says(q, x, e[x])' /\ Concerns(q, x)'
      <4>1. PICK d \in Nat : d = sample[p].on
        BY <1>9
      <4>2. d > 0
        BY <1>8, <3>3, <4>1 DEF Heir, Others
      <4>3. rest = <<d>> /\ rest # <<>> /\ Head(rest) = d
        BY <3>3, <4>1
      <4>4. Promotes(q)'
        BY <1>4, <1>6, <4>2, <4>3 DEF Promotes
      <4> QED
        BY <1>6, <2>8, <3>1, <4>4 DEF Concerns, Says, Silent, Lingers
    <3> QED
      BY <1>10, <3>2, <3>3
  <2>9. Reckons(e)'
    <3>1. \A x \in Orders :
            ~SameDay(o, x) => e[x] = c[x] /\ sample'[x] = sample[x] /\ ~Concerns(q, x)
      BY <1>1, <1>8, <2>6
    <3> QED
      BY <1>6, <1>8, <1>10, <2>7, <2>8, <3>1, Reckoning DEF Counts
  <2>10. stats' = Lowered(stats, -c[o]) /\ stats \in Stats
    <3>1. stats \in Stats /\ stats.count = Days(c) + kept.count /\ kept.count \in Nat
      BY <1>10 DEF Counts, Tallies, Typed, LiveOK, KeptOK, PurgedOK
    <3>2. stats.count # 0
      <4>1. Days(c) = Days(e) + 1
        BY <2>5, <2>6, DayOut
      <4>2. Days(e) \in Nat
        BY TotalType DEF Days, Leaders
      <4> QED
        BY <3>1, <4>1, <4>2
    <3>3. stats.row
      BY <3>2 DEF RowsFit, NoStats
    <3>4. -s.on < 0 /\ ~(-s.on > 0)
      BY <1>1, <1>9
    <3> QED
      BY <1>2, <1>10, <2>3, <3>1, <3>3, <3>4
  <2> QED
    BY <1>1, <1>10, <2>5, <2>6, <2>9, <2>10, CountsLowered DEF Counts
<1>11. ASSUME NEW c \in Dates, Counts(c), NEW p \in Orders, Heir(o, p), days = sample[p].on,
              rest = <<>>
       PROVE  \E e \in Dates : Counts(e)'
  <2>1. p \in Others(o) /\ p \in Siblings(o) /\ SameDay(o, p) /\ sample[p].on > 0
    BY <1>8, <1>11 DEF Heir, Others
  <2>2. Promotes(q) /\ \A x \in Orders : SameDay(o, x) => Silent(q, x)
    BY <1>0, <1>5, <1>11, <2>1 DEF Silent
  <2>3. \A x \in Orders : SameDay(o, x) => c[x] = 0
    BY <1>11, <2>2 DEF Counts, Reckons, Says
  <2>4. PICK e \in Dates : \A x \in Orders : e[x] = IF SameDay(o, x) THEN sample[x].on ELSE c[x]
    <3>1. [x \in Orders |-> IF SameDay(o, x) THEN sample[x].on ELSE c[x]] \in Dates
      BY <1>9 DEF Dates
    <3> QED
      BY <3>1
  <2>5. p \in Leaders(e)
    <3>1. ASSUME NEW y \in Siblings(p), e[y] > 0 PROVE Ahead(e, p, y)
      <4>1. y \in Orders /\ SameDay(o, y) /\ y # p
        BY <2>1, OneDay DEF Siblings
      <4>2. e[y] = sample[y].on /\ e[p] = sample[p].on
        BY <2>1, <2>4, <4>1
      <4>3. y \in Siblings(o)
        BY <1>9, <3>1, <4>1, <4>2, OneDay
      <4>4. y \in Others(o) \ {p}
        BY <1>8, <3>1, <4>1, <4>2, <4>3
      <4>5. Before(p, sample[y], y)
        BY <1>11, <4>4 DEF Heir
      <4> QED
        BY <4>2, <4>5 DEF Before, Ahead
    <3> QED
      BY <2>1, <2>4, <3>1 DEF Leaders
  <2>6. \A x \in Orders : c[x] = IF SameDay(p, x) THEN 0 ELSE e[x]
    BY <2>1, <2>3, <2>4, OneDay
  <2>7. \A x \in Orders : ~Concerns(q, x)' /\ Says(q, x, e[x])' /\ Says(q, x, c[x])'
    BY <1>4, <1>6, <1>11 DEF Concerns, Says, Silent, Lingers, Promotes, Deleting
  <2>8. Reckons(e)'
    <3>1. \A x \in Orders :
            ~SameDay(o, x) => e[x] = c[x] /\ sample'[x] = sample[x] /\ ~Concerns(q, x)
      BY <1>1, <1>8, <2>4
    <3>2. \A x \in Orders : SameDay(o, x) => e[x] = sample'[x].on
      BY <1>1, <2>4
    <3> QED
      BY <1>6, <1>8, <1>11, <2>7, <3>1, <3>2, Reckoning DEF Counts
  <2>9. stats' = Added(stats, e[p]) /\ stats \in Stats
    <3>1. e[p] = sample[p].on /\ ~(sample[p].on < 0) /\ (~stats.row => stats = NoStats)
      BY <1>9, <2>1, <2>4 DEF RowsFit
    <3> QED
      BY <1>2, <1>11, <2>1, <3>1 DEF Typed, LiveOK
  <2> QED
    BY <1>1, <1>11, <2>5, <2>6, <2>8, <2>9, CountsAdded DEF Counts
<1> HIDE DEF days
<1> QED
  BY <1>3, <1>7, <1>10, <1>11 DEF Accounts

\* Steps that leave the samples and the counters alone and no correction to write.
LEMMA OtherCounts ==
  ASSUME Typed, Accounts, NEW q \in Requests,
         \/ \E o \in Orders : ReadReceipt(q, o) \/ Revert(q, o)
         \/ WriteReceipt(q) \/ ReadSample(q) \/ UndoDelivery(q) \/ Restore(q)
         \/ Recalculate(q) \/ Expire(q) \/ (GiveUp(q) /\ req[q].step = "read")
  PROVE  Accounts'
<1>1. /\ UNCHANGED <<sample, stats, kept>>
      /\ \A p \in Requests \ {q} : req'[p] = req[p]
      /\ ~Refilling(q) /\ ~Unsettled(q) /\ ~Unsettled(q)'
  <2>1. ASSUME NEW o \in Orders, NEW op, NEW s \in {"read", "sample"}, Begin(q, op, o, s)
        PROVE  /\ UNCHANGED <<sample, stats, kept>> /\ req[q].step = "idle"
               /\ \A p \in Requests \ {q} : req'[p] = req[p]
               /\ req'[q].step \in {"read", "sample"}
    BY <2>1 DEF Begin, purged, At, Typed, LiveOK, Idle
  <2>2. CASE WriteReceipt(q)
    <3>1. Goto(q, "sample") \/ Goto(q, "insert")
      BY <2>2 DEF WriteReceipt
    <3>2. req'[q].step \in {"sample", "insert"} /\ \A p \in Requests \ {q} : req'[p] = req[p]
      BY <3>1, Moved
    <3> QED
      BY <2>2, <3>2 DEF WriteReceipt, purged, At, Refilling, Unsettled, Deleting
  <2>3. CASE ReadSample(q)
    <3>1. \/ req' = [req EXCEPT ![q].sample = sample[req[q].order], ![q].step = After(q)]
          \/ req' = [req EXCEPT ![q].sample = sample[req[q].order], ![q].step = "delete"]
      BY <2>3 DEF ReadSample
    <3>2. After(q) \in {"written", "restore"}
      BY DEF After
    <3>3. /\ req'[q].step \in {"written", "restore", "delete"}
          /\ \A p \in Requests \ {q} : req'[p] = req[p]
      BY <3>1, <3>2 DEF Typed, LiveOK, Request
    <3> QED
      BY <2>3, <3>3 DEF ReadSample, purged, At, Refilling, Unsettled, Deleting
  <2>4. CASE UndoDelivery(q)
    <3>1. req'[q].step \in {"sample", "restore"} /\ \A p \in Requests \ {q} : req'[p] = req[p]
      BY <2>4 DEF UndoDelivery, Typed, LiveOK, Request
    <3> QED
      BY <2>4, <3>1 DEF UndoDelivery, purged, At, Refilling, Unsettled, Deleting
  <2>5. CASE Restore(q)
    <3>1. req'[q].step = "wipe" /\ \A p \in Requests \ {q} : req'[p] = req[p]
      BY <2>5, Moved DEF Restore
    <3> QED
      BY <2>5, <3>1 DEF Restore, purged, At, Refilling, Unsettled, Deleting
  <2>6. CASE Recalculate(q) \/ Expire(q) \/ (GiveUp(q) /\ req[q].step = "read")
    <3>1. req[q].step \in {"idle", "written", "read"} /\ UNCHANGED <<sample, stats, kept>>
      BY <2>6 DEF Recalculate, Expire, GiveUp, purged, At
    <3>2. /\ req'[q].step \in {"idle", "wipe"}
          /\ \A p \in Requests \ {q} : req'[p] = req[p]
      BY <2>6 DEF Recalculate, Expire, GiveUp, Typed, LiveOK, Idle
    <3> QED
      BY <3>1, <3>2 DEF Refilling, Unsettled, Deleting
  <2>7. ASSUME NEW o \in Orders, ReadReceipt(q, o) \/ Revert(q, o)
        PROVE  \E op, s : s \in {"read", "sample"} /\ Begin(q, op, o, s)
    BY <2>7 DEF ReadReceipt, Revert
  <2>8. CASE \E o \in Orders : ReadReceipt(q, o) \/ Revert(q, o)
    <3>1. /\ UNCHANGED <<sample, stats, kept>> /\ req[q].step = "idle"
          /\ \A p \in Requests \ {q} : req'[p] = req[p]
          /\ req'[q].step \in {"read", "sample"}
      BY <2>1, <2>7, <2>8
    <3> QED
      BY <3>1 DEF Refilling, Unsettled, Deleting
  <2> QED
    BY <2>2, <2>3, <2>4, <2>5, <2>6, <2>8
<1> QED
  BY <1>1, SameCounts

\* While q recalculates there is nothing to account for.
LEMMA RecalculationCounts ==
  ASSUME Typed, NEW q \in Requests, Wipe(q) \/ ReadHistory(q)
  PROVE  Accounts'
<1>1. CASE Wipe(q)
  BY <1>1, Moved DEF Wipe, Accounts, Refilling
<1>2. CASE ReadHistory(q)
  <2>1. req'[q].step = "refill"
    BY <1>2 DEF ReadHistory, Typed, LiveOK, Request
  <2> QED
    BY <2>1 DEF Accounts, Refilling
<1> QED
  BY <1>1, <1>2

\* ReadStats: the counters are read, what they count stays.
LEMMA ReadStatsCounts ==
  ASSUME Typed, Accounts, NEW q \in Requests, ReadStats(q)
  PROVE  Accounts'
<1>0. PICK r \in Request : r = req[q]
  BY DEF Typed, LiveOK
<1>1. /\ r.step = "stats" /\ UNCHANGED <<sample, stats, kept>>
      /\ req' = [req EXCEPT ![q].step = "lower", ![q].stats = stats]
  BY <1>0 DEF ReadStats, purged, At
<1>2. /\ \A p \in Requests \ {q} : req'[p] = req[p]
      /\ req'[q].step = "lower" /\ req'[q].order = r.order /\ req'[q].sample = r.sample
      /\ req'[q].todo = r.todo
  BY <1>0, <1>1 DEF Typed, LiveOK, Request
<1>3. (\A p \in Requests : ~Refilling(p)') => \A p \in Requests : ~Refilling(p)
  BY <1>0, <1>1, <1>2 DEF Refilling
<1>4. Promotes(q)' <=> Promotes(q)
  BY <1>0, <1>1, <1>2 DEF Promotes
<1>5. \A x \in Orders : /\ (Silent(q, x)' <=> Silent(q, x)) /\ (Lingers(q, x)' <=> Lingers(q, x))
  BY <1>0, <1>1, <1>2, <1>4 DEF Silent, Lingers, Deleting
<1>6. ASSUME NEW c \in Dates, Counts(c) PROVE Counts(c)'
  <2>1. \A x \in Orders : Says(q, x, c[x])' /\ (Concerns(q, x)' <=> Concerns(q, x))
    BY <1>0, <1>2, <1>5, <1>6 DEF Counts, Reckons, Says, Concerns
  <2>2. Reckons(c)'
    BY <1>1, <1>2, <1>6, <2>1, Reckoning DEF Counts
  <2> QED
    BY <1>1, <1>6, <2>2, CountsKept DEF Counts
<1> QED
  BY <1>3, <1>6 DEF Accounts

\* A purged day leaves the orders with its first delivery and stays in the counters.
LEMMA PurgeCounts ==
  ASSUME Typed, KeptOK, RowsFit, Ledger, Accounts, NEW S \in SUBSET Orders, Purge(S), ~drift'
  PROVE  Accounts'
<1>1. /\ ~Splits(S) /\ UNCHANGED <<stats, req>>
      /\ \A x \in S : done[x] /\ \A y \in S : SameDay(x, y)
  BY DEF Purge
<1>2. PICK first \in S : /\ \A x \in S : on[first] <= on[x]
                         /\ kept' = [sum |-> kept.sum + on[first], count |-> kept.count + 1]
  BY DEF Purge
<1>3. /\ \A x \in Orders \ S : sample'[x] = sample[x]
      /\ \A x \in S : sample'[x] = NoSample
  BY DEF Purge
<1>4. ASSUME NEW x \in Orders, SameDay(first, x)
      PROVE  /\ \A q \in Requests : ~Concerns(q, x)
             /\ Fit(x) /\ sample'[x].on = 0 /\ (x \in S \/ ~done[x])
  <2>1. \A q \in Requests : SameDay(req[q].order, x) => req[q].step = "idle"
    BY <1>1, <1>4, OneDay DEF Splits, Typed, LiveOK, Request
  <2>2. \A q \in Requests : ~Concerns(q, x)
    BY <2>1, ConcernsDay DEF Unsettled, Deleting
  <2>3. \A q \in Requests : ~(Open(q) /\ req[q].order = x)
    BY <2>1, OneDay DEF Open, Deleting
  <2>4. Fit(x)
    BY <2>3 DEF Ledger, FitOrOpen
  <2>5. x \in S \/ ~done[x]
    BY <1>1, <1>4 DEF Splits
  <2>6. sample'[x].on = 0
    BY <1>3, <2>4, <2>5 DEF Fit, NoSample
  <2> QED
    BY <2>2, <2>4, <2>5, <2>6
<1>5. \A q \in Requests : ~Refilling(q) /\ ~Refilling(q)'
  BY <1>1 DEF Splits, Refilling
<1>6. PICK c \in Dates : Counts(c)
  BY <1>5 DEF Accounts
<1>7. ASSUME NEW x \in Orders, SameDay(first, x) PROVE c[x] = on[x] /\ (on[x] > 0 <=> done[x])
  <2>1. c[x] = sample[x].on
    BY <1>4, <1>6, <1>7 DEF Counts, Reckons
  <2> QED
    BY <1>4, <1>7, <2>1, FitDate
<1>8. first \in Orders /\ SameDay(first, first) /\ c[first] = on[first] /\ c[first] > 0
  BY <1>1, <1>7, OneDay
<1>9. PICK l \in Leaders(c) : SameDay(first, l) /\ c[l] <= c[first]
  BY <1>8, LeaderExists
<1>10. l \in Orders /\ c[l] = on[first]
  <2>1. l \in Orders /\ c[l] > 0
    BY <1>9 DEF Leaders
  <2>2. l \in S
    BY <1>4, <1>7, <1>9, <2>1
  <2>3. on[first] <= on[l] /\ on[l] = c[l] /\ on[l] \in Nat /\ on[first] \in Nat
    BY <1>2, <1>7, <1>8, <1>9, <2>1, <2>2 DEF Typed, LiveOK
  <2> QED
    BY <1>8, <1>9, <2>1, <2>3
<1>11. PICK e \in Dates : \A x \in Orders : e[x] = IF SameDay(l, x) THEN 0 ELSE c[x]
  <2>1. [x \in Orders |-> IF SameDay(l, x) THEN 0 ELSE c[x]] \in Dates
    BY DeliveryStatsAssumption DEF Dates
  <2> QED
    BY <2>1
<1>12. Days(c) = Days(e) + 1 /\ Weight(c) = Weight(e) + on[first]
  BY <1>10, <1>11, DayOut
<1>13. ASSUME NEW x \in Orders
       PROVE  /\ \A q \in Requests : Says(q, x, e[x])'
              /\ (\A q \in Requests : ~Concerns(q, x)') => e[x] = sample'[x].on
  <2>1. \A q \in Requests : /\ Concerns(q, x)' <=> Concerns(q, x)
                            /\ \A n : Says(q, x, n)' <=> Says(q, x, n)
    BY <1>1 DEF Concerns, Says, Silent, Lingers, Promotes
  <2>2. CASE SameDay(first, x)
    <3>1. e[x] = 0
      BY <1>8, <1>9, <1>10, <1>11, <2>2, OneDay
    <3>2. \A q \in Requests : Says(q, x, e[x])
      BY <1>4, <2>2, ConcernsDay
    <3> QED
      BY <1>4, <2>1, <2>2, <3>1, <3>2
  <2>3. CASE ~SameDay(first, x)
    <3>1. e[x] = c[x] /\ x \notin S
      BY <1>1, <1>8, <1>9, <1>10, <1>11, <2>3, OneDay
    <3>2. \A q \in Requests : Says(q, x, e[x])
      BY <1>6, <3>1 DEF Counts, Reckons
    <3>3. (\A q \in Requests : ~Concerns(q, x)) => e[x] = sample[x].on
      BY <1>6, <3>1 DEF Counts, Reckons
    <3> QED
      BY <1>3, <2>1, <3>1, <3>2, <3>3
  <2> QED
    BY <2>2, <2>3
<1>14. Reckons(e)'
  BY <1>13 DEF Reckons
<1>15. stats'.sum = Weight(e) + kept'.sum /\ stats'.count = Days(e) + kept'.count
  <2>1. /\ Days(e) \in Nat /\ Weight(e) \in Nat /\ on[first] \in Nat
        /\ kept.sum \in Nat /\ kept.count \in Nat
    BY TotalType DEF Days, Weight, Leaders, KeptOK, PurgedOK, Typed, LiveOK
  <2>2. stats'.sum = Weight(c) + kept.sum /\ stats'.count = Days(c) + kept.count
    BY <1>1, <1>6 DEF Counts, Tallies
  <2>3. kept'.sum = kept.sum + on[first] /\ kept'.count = kept.count + 1
    BY <1>2
  <2> QED
    BY <1>12, <2>1, <2>2, <2>3
<1>16. Counts(e)'
  BY <1>14, <1>15 DEF Counts, Tallies, Weight, Days, Leaders, Ahead, Total
<1> QED
  BY <1>16 DEF Accounts

LEMMA CountsStep ==
  ASSUME Typed, KeptOK, RowsFit, ~drift => Ledger /\ Accounts, [Next]_vars
  PROVE  ~drift' => Accounts'
<1> SUFFICES ASSUME ~drift' PROVE Accounts'
  OBVIOUS
<1>1. CASE UNCHANGED <<req, sample, stats, kept, drift>>
  <2>1. \A c \in Dates : Counts(c) => Counts(c)'
    BY <1>1 DEF Counts, Tallies, Weight, Days, Leaders, Ahead, Total, Reckons, Concerns, Says, Silent,
         Lingers, Promotes
  <2>2. \A q \in Requests : Refilling(q)' <=> Refilling(q)
    BY <1>1 DEF Refilling
  <2>3. Accounts
    BY <1>1
  <2> QED
    BY <2>1, <2>2, <2>3 DEF Accounts
<1>2. ASSUME NEW q \in Requests, Receipt(q), Ledger, Accounts PROVE Accounts'
  <2>0. ~InsertFails(q) /\ ~CheckFails(q) /\ ~IncrementFails(q)
    BY DEF InsertFails, CheckFails, IncrementFails
  <2>1. CASE \E o \in Orders : ReadReceipt(q, o)
    BY <1>2, <2>1, OtherCounts
  <2>2. CASE WriteReceipt(q)
    BY <1>2, <2>2, OtherCounts
  <2> QED
    BY <1>2, <2>0, <2>1, <2>2, InsertSampleCounts, CheckSiblingsCounts, IncrementCounts DEF Receipt
<1>3. ASSUME NEW q \in Requests, SoftDelete(q), Ledger, Accounts PROVE Accounts'
  <2>1. ~SampleFails(q) /\ ~FindAmongOrphans(q) /\ ~SiblingsFail(q)
    BY DEF SampleFails, FindAmongOrphans, SiblingsFail
  <2>2. CASE ReadSample(q)
    BY <1>3, <2>2, OtherCounts
  <2> QED
    BY <1>3, <2>1, <2>2, DeleteSampleCounts, FindWinnerCounts, ReadStatsCounts, WriteStatsCounts
       DEF SoftDelete
<1>4. ASSUME NEW q \in Requests, Reset(q), Ledger, Accounts PROVE Accounts'
  <2>1. CASE \E o \in Orders : Revert(q, o)
    BY <1>4, <2>1, OtherCounts
  <2>2. CASE UndoDelivery(q) \/ Restore(q)
    BY <1>4, <2>2, OtherCounts
  <2> QED
    BY <1>4, <2>1, <2>2 DEF Reset
<1>5. ASSUME NEW q \in Requests, Recalculation(q) \/ Expire(q) \/ GiveUp(q), Ledger, Accounts
      PROVE  Accounts'
  <2>1. GiveUp(q) => req[q].step = "read"
    BY DEF GiveUp
  <2>2. CASE Recalculate(q) \/ Expire(q) \/ GiveUp(q)
    BY <1>5, <2>1, <2>2, OtherCounts
  <2> QED
    BY <1>5, <2>2, RecalculationCounts, RefillCounts DEF Recalculation
<1>6. ASSUME NEW q \in Requests,
             \/ Receipt(q) \/ SoftDelete(q) \/ Reset(q) \/ Recalculation(q)
             \/ Expire(q) \/ GiveUp(q)
      PROVE  ~drift
  <2>1. ASSUME NEW o \in Orders, ReadReceipt(q, o) \/ Revert(q, o) PROVE ~drift
    BY <2>1 DEF ReadReceipt, Revert, Begin
  <2>2. CASE \/ WriteReceipt(q) \/ InsertSample(q) \/ CheckSiblings(q) \/ Increment(q)
    BY <2>2 DEF WriteReceipt, InsertSample, CheckSiblings, Increment, Disturb
  <2>3. CASE ReadSample(q) \/ DeleteSample(q) \/ FindWinner(q) \/ ReadStats(q)
    BY <2>3 DEF ReadSample, DeleteSample, FindWinner, ReadStats, Disturb
  <2>4. CASE WriteStats(q)
    BY <2>4 DEF WriteStats, Disturb
  <2>5. CASE UndoDelivery(q) \/ Restore(q)
    BY <2>5 DEF UndoDelivery, Restore
  <2>6. CASE Recalculation(q) \/ Expire(q) \/ GiveUp(q)
    BY <2>6 DEF Recalculation, Recalculate, Wipe, ReadHistory, Refill, Expire, GiveUp, Disturb
  <2>7. /\ ~SampleFails(q) /\ ~FindAmongOrphans(q) /\ ~SiblingsFail(q)
        /\ ~InsertFails(q) /\ ~CheckFails(q) /\ ~IncrementFails(q)
    BY DEF SampleFails, FindAmongOrphans, SiblingsFail, InsertFails, CheckFails, IncrementFails
  <2> QED
    BY <1>6, <2>1, <2>2, <2>3, <2>4, <2>5, <2>6, <2>7 DEF Receipt, SoftDelete, Reset
<1>7. CASE Tick \/ UNCHANGED vars
  BY <1>1, <1>7 DEF Tick, vars, purged
<1>8. ASSUME NEW S \in SUBSET Orders, Purge(S) PROVE Accounts'
  BY <1>8, PurgeCounts DEF Purge
<1> QED
  BY <1>2, <1>3, <1>4, <1>5, <1>6, <1>7, <1>8 DEF Next

LEMMA CountsHold == Spec => [](~drift => Accounts)
<1>1. Init => Accounts
  <2> SUFFICES ASSUME Init PROVE Accounts
    OBVIOUS
  <2>1. PICK c \in Dates : \A x \in Orders : c[x] = 0
    <3>1. [x \in Orders |-> 0] \in Dates
      BY DeliveryStatsAssumption DEF Dates
    <3> QED
      BY <3>1
  <2>2. \A q \in Requests : req[q].step = "idle"
    BY DEF Init, Idle
  <2>3. \A x \in Orders : sample[x].on = 0
    BY DEF Init, NoSample
  <2>4. Reckons(c)
    BY <2>1, <2>2, <2>3 DEF Reckons, Says, Concerns, Silent, Lingers, Promotes, Deleting
  <2>5. Leaders(c) = {}
    BY <2>1 DEF Leaders
  <2>6. Days(c) = 0 /\ Weight(c) = 0
    BY <2>5, TotalType, FS_EmptySet DEF Days, Weight
  <2>7. stats.sum = 0 /\ stats.count = 0 /\ kept.sum = 0 /\ kept.count = 0
    BY DEF Init, NoStats, NoDays
  <2> QED
    BY <2>4, <2>6, <2>7 DEF Accounts, Counts, Tallies
<1> QED
  BY <1>1, CountsStep, LedgerHolds, TypedHolds, RowsFitHolds, PTL DEF Spec

\* When nobody works and nothing has drifted, the counters are what a recalculation
\* from all orders would yield and the days purged since the last one: statement by
\* statement, receipts and corrections have added and taken out each day once, with the
\* date of its first delivery.
THEOREM CountersKept == Spec => []CountersFit
<1>1. Typed /\ RowsFit /\ (~drift => Ledger /\ Accounts) => CountersFit
  <2> SUFFICES ASSUME Typed, RowsFit, Ledger, Accounts, Quiet
               PROVE  /\ stats.sum = Aggregate.sum + kept.sum
                      /\ stats.count = Aggregate.count + kept.count
    BY DEF CountersFit
  <2>1. \A q \in Requests : ~Open(q) /\ ~Refilling(q) /\ ~Unsettled(q)
    BY DEF Quiet, Working, Open, Refilling, Unsettled, Deleting
  <2>2. PICK c \in Dates : Counts(c)
    BY <2>1 DEF Accounts
  <2>3. ASSUME NEW x \in Orders PROVE c[x] = on[x]
    <3>1. Fit(x)
      BY <2>1 DEF Ledger, FitOrOpen
    <3>2. c[x] = sample[x].on
      BY <2>1, <2>2, ConcernsDay DEF Counts, Reckons
    <3> QED
      BY <3>1, <3>2, FitDate
  <2>4. c = on
    BY <2>3 DEF Dates, Typed, LiveOK
  <2> QED
    BY <2>2, <2>4, WinnersLead DEF Counts, Tallies
<1> QED
  BY <1>1, LedgerHolds, CountsHold, TypedHolds, RowsFitHolds, PTL

=============================================================================
