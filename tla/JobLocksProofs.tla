--------------------------- MODULE JobLocksProofs ---------------------------
(***************************************************************************)
(* Proofs about JobLocks for any sets of jobs, keys and TTLs: type         *)
(* correctness, mutual exclusion until somebody overruns its TTL and again *)
(* after, and the refinement of ExclusiveSection by every key.             *)
(***************************************************************************)
EXTENDS JobLocks, TLAPS

LEMMA TypeInit == Init => TypeOK
BY DEF Init, TypeOK

LEMMA TypeStep == TypeOK /\ [Next]_vars => TypeOK'
<1> SUFFICES ASSUME TypeOK, [Next]_vars PROVE TypeOK'
  OBVIOUS
<1> USE DEF TypeOK
<1>1. ASSUME NEW j \in Jobs, NEW k \in Keys, NEW ttl \in Ttls, TryAcquireLock(j, k, ttl)
      PROVE  TypeOK'
  BY <1>1, TtlAssumption, NoKeyAssumption DEF TryAcquireLock
<1>2. ASSUME NEW j \in Jobs, ReleaseLock(j) PROVE TypeOK'
  BY <1>2 DEF ReleaseLock, Gone
<1>3. ASSUME NEW j \in Jobs, Crash(j) PROVE TypeOK'
  BY <1>3 DEF Crash, Gone
<1>4. CASE Tick
  BY <1>4 DEF Tick, Older
<1>5. CASE UNCHANGED vars
  BY <1>5 DEF vars
<1> QED
  BY <1>1, <1>2, <1>3, <1>4, <1>5 DEF Next

\* Every reachable state is well typed, and a job without a key has no time left.
THEOREM TypeCorrect == Spec => []TypeOK
<1> QED
  BY TypeInit, TypeStep, PTL DEF Spec

-----------------------------------------------------------------------------
\* While a job works under a key nobody has overrun, the row is its own: it carries
\* exactly the ticks that the job has left, so that no other job can take it.
OwnRow ==
  \A j \in Jobs :
    (key[j] # NoKey /\ key[j] \notin overrun) => lease[j] >= 0 /\ row[key[j]] = lease[j]

\* An overrun is remembered only as long as somebody works under the key.
OverrunIsInhabited == \A k \in overrun : \E j \in Jobs : key[j] = k

IInv == OwnRow /\ OverrunIsInhabited /\ MutualExclusion

\* A key is taken only when nobody works under it, or after an overrun.
LEMMA TakenWhenEmpty ==
  ASSUME TypeOK, IInv, NEW j \in Jobs, NEW k \in Keys, NEW ttl \in Ttls,
         TryAcquireLock(j, k, ttl), k \notin overrun
  PROVE  \A i \in Jobs : key[i] # k
BY NoRowAssumption, NoKeyAssumption DEF TryAcquireLock, Takeable, IInv, OwnRow, TypeOK

\* A job that goes leaves every other job, and every other key, as they are.
LEMMA GoneAlone ==
  ASSUME TypeOK, NEW j \in Jobs, Gone(j)
  PROVE  /\ key[j] \in Keys
         /\ \A i \in Jobs : key'[i] = IF i = j THEN NoKey ELSE key[i]
         /\ \A i \in Jobs \ {j} : lease'[i] = lease[i]
         /\ overrun' \subseteq overrun
         /\ \A k \in overrun \ overrun' : k = key[j] /\ \A i \in Jobs \ {j} : key[i] # k
         /\ \A k \in overrun' : k # key[j] \/ \E i \in Jobs \ {j} : key[i] = k
BY DEF Gone, Emptied, TypeOK

\* The inductive step.
LEMMA IInvStep ==
  ASSUME TypeOK, IInv, [Next]_vars
  PROVE  IInv'
<1> USE DEF IInv
<1>1. ASSUME NEW j \in Jobs, NEW k \in Keys, NEW ttl \in Ttls, TryAcquireLock(j, k, ttl)
      PROVE  IInv'
  <2>1. k \in overrun \/ \A i \in Jobs : key[i] # k
    BY <1>1, TakenWhenEmpty
  <2>2. ttl \in Int /\ ttl >= 0
    BY TtlAssumption
  <2>3. OwnRow'
    BY <1>1, <2>1, <2>2 DEF TryAcquireLock, OwnRow, TypeOK
  <2>4. OverrunIsInhabited'
    BY <1>1, NoKeyAssumption DEF TryAcquireLock, OverrunIsInhabited, TypeOK
  <2>5. MutualExclusion'
    BY <1>1, <2>1 DEF TryAcquireLock, MutualExclusion, TypeOK
  <2> QED
    BY <2>3, <2>4, <2>5
<1>2. ASSUME NEW j \in Jobs, Gone(j),
             \A k \in Keys \ {key[j]} : row'[k] = row[k],
             UNCHANGED row \/ \A i \in Jobs \ {j} : key[i] = key[j] => key[j] \in overrun
      PROVE  IInv'
  <2>1. OwnRow'
    BY <1>2, GoneAlone, NoKeyAssumption DEF OwnRow, MutualExclusion, TypeOK
  <2>2. OverrunIsInhabited'
    BY <1>2, GoneAlone, NoKeyAssumption DEF OverrunIsInhabited, TypeOK
  <2>3. MutualExclusion'
    BY <1>2, GoneAlone DEF MutualExclusion, TypeOK
  <2> QED
    BY <2>1, <2>2, <2>3
<1>3. ASSUME NEW j \in Jobs, ReleaseLock(j) PROVE IInv'
  <2>1. \A i \in Jobs \ {j} : key[i] = key[j] => key[j] \in overrun
    BY <1>3 DEF ReleaseLock, Gone, MutualExclusion
  <2>2. \A k \in Keys \ {key[j]} : row'[k] = row[k]
    BY <1>3 DEF ReleaseLock, TypeOK
  <2> QED
    BY <1>2, <1>3, <2>1, <2>2 DEF ReleaseLock
<1>4. ASSUME NEW j \in Jobs, Crash(j) PROVE IInv'
  BY <1>2, <1>4 DEF Crash
<1>5. CASE Tick
  <2>1. OwnRow'
    <3> SUFFICES ASSUME NEW j \in Jobs, key[j] # NoKey, key[j] \notin overrun'
                 PROVE  lease'[j] >= 0 /\ row'[key[j]] = lease'[j]
      BY <1>5 DEF Tick, OwnRow
    <3>1. key[j] \in Keys /\ key[j] \notin overrun /\ lease[j] > 0
      BY <1>5 DEF Tick, TypeOK
    <3>2. row[key[j]] = lease[j] /\ row[key[j]] # NoRow
      BY <3>1, NoRowAssumption DEF OwnRow, TypeOK
    <3> QED
      BY <1>5, <3>1, <3>2 DEF Tick, Older, TypeOK
  <2>2. OverrunIsInhabited'
    BY <1>5 DEF Tick, OverrunIsInhabited
  <2>3. MutualExclusion'
    BY <1>5 DEF Tick, MutualExclusion
  <2> QED
    BY <2>1, <2>2, <2>3
<1>6. CASE UNCHANGED vars
  BY <1>6 DEF vars, OwnRow, OverrunIsInhabited, MutualExclusion
<1> QED
  BY <1>1, <1>3, <1>4, <1>5, <1>6 DEF Next

LEMMA IInvHolds == Spec => []IInv
<1>1. Init => IInv
  BY DEF Init, IInv, OwnRow, OverrunIsInhabited, MutualExclusion
<1>2. TypeOK /\ IInv /\ [Next]_vars => IInv'
  BY IInvStep
<1> QED
  BY <1>1, <1>2, TypeCorrect, PTL DEF Spec

\* Two jobs never work under the same key at once unless one of them, or one they
\* joined, has overrun its TTL: for any number of jobs and keys, crashes included.
THEOREM MutualExclusionHolds == Spec => []MutualExclusion
<1>1. IInv => MutualExclusion
  BY DEF IInv
<1> QED
  BY <1>1, IInvHolds, PTL

\* Every behaviour of the lock table is, for every key, one of ExclusiveSection:
\* acquiring enters, releasing or dying leaves, an overrun ends the stay.
THEOREM SectionsImplemented == Spec => SectionSpec
<1>1. Init => \A k \in Keys : Section(k)!Init
  BY NoKeyAssumption DEF Init, Section!Init, Inside
<1>2. TypeOK /\ IInv /\ IInv' /\ [Next]_vars
        => [\A k \in Keys : [Section(k)!Next]_(Inside(k))]_vars
  <2> SUFFICES ASSUME TypeOK, IInv, IInv', [Next]_vars, NEW k \in Keys
               PROVE  [Section(k)!Next]_(Inside(k))
    OBVIOUS
  <2>1. ASSUME NEW j \in Jobs, NEW l \in Keys, NEW ttl \in Ttls, TryAcquireLock(j, l, ttl)
        PROVE  Inside(k)' = Inside(k) \/ (Inside(k) = {} /\ Inside(k)' = {j})
    <3>1. CASE k = l /\ k \notin overrun
      BY <2>1, <3>1, TakenWhenEmpty DEF TryAcquireLock, Inside, TypeOK
    <3>2. CASE k # l \/ k \in overrun
      BY <2>1, <3>2, NoKeyAssumption DEF TryAcquireLock, Inside, TypeOK
    <3> QED
      BY <3>1, <3>2
  <2>2. ASSUME NEW j \in Jobs, Gone(j)
        PROVE  Inside(k)' = Inside(k) \/ (j \in Inside(k) /\ Inside(k)' = Inside(k) \ {j})
    <3>1. CASE k = key[j] /\ k \notin overrun
      BY <2>2, <3>1, GoneAlone, NoKeyAssumption DEF Inside
    <3>2. CASE k # key[j]
      BY <2>2, <3>2, GoneAlone, NoKeyAssumption DEF Inside
    <3>3. CASE k = key[j] /\ k \in overrun
      BY <2>2, <3>3, GoneAlone, NoKeyAssumption DEF Inside
    <3> QED
      BY <3>1, <3>2, <3>3
  <2>3. CASE Tick
    <3>1. CASE k \in overrun' /\ Inside(k) # {}
      <4>1. PICK j \in Jobs : j \in Inside(k)
        BY <3>1 DEF Inside
      <4>2. Inside(k) = {j} /\ Inside(k)' = {}
        BY <4>1, <3>1, NoKeyAssumption DEF Inside, IInv, MutualExclusion
      <4> QED
        BY <4>1, <4>2 DEF Section!Next, Section!Leave
    <3>2. CASE k \notin overrun' \/ Inside(k) = {}
      BY <2>3, <3>2 DEF Tick, Inside
    <3> QED
      BY <3>1, <3>2
  <2>4. CASE UNCHANGED vars
    BY <2>4 DEF vars, Inside
  <2>5. ASSUME NEW j \in Jobs, ReleaseLock(j) \/ Crash(j)
        PROVE  [Section(k)!Next]_(Inside(k))
    BY <2>2, <2>5 DEF ReleaseLock, Crash, Section!Next, Section!Leave
  <2>6. ASSUME NEW j \in Jobs, NEW l \in Keys, NEW ttl \in Ttls, TryAcquireLock(j, l, ttl)
        PROVE  [Section(k)!Next]_(Inside(k))
    BY <2>1, <2>6 DEF Section!Next, Section!Enter
  <2> QED
    BY <2>3, <2>4, <2>5, <2>6 DEF Next
<1> QED
  BY <1>1, <1>2, TypeCorrect, IInvHolds, PTL DEF Spec, SectionSpec
=============================================================================
