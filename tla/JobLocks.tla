------------------------------ MODULE JobLocks ------------------------------
(***************************************************************************)
(* src/lib/services/locks.ts and the SQL function try_acquire_job_lock of  *)
(* migration 013: the table job_locks, one row per key with an expiry      *)
(* time, used by every cron step and by the server actions that must not   *)
(* run twice at once.                                                      *)
(*                                                                         *)
(* Time is relative: a row and a running job carry the ticks left of the   *)
(* TTL that was asked for.  -1 means that the TTL has passed.  The         *)
(* fallback for a database without migration 013 is not modelled.          *)
(***************************************************************************)
EXTENDS Integers

CONSTANTS
  Jobs,       \* processes that take locks (cron runs, server actions)
  Keys,       \* values of job_locks.key
  Ttls,       \* the ttlSeconds the callers pass, in ticks
  NoRow,      \* the key has no row in job_locks
  NoKey       \* a job that holds no key

ASSUME TtlAssumption == Ttls \subseteq Nat \ {0}
ASSUME NoRowAssumption == NoRow \notin Int
ASSUME NoKeyAssumption == NoKey \notin Keys

VARIABLES
  row,        \* job_locks: for each key NoRow or the ticks to locked_until
  key,        \* the key a job works under, believing that it holds it
  lease,      \* ticks left of the TTL the job asked for (-1: none)
  overrun     \* history: keys under which somebody has worked longer than
              \* the TTL and which have not been empty since

vars == <<row, key, lease, overrun>>

TypeOK ==
  /\ row \in [Keys -> {NoRow} \cup Int]
  /\ key \in [Jobs -> Keys \cup {NoKey}]
  /\ lease \in [Jobs -> Int]
  /\ overrun \subseteq Keys
  /\ \A j \in Jobs : key[j] = NoKey => lease[j] = -1

Init ==
  /\ row = [k \in Keys |-> NoRow]
  /\ key = [j \in Jobs |-> NoKey]
  /\ lease = [j \in Jobs |-> -1]
  /\ overrun = {}

-----------------------------------------------------------------------------
\* Mutant: ON CONFLICT DO NOTHING, so an expired row blocks for ever.
TakeableOnlyWhenAbsent(r) == r = NoRow

\* Mutant: the WHERE clause of the upsert is dropped.
TakeableAlways(r) == TRUE

\* INSERT, or ON CONFLICT (key) DO UPDATE ... WHERE locked_until < now().
Takeable(r) == r = NoRow \/ (r # NoRow /\ r < 0)

\* One statement in the database.  A refused caller, and one whose call fails,
\* changes nothing; the others start their work.
TryAcquireLock(j, k, ttl) ==
  /\ key[j] = NoKey
  /\ Takeable(row[k])
  /\ row' = [row EXCEPT ![k] = ttl]
  /\ key' = [key EXCEPT ![j] = k]
  /\ lease' = [lease EXCEPT ![j] = ttl]
  /\ UNCHANGED overrun

\* A job that leaves the last one of its key makes up for an overrun.
Emptied(j) == {k \in Keys : k = key[j] /\ \A i \in Jobs \ {j} : key[i] # k}

\* The job is over or gone: it holds nothing (the table is another matter).
Gone(j) ==
  /\ key[j] # NoKey
  /\ key' = [key EXCEPT ![j] = NoKey]
  /\ lease' = [lease EXCEPT ![j] = -1]
  /\ overrun' = overrun \ Emptied(j)

\* finally { releaseLock(key) }: deletes the row of the key, whoever owns it.
ReleaseLock(j) ==
  /\ Gone(j)
  /\ row' = [row EXCEPT ![key[j]] = NoRow]

\* The process dies, or its release fails: the row stays until it expires.
Crash(j) ==
  /\ Gone(j)
  /\ UNCHANGED row

Older(t) == IF t >= 0 THEN t - 1 ELSE t

\* A tick passes.  Nothing stops a job whose TTL is over.
Tick ==
  /\ row' = [k \in Keys |-> IF row[k] = NoRow THEN NoRow ELSE Older(row[k])]
  /\ lease' = [j \in Jobs |-> Older(lease[j])]
  /\ overrun' = overrun \cup {k \in Keys : \E j \in Jobs : key[j] = k /\ lease[j] <= 0}
  /\ UNCHANGED key

Next ==
  \/ \E j \in Jobs :
       \/ \E k \in Keys, ttl \in Ttls : TryAcquireLock(j, k, ttl)
       \/ ReleaseLock(j)
       \/ Crash(j)
  \/ Tick

Spec == Init /\ [][Next]_vars

\* Time passes and running code reaches its finally block or dies.
Fairness == WF_vars(Tick) /\ \A j \in Jobs : WF_vars(ReleaseLock(j))

FairSpec == Spec /\ Fairness

-----------------------------------------------------------------------------
\* Those who work under a key, in an order that has not been upset.
Inside(k) == {j \in Jobs : key[j] = k /\ k \notin overrun}

\* Two jobs work under the same key at once only after one of them, or one they
\* joined, has overrun its TTL: what every caller of tryAcquireLock relies on.  And
\* the exclusion is back as soon as the key has been empty.
MutualExclusion ==
  \A i, j \in Jobs :
    (key[i] = key[j] /\ key[i] # NoKey /\ key[i] \notin overrun) => i = j

\* A lock whose holder died without releasing it can be taken again later: no key
\* is lost for good (the reason job_locks rows carry locked_until).
AlwaysTakeableAgain == \A k \in Keys : []<>Takeable(row[k])

\* Each key is an exclusive section of its own, entered and left one job at a
\* time, whatever happens under other keys; an overrun ends one's stay.
Section(k) == INSTANCE ExclusiveSection WITH inside <- Inside(k)
SectionSpec ==
  /\ \A k \in Keys : Section(k)!Init
  /\ [][\A k \in Keys : [Section(k)!Next]_(Inside(k))]_vars
=============================================================================
