------------------------ MODULE DeliveryNoticesProofs ------------------------
(***************************************************************************)
(* Proofs about DeliveryNotices for any numbers of notices and flushes and *)
(* any undo window: type correctness, and the safety properties.           *)
(***************************************************************************)
EXTENDS DeliveryNotices, TLAPS

LEMMA TypeStep == TypeOK /\ [Next]_vars => TypeOK'
<1> SUFFICES ASSUME TypeOK, [Next]_vars PROVE TypeOK'
  OBVIOUS
<1> USE DEF TypeOK, Held, table, undos, flushes, history
<1>1. ASSUME NEW n \in Notices,
             Receive(n) \/ Reply(n) \/ UndoDelivery(n) \/ RevertToPending(n)
      PROVE  TypeOK'
  BY <1>1, WindowAssumption DEF Receive, Reply, UndoDelivery, RevertToPending, Cancel
<1>2. ASSUME NEW f \in Flushes, NEW ids \in SUBSET Notices, StartFlush(f, ids)
      PROVE  TypeOK'
  BY <1>2 DEF StartFlush, Idle, Due
<1>3. ASSUME NEW f \in Flushes, NEW n \in Notices, Mail(f, n)
      PROVE  TypeOK'
  BY <1>3 DEF Mail, DealtWith, ToBeMarked, Tell
<1>4. ASSUME NEW f \in Flushes, NEW n \in Notices, MailFails(f, n)
      PROVE  TypeOK'
  BY <1>4 DEF MailFails, DealtWith, ToBeMarked, Tell
<1>5. ASSUME NEW f \in Flushes, NEW n \in Notices,
             SettleWithoutMail(f, n) \/ ReadFails(f, n)
      PROVE  TypeOK'
  BY <1>5 DEF SettleWithoutMail, ReadFails, DealtWith, ToBeMarked
<1>6. ASSUME NEW f \in Flushes, MarkSent(f) PROVE TypeOK'
  BY <1>6 DEF MarkSent
<1>7. ASSUME NEW f \in Flushes, Crash(f) PROVE TypeOK'
  BY <1>7 DEF Crash
<1>8. CASE Tick
  BY <1>8, WindowAssumption DEF Tick
<1>9. CASE UNCHANGED vars
  BY <1>9 DEF vars
<1> QED
  BY <1>1, <1>2, <1>3, <1>4, <1>5, <1>6, <1>7, <1>8, <1>9 DEF Next, Step

\* Every reachable state is well typed: a flush never holds a notice that is not due,
\* nor one in two places.
THEOREM TypeCorrect == Spec => []TypeOK
<1>1. Init => TypeOK
  BY WindowAssumption DEF Init, TypeOK, Held
<1> QED
  BY <1>1, TypeStep, PTL DEF Spec

-----------------------------------------------------------------------------
\* Nobody hears of a notice before it is due.
UntoldBeforeDue == \A n \in Notices : sendIn[n] > 0 => told[n] = "nothing"

\* What a flush is about to mark has been mailed, or looked as if it had no addressee.
MarkedIsTold == \A f \in Flushes : \A n \in toMark[f] : told[n] # "nothing"

\* Nobody hears of what is not in the queue.
UnqueuedIsUntold == \A n \in Notices : queue[n] = "none" => told[n] = "nothing"

TellingInv == UntoldBeforeDue /\ UnqueuedIsUntold /\ MarkedIsTold /\ SentIsMailed

LEMMA TellingStep == TypeOK /\ TellingInv /\ [Next]_vars => TellingInv'
<1> SUFFICES ASSUME TypeOK, TellingInv, [Next]_vars PROVE TellingInv'
  OBVIOUS
<1> USE DEF TellingInv, UntoldBeforeDue, UnqueuedIsUntold, MarkedIsTold, SentIsMailed,
            table, undos, flushes, history
<1>1. ASSUME NEW n \in Notices,
             Receive(n) \/ Reply(n) \/ UndoDelivery(n) \/ RevertToPending(n)
      PROVE  TellingInv'
  BY <1>1 DEF Receive, Reply, UndoDelivery, RevertToPending, Cancel, TypeOK
<1>2. ASSUME NEW f \in Flushes, NEW ids \in SUBSET Notices, StartFlush(f, ids)
      PROVE  TellingInv'
  BY <1>2 DEF StartFlush
<1>3. ASSUME NEW f \in Flushes, NEW n \in Notices, DealtWith(f, n),
             UNCHANGED <<queue, sendIn>>,
             \A m \in Notices \ {n} : told'[m] = told[m],
             told[n] # "nothing" => told'[n] # "nothing",
             \/ UNCHANGED toMark
             \/ told'[n] # "nothing" /\ toMark' = [toMark EXCEPT ![f] = @ \cup {n}]
      PROVE  TellingInv'
  <2>1. sendIn[n] = 0 /\ queue[n] # "none"
    BY <1>3 DEF DealtWith, TypeOK, Held
  <2> QED
    BY <1>3, <2>1 DEF TypeOK
<1>4. ASSUME NEW f \in Flushes, NEW n \in Notices,
             Mail(f, n) \/ MailFails(f, n) \/ SettleWithoutMail(f, n) \/ ReadFails(f, n)
      PROVE  TellingInv'
  <2>1. CASE Mail(f, n)
    BY <1>3, <2>1 DEF Mail, ToBeMarked, Tell, TypeOK
  <2>2. CASE MailFails(f, n)
    BY <1>3, <2>2 DEF MailFails, Tell, TypeOK
  <2>3. CASE SettleWithoutMail(f, n)
    BY <1>3, <2>3 DEF SettleWithoutMail, ToBeMarked, TypeOK
  <2>4. CASE ReadFails(f, n)
    BY <1>3, <2>4 DEF ReadFails, ToBeMarked, TypeOK
  <2> QED
    BY <1>4, <2>1, <2>2, <2>3, <2>4
<1>5. ASSUME NEW f \in Flushes, MarkSent(f) PROVE TellingInv'
  BY <1>5 DEF MarkSent, TypeOK
<1>6. ASSUME NEW f \in Flushes, Crash(f) PROVE TellingInv'
  BY <1>6 DEF Crash, TypeOK
<1>7. CASE Tick
  BY <1>7 DEF Tick, TypeOK
<1>8. CASE UNCHANGED vars
  BY <1>8 DEF vars
<1> QED
  BY <1>1, <1>2, <1>4, <1>5, <1>6, <1>7, <1>8 DEF Next, Step

LEMMA TellingHolds == Spec => []TellingInv
<1>1. Init => TellingInv
  BY WindowAssumption
  DEF Init, TellingInv, UntoldBeforeDue, UnqueuedIsUntold, MarkedIsTold, SentIsMailed
<1> QED
  BY <1>1, TellingStep, TypeCorrect, PTL DEF Spec

\* A receipt that is undone, or reverted, before its notice was due is never heard of,
\* however many flushes are on their way.
THEOREM CancelledInTime == Spec => []CancelledInTimeIsNotMailed
<1>1. TellingInv => CancelledInTimeIsNotMailed
  BY DEF TellingInv, UntoldBeforeDue, CancelledInTimeIsNotMailed
<1> QED
  BY <1>1, TellingHolds, PTL

\* A refused mail leaves its notice in the queue, under crashes and overlapping
\* flushes: sent is what was mailed, what had nobody to be mailed to, and what a failed
\* read made look like that.
THEOREM MarkedOnlyWhenMailed == Spec => []SentIsMailed
<1>1. TellingInv => SentIsMailed
  BY DEF TellingInv
<1> QED
  BY <1>1, TellingHolds, PTL

-----------------------------------------------------------------------------
\* Two flushes hold the same notice only in doubt.
HeldOnce ==
  \A n \in Notices \ doubtful : \A f, g \in Flushes :
    (n \in Held(f) /\ n \in Held(g)) => f = g

\* A notice mailed without doubt is not about to be mailed again; and as long as the
\* queue has it as pending, the flush that mailed it is still there to mark it.
MailedIsBeingMarked ==
  \A n \in Notices \ doubtful : told[n] = "once" =>
    /\ \A f \in Flushes : n \notin batch[f]
    /\ queue[n] = "pending" => \E f \in Flushes : n \in toMark[f]

DoubtInv == HeldOnce /\ MailedIsBeingMarked /\ MailedTwiceOnlyInDoubt

\* A flush has dealt with one notice, in any of the four ways.
LEMMA DoubtAfterOne ==
  ASSUME TypeOK, DoubtInv, NEW f \in Flushes, NEW n \in Notices,
         Mail(f, n) \/ MailFails(f, n) \/ SettleWithoutMail(f, n) \/ ReadFails(f, n)
  PROVE  DoubtInv'
<1> USE DEF table, undos, flushes, history
<1>1. n \in batch[f] /\ batch' = [batch EXCEPT ![f] = @ \ {n}] /\ UNCHANGED queue
  BY DEF Mail, MailFails, SettleWithoutMail, ReadFails, DealtWith
<1>2. /\ \A m \in Notices \ {n} : told'[m] = told[m]
      /\ doubtful \subseteq doubtful' /\ doubtful' \subseteq doubtful \cup {n}
  BY DEF Mail, MailFails, SettleWithoutMail, ReadFails, ToBeMarked, Tell, TypeOK
<1>3. toMark' = toMark \/ toMark' = [toMark EXCEPT ![f] = @ \cup {n}]
  BY DEF Mail, MailFails, SettleWithoutMail, ReadFails, ToBeMarked
<1>4. \A g \in Flushes : Held(g)' \subseteq Held(g)
  BY <1>1, <1>3 DEF Held, TypeOK
<1>5. HeldOnce'
  BY <1>2, <1>4 DEF DoubtInv, HeldOnce, TypeOK
<1>6. n \in doubtful \/ told[n] \notin {"once", "repeatedly"}
  BY <1>1 DEF DoubtInv, MailedIsBeingMarked, MailedTwiceOnlyInDoubt, TypeOK
<1>7. n \in doubtful' \/ told'[n] # "repeatedly"
  BY <1>6 DEF Mail, MailFails, SettleWithoutMail, ReadFails, ToBeMarked, Tell, TypeOK
<1>8. MailedTwiceOnlyInDoubt'
  BY <1>2, <1>7 DEF DoubtInv, MailedTwiceOnlyInDoubt
<1>9. n \in doubtful' \/ told'[n] # "once" \/ (told'[n] = "once" /\ n \in toMark'[f])
  BY <1>6 DEF Mail, MailFails, SettleWithoutMail, ReadFails, ToBeMarked, Tell, TypeOK
<1>10. n \notin doubtful' => \A g \in Flushes : n \notin batch'[g]
  BY <1>1, <1>2 DEF DoubtInv, HeldOnce, Held, TypeOK
<1>11. \A m \in Notices \ {n} : \A g \in Flushes :
         (m \in batch'[g] <=> m \in batch[g]) /\ (m \in toMark'[g] <=> m \in toMark[g])
  BY <1>1, <1>3 DEF TypeOK
<1>12. MailedIsBeingMarked'
  <2> SUFFICES ASSUME NEW m \in Notices \ doubtful', told'[m] = "once"
               PROVE  /\ \A g \in Flushes : m \notin batch'[g]
                      /\ queue'[m] = "pending" => \E g \in Flushes : m \in toMark'[g]
    BY DEF MailedIsBeingMarked
  <2>1. CASE m = n
    BY <2>1, <1>9, <1>10
  <2>2. CASE m # n
    BY <2>2, <1>1, <1>2, <1>11 DEF DoubtInv, MailedIsBeingMarked
  <2> QED
    BY <2>1, <2>2
<1> QED
  BY <1>5, <1>8, <1>12 DEF DoubtInv

LEMMA DoubtStep == TypeOK /\ TellingInv /\ DoubtInv /\ [Next]_vars => DoubtInv'
<1> SUFFICES ASSUME TypeOK, TellingInv, DoubtInv, [Next]_vars PROVE DoubtInv'
  OBVIOUS
<1> USE DEF table, undos, flushes, history
<1>1. ASSUME NEW n \in Notices,
             Receive(n) \/ Reply(n) \/ UndoDelivery(n) \/ RevertToPending(n)
      PROVE  DoubtInv'
  <2>1. UNCHANGED <<flushes, history>>
    BY <1>1 DEF Receive, Reply, UndoDelivery, RevertToPending
  <2>2. HeldOnce' /\ MailedTwiceOnlyInDoubt'
    BY <2>1 DEF DoubtInv, HeldOnce, Held, MailedTwiceOnlyInDoubt
  <2>3. MailedIsBeingMarked'
    <3>1. \A m \in Notices :
            queue'[m] = "pending" => queue[m] = "pending" \/ told[m] = "nothing"
      BY <1>1 DEF Receive, Reply, UndoDelivery, RevertToPending, Cancel, TypeOK,
                  TellingInv, UnqueuedIsUntold
    <3> QED
      BY <2>1, <3>1 DEF DoubtInv, MailedIsBeingMarked
  <2> QED
    BY <2>2, <2>3 DEF DoubtInv
<1>2. ASSUME NEW f \in Flushes, NEW ids \in SUBSET Notices, StartFlush(f, ids)
      PROVE  DoubtInv'
  <2>1. /\ Held(f) = {} /\ batch' = [batch EXCEPT ![f] = ids] /\ UNCHANGED <<queue, toMark, told>>
        /\ \A n \in ids : queue[n] = "pending"
        /\ doubtful' = doubtful \cup {n \in ids : \E g \in Flushes : n \in Held(g)}
    BY <1>2 DEF StartFlush, Idle, Due
  <2>2. \A g \in Flushes : Held(g)' = IF g = f THEN ids ELSE Held(g)
    BY <2>1 DEF Held, TypeOK
  <2>3. HeldOnce'
    BY <2>1, <2>2 DEF DoubtInv, HeldOnce
  <2>4. MailedTwiceOnlyInDoubt'
    BY <2>1 DEF DoubtInv, MailedTwiceOnlyInDoubt
  <2>5. MailedIsBeingMarked'
    BY <2>1 DEF DoubtInv, MailedIsBeingMarked, Held, TypeOK
  <2> QED
    BY <2>3, <2>4, <2>5 DEF DoubtInv
<1>3. ASSUME NEW f \in Flushes, MarkSent(f) PROVE DoubtInv'
  <2>1. \A g \in Flushes : Held(g)' \subseteq Held(g)
    BY <1>3 DEF MarkSent, Held, TypeOK
  <2>2. HeldOnce' /\ MailedTwiceOnlyInDoubt'
    BY <1>3, <2>1 DEF MarkSent, DoubtInv, HeldOnce, MailedTwiceOnlyInDoubt
  <2>3. MailedIsBeingMarked'
    BY <1>3 DEF MarkSent, DoubtInv, MailedIsBeingMarked, TypeOK
  <2> QED
    BY <2>2, <2>3 DEF DoubtInv
<1>4. ASSUME NEW f \in Flushes, Crash(f) PROVE DoubtInv'
  <2>1. \A g \in Flushes : Held(g)' \subseteq Held(g)
    BY <1>4 DEF Crash, Held, TypeOK
  <2>2. HeldOnce' /\ MailedTwiceOnlyInDoubt'
    BY <1>4, <2>1 DEF Crash, DoubtInv, HeldOnce, MailedTwiceOnlyInDoubt
  <2>3. MailedIsBeingMarked'
    BY <1>4 DEF Crash, DoubtInv, MailedIsBeingMarked, TypeOK
  <2> QED
    BY <2>2, <2>3 DEF DoubtInv
<1>5. CASE Tick
  BY <1>5 DEF Tick, DoubtInv, HeldOnce, Held, MailedIsBeingMarked, MailedTwiceOnlyInDoubt
<1>6. CASE UNCHANGED vars
  BY <1>6 DEF vars, DoubtInv, HeldOnce, Held, MailedIsBeingMarked, MailedTwiceOnlyInDoubt
<1> QED
  BY <1>1, <1>2, <1>3, <1>4, <1>5, <1>6, DoubtAfterOne DEF Next, Step

\* A notice is mailed twice only when two flushes held it at the same time, or one of
\* them died or was left without an answer.
THEOREM MailedOnce == Spec => []MailedTwiceOnlyInDoubt
<1>1. Init => DoubtInv
  BY DEF Init, DoubtInv, HeldOnce, Held, MailedIsBeingMarked, MailedTwiceOnlyInDoubt
<1>2. DoubtInv => MailedTwiceOnlyInDoubt
  BY DEF DoubtInv
<1> QED
  BY <1>1, <1>2, DoubtStep, TypeCorrect, TellingHolds, PTL DEF Spec

-----------------------------------------------------------------------------
\* A notice that is sent or cancelled stays so, whatever flushes and undos still do.
THEOREM ClosedStaysClosed == Spec => ClosedIsFinal
<1>1. TypeOK /\ [Next]_vars =>
        [\A n \in Notices : queue[n] \in {"sent", "cancelled"} => queue'[n] = queue[n]]_vars
  <2> SUFFICES ASSUME TypeOK, [Next]_vars, NEW n \in Notices,
                      queue[n] \in {"sent", "cancelled"}
               PROVE  queue'[n] = queue[n]
    OBVIOUS
  <2> USE DEF table, undos, flushes, history
  <2>1. ASSUME NEW m \in Notices,
               Receive(m) \/ Reply(m) \/ UndoDelivery(m) \/ RevertToPending(m)
        PROVE  queue'[n] = queue[n]
    BY <2>1 DEF Receive, Reply, UndoDelivery, RevertToPending, Cancel, TypeOK
  <2>2. ASSUME NEW f \in Flushes, NEW ids \in SUBSET Notices, StartFlush(f, ids)
        PROVE  queue'[n] = queue[n]
    BY <2>2 DEF StartFlush
  <2>3. ASSUME NEW f \in Flushes, Step(f) \/ Crash(f) PROVE queue'[n] = queue[n]
    BY <2>3 DEF Step, Crash, Mail, MailFails, SettleWithoutMail, ReadFails, MarkSent, TypeOK
  <2>4. CASE Tick \/ UNCHANGED vars
    BY <2>4 DEF Tick, vars
  <2> QED
    BY <2>1, <2>2, <2>3, <2>4 DEF Next
<1> QED
  BY <1>1, TypeCorrect, PTL DEF Spec, ClosedIsFinal
=============================================================================
