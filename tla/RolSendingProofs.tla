-------------------------- MODULE RolSendingProofs --------------------------
(***************************************************************************)
(* Theorems about RolSending for every set of dialogs, every set of lists  *)
(* and every bound; at the end, about RolPdfs for any invoices, runs and   *)
(* durations, as long as a print ends before its reservation does.         *)
(***************************************************************************)
EXTENDS RolSending, RolPdfs, FiniteSets, FiniteSetTheorems, SequenceTheorems, TLAPS

AtOK == at \in [Dialogs -> Steps]

\* The dialogs' steps and their types need no other fact.
LEMMA AtStep == AtOK /\ [Next]_vars => AtOK'
<1> SUFFICES ASSUME AtOK, [Next]_vars PROVE AtOK'
  OBVIOUS
<1>0. ASSUME NEW d, NEW s \in Steps, Goto(d, s) PROVE AtOK'
  BY <1>0 DEF AtOK, Goto
<1>1. {"idle", "zdRead", "zdLock", "ready", "mailRead", "mailLock", "zdIn", "zdCreate", "zdSave",
       "zdCheck", "zdOk", "zdErr", "mailIn", "mailSave", "mailDone", "mailErr"} \subseteq Steps
  BY DEF Steps, Section, ZdSteps, MailSteps
<1>2. CASE FirstScanSelect \/ FirstScanInsert \/ Review \/ LateZdLands \/ ZdsGetOld
           \/ CorrectZd \/ Tick
  BY <1>2 DEF FirstScanSelect, FirstScanInsert, Review, Rescan, EditList, ApproveRolBatch,
       ReopenRolBatch, LateZdLands, ZdsGetOld, CorrectZd, Tick, dialogs, AtOK
<1>3. ASSUME NEW d \in Dialogs, OpenZd(d) \/ OpenMail(d) \/ CloseDialog(d) \/ Crash(d) \/ Unlock(d)
      PROVE  AtOK'
  BY <1>0, <1>1, <1>3 DEF OpenZd, OpenMail, CloseDialog, Crash, Unlock
<1>4. ASSUME NEW d \in Dialogs, ZdStep(d) PROVE AtOK'
  BY <1>0, <1>1, <1>4 DEF ZdStep, ReadZdList, LockZd, Lock, RefuseZd, FindZd, CreateZd,
       CreateZdFails, SaveZd, SaveZdFails, VerifyZd
<1>5. ASSUME NEW d \in Dialogs, MailStep(d) PROVE AtOK'
  BY <1>0, <1>1, <1>5 DEF MailStep, ReadMailList, LockMail, Lock, RefuseMail, SendMail, MarkSent, MarkSentFails
<1>6. CASE UNCHANGED vars
  BY <1>6 DEF vars, dialogs, AtOK
<1> QED
  BY <1>2, <1>3, <1>4, <1>5, <1>6 DEF Next

\* Subiekt and Gmail: documents are only added, or corrected in place.
LEMMA WorldStep ==
  ASSUME TypeOK, [Next]_vars
  PROVE  WorldOK' /\ Len(zds) \in Nat /\ Len(zds') \in Nat /\ Len(zds) <= Len(zds')
<1> DEFINE Goal == WorldOK' /\ Len(zds) \in Nat /\ Len(zds') \in Nat /\ Len(zds) <= Len(zds')
<1> USE ListAssumption, BoundAssumption DEF TypeOK, WorldOK, AnyList
<1>1. ASSUME UNCHANGED <<subiekt, gmail>> PROVE Goal
  BY <1>1 DEF subiekt, gmail
<1>2. ASSUME NEW l \in Lists, zds' = Append(zds, l), Len(zds) < MaxZds, oldZds' = oldZds,
             late' \in AnyList, UNCHANGED gmail
      PROVE  Goal
  BY <1>2 DEF gmail
<1>3. ASSUME NEW d \in Dialogs, CreateZd(d) PROVE Goal
  BY <1>2, <1>3 DEF CreateZd, RequestsOK
<1>4. ASSUME NEW d \in Dialogs, CreateZdFails(d) PROVE Goal
  <2>1. ctxList[d] \in Lists
    BY <1>4 DEF CreateZdFails, RequestsOK
  <2>2. CASE UNCHANGED zds
    BY <1>4, <2>1, <2>2 DEF CreateZdFails, gmail
  <2>3. CASE zds' # zds
    BY <1>2, <1>4, <2>1, <2>3 DEF CreateZdFails
  <2> QED
    BY <2>2, <2>3
<1>5. CASE LateZdLands
  BY <1>2, <1>5 DEF LateZdLands
<1>6. CASE ZdsGetOld
  BY <1>6 DEF ZdsGetOld, gmail
<1>7. CASE CorrectZd
  <2>1. zdDok \in 1..Len(zds) /\ list \in Lists
    BY <1>7 DEF CorrectZd, RowOK, ZdIds
  <2>2. zds' \in Seq(Lists) /\ Len(zds') = Len(zds)
    BY <1>7, <2>1, ExceptSeq DEF CorrectZd
  <2> QED
    BY <1>7, <2>2 DEF CorrectZd, gmail
<1>8. ASSUME NEW d \in Dialogs, SendMail(d) PROVE Goal
  BY <1>8 DEF SendMail, subiekt
<1>9. ASSUME NEW d \in Dialogs, MarkSent(d) PROVE Goal
  BY <1>9 DEF MarkSent, subiekt
<1>10. CASE FirstScanSelect \/ FirstScanInsert \/ Review \/ Tick
  BY <1>1, <1>10 DEF FirstScanSelect, FirstScanInsert, Review, Rescan, EditList,
       ApproveRolBatch, ReopenRolBatch, Tick
<1>11. ASSUME NEW d \in Dialogs,
              OpenZd(d) \/ OpenMail(d) \/ CloseDialog(d) \/ Crash(d) \/ Unlock(d)
       PROVE  Goal
  BY <1>1, <1>11 DEF OpenZd, OpenMail, CloseDialog, Crash, Unlock
<1>12. ASSUME NEW d \in Dialogs, ZdStep(d) PROVE Goal
  BY <1>1, <1>3, <1>4, <1>12 DEF ZdStep, ReadZdList, LockZd, Lock, RefuseZd, FindZd,
       SaveZd, SaveZdFails, VerifyZd
<1>13. ASSUME NEW d \in Dialogs, MailStep(d) PROVE Goal
  BY <1>1, <1>8, <1>9, <1>13 DEF MailStep, ReadMailList, LockMail, Lock, RefuseMail, MarkSentFails
<1>14. CASE UNCHANGED vars
  BY <1>1, <1>14 DEF vars
<1> QED
  BY <1>5, <1>6, <1>7, <1>10, <1>11, <1>12, <1>13, <1>14 DEF Next

\* The row of the batch: its document number is one Subiekt knows.
LEMMA RowStep == TypeOK /\ [Next]_vars => RowOK'
<1> SUFFICES ASSUME TypeOK, [Next]_vars PROVE RowOK'
  OBVIOUS
<1>0. /\ Len(zds) \in Nat /\ Len(zds') \in Nat /\ Len(zds) <= Len(zds')
      /\ RowOK /\ RequestsOK
  BY WorldStep DEF TypeOK
<1> USE <1>0, ListAssumption, LockAssumption DEF RowOK, ZdIds, AnyList, Statuses
<1>1. ASSUME UNCHANGED <<row, scan>> PROVE RowOK'
  BY <1>1 DEF row
<1>2. CASE FirstScanSelect \/ FirstScanInsert \/ Review \/ Tick
  <2>1. CASE FirstScanSelect
    BY <2>1 DEF FirstScanSelect, row
  <2>2. CASE FirstScanInsert
    <3>1. scan' \in BOOLEAN
      BY <2>2 DEF FirstScanInsert
    <3> QED
      BY <2>2, <3>1 DEF FirstScanInsert, Replace
  <2>3. CASE Rescan \/ EditList
    BY <2>3 DEF Rescan, EditList, Replace
  <2>4. CASE ApproveRolBatch \/ ReopenRolBatch \/ Tick
    BY <2>4 DEF ApproveRolBatch, ReopenRolBatch, Tick
  <2> QED
    BY <1>2, <2>1, <2>2, <2>3, <2>4 DEF Review
<1>3. CASE LateZdLands \/ ZdsGetOld \/ CorrectZd
  BY <1>1, <1>3 DEF LateZdLands, ZdsGetOld, CorrectZd
<1>4. ASSUME NEW d \in Dialogs, OpenZd(d) \/ OpenMail(d) \/ CloseDialog(d) \/ Crash(d)
      PROVE  RowOK'
  BY <1>1, <1>4 DEF OpenZd, OpenMail, CloseDialog, Crash
<1>5. ASSUME NEW d \in Dialogs, Unlock(d) \/ LockZd(d) \/ LockMail(d) PROVE RowOK'
  BY <1>5 DEF Unlock, LockZd, LockMail, Lock
<1>6. ASSUME NEW d \in Dialogs, SaveZd(d) \/ MarkSent(d) PROVE RowOK'
  BY <1>6 DEF SaveZd, MarkSent, RequestsOK
<1>7. ASSUME NEW d \in Dialogs, ZdStep(d) PROVE RowOK'
  BY <1>1, <1>5, <1>6, <1>7 DEF ZdStep, ReadZdList, RefuseZd, FindZd, CreateZd, CreateZdFails,
       SaveZdFails, VerifyZd
<1>8. ASSUME NEW d \in Dialogs, MailStep(d) PROVE RowOK'
  BY <1>1, <1>5, <1>6, <1>8 DEF MailStep, ReadMailList, RefuseMail, SendMail, MarkSentFails
<1>9. CASE UNCHANGED vars
  BY <1>1, <1>9 DEF vars
<1> QED
  BY <1>2, <1>3, <1>4, <1>5, <1>7, <1>8, <1>9 DEF Next

\* What the requests have loaded.
LEMMA RequestsStep == TypeOK /\ [Next]_vars => RequestsOK'
<1> SUFFICES ASSUME TypeOK, [Next]_vars PROVE RequestsOK'
  OBVIOUS
<1>0. /\ Len(zds) \in Nat /\ Len(zds') \in Nat /\ Len(zds) <= Len(zds')
      /\ RowOK /\ RequestsOK /\ AtOK
  BY WorldStep DEF TypeOK, AtOK
<1> USE <1>0 DEF RequestsOK, ZdIds, AnyList
<1>1. ASSUME UNCHANGED dialogs PROVE RequestsOK'
  BY <1>1 DEF dialogs
<1>2. ASSUME NEW d \in Dialogs, NEW s, s # "zdCreate", Goto(d, s),
             UNCHANGED <<ctxZd, ctxList, doc>> \/ Drop(d)
      PROVE  RequestsOK'
  BY <1>2 DEF Goto, Drop, AtOK
<1>3. CASE FirstScanSelect \/ FirstScanInsert \/ Review \/ Tick \/ LateZdLands \/ ZdsGetOld
           \/ CorrectZd
  BY <1>1, <1>3 DEF FirstScanSelect, FirstScanInsert, Review, Rescan, EditList, ApproveRolBatch,
       ReopenRolBatch, Tick, LateZdLands, ZdsGetOld, CorrectZd
<1>4. ASSUME NEW d \in Dialogs, OpenZd(d) \/ ReadZdList(d) \/ OpenMail(d) \/ ReadMailList(d)
      PROVE  RequestsOK'
  <2>1. CASE OpenZd(d)
    BY <2>1 DEF OpenZd, Goto, RowOK, AtOK
  <2>2. CASE ReadZdList(d)
    BY <2>2 DEF ReadZdList, Goto, RowOK, AtOK
  <2>3. CASE OpenMail(d)
    BY <2>3 DEF OpenMail, Goto, RowOK, AtOK
  <2>4. CASE ReadMailList(d)
    BY <2>4 DEF ReadMailList, Goto, RowOK, AtOK
  <2> QED
    BY <1>4, <2>1, <2>2, <2>3, <2>4
<1>5. ASSUME NEW d \in Dialogs, CloseDialog(d) \/ Crash(d) PROVE RequestsOK'
  BY <1>2, <1>5 DEF CloseDialog, Crash
<1>6. ASSUME NEW d \in Dialogs, Unlock(d) PROVE RequestsOK'
  BY <1>2, <1>6 DEF Unlock
<1>7. ASSUME NEW d \in Dialogs, LockZd(d) \/ LockMail(d) PROVE RequestsOK'
  BY <1>2, <1>7 DEF LockZd, LockMail, Lock
<1>8. ASSUME NEW d \in Dialogs, FindZd(d) PROVE RequestsOK'
  BY <1>8 DEF FindZd, Findable, Goto, AtOK
<1>9. ASSUME NEW d \in Dialogs, CreateZd(d) PROVE RequestsOK'
  <2>1. Len(zds') = Len(zds) + 1
    BY <1>9 DEF CreateZd, TypeOK, WorldOK
  <2> QED
    BY <1>9, <2>1 DEF CreateZd, Goto, AtOK
<1>10. ASSUME NEW d \in Dialogs, ZdStep(d) PROVE RequestsOK'
  BY <1>2, <1>4, <1>7, <1>8, <1>9, <1>10 DEF ZdStep, RefuseZd, CreateZdFails, SaveZd,
       SaveZdFails, VerifyZd
<1>11. ASSUME NEW d \in Dialogs, MailStep(d) PROVE RequestsOK'
  BY <1>2, <1>4, <1>7, <1>11 DEF MailStep, RefuseMail, SendMail, MarkSent, MarkSentFails
<1>12. CASE UNCHANGED vars
  BY <1>1, <1>12 DEF vars
<1> QED
  BY <1>3, <1>4, <1>5, <1>6, <1>10, <1>11, <1>12 DEF Next

LEMMA TypeInit == Init => TypeOK
<1> SUFFICES ASSUME Init PROVE TypeOK
  OBVIOUS
<1>1. zds \in Seq(Lists) /\ Len(zds) = 0
  BY EmptySeq DEF Init
<1>2. RowOK
  <2>1. scan \in BOOLEAN
    BY DEF Init
  <2>2. zdDok \in ZdIds
    BY <1>1 DEF Init, ZdIds
  <2> QED
    BY <2>1, <2>2 DEF Init, RowOK, AnyList, Statuses
<1>3. RequestsOK
  BY <1>1 DEF Init, RequestsOK, ZdIds, AnyList
<1>4. WorldOK
  BY <1>1, BoundAssumption DEF Init, WorldOK, AnyList
<1>5. at \in [Dialogs -> Steps]
  BY DEF Init, Steps
<1> QED
  BY <1>2, <1>3, <1>4, <1>5 DEF TypeOK

\* Type correctness, for any dialogs, lists and faults.
THEOREM TypeCorrect == Spec => []TypeOK
<1>1. TypeOK /\ [Next]_vars => TypeOK'
  BY AtStep, WorldStep, RowStep, RequestsStep DEF TypeOK, AtOK
<1> QED
  BY <1>1, TypeInit, PTL DEF Spec

-----------------------------------------------------------------------------
(* The argument.  While a step is inside, the lock it took is unexpired and *)
(* the batch is not sent; so nobody else gets in, a document is created     *)
(* only when there is none, and a mail leaves only when none has.           *)

Punctual == {"overrun", "firstScans"} \cap Faults = {}

\* A first scan inserts its row only while there is none.
ScanIsFirst == scan => status = "none"

\* A request inside has the lock, until it has marked the batch as sent.
Held(d) ==
  \/ at[d] = "mailDone" /\ status = "wyslane"
  \/ /\ at[d] # "mailDone" /\ sending \in Nat
     /\ status \notin {"wyslane", "none"}

LockIsHeld ==
  /\ ScanIsFirst
  /\ \A d \in Dialogs : at[d] \in Section => Held(d)
  /\ \A d, e \in Dialogs : at[d] \in Section /\ at[e] \in Section => d = e

LEMMA LockIsHeldStep ==
  ASSUME Punctual, TypeOK, LockIsHeld, [Next]_vars
  PROVE  LockIsHeld'
<1> USE DEF LockIsHeld, ScanIsFirst, Held
<1>0. AtOK /\ sending \in {NoLock} \cup Int
  BY DEF TypeOK, AtOK, RowOK
\* Steps that leave the row alone and enter no section.
<1>1. ASSUME UNCHANGED <<status, sending, scan, at>> PROVE LockIsHeld'
  BY <1>1
<1>2. ASSUME NEW d \in Dialogs, NEW s, Goto(d, s), UNCHANGED <<status, sending, scan>>,
             s # "mailDone", at[d] # "mailDone" \/ s \notin Section,
             s \in Section => at[d] \in Section
      PROVE  LockIsHeld'
  BY <1>0, <1>2 DEF Goto, AtOK
<1>3. CASE FirstScanSelect \/ FirstScanInsert
  BY <1>3 DEF FirstScanSelect, FirstScanInsert, Replace, Punctual, row, dialogs
<1>4. CASE Review
  BY <1>4 DEF Review, Rescan, EditList, ApproveRolBatch, ReopenRolBatch, Replace, SentStatuses,
       dialogs
<1>5. CASE LateZdLands \/ ZdsGetOld \/ CorrectZd
  BY <1>1, <1>5 DEF LateZdLands, ZdsGetOld, CorrectZd, row, dialogs
<1>6. CASE Tick
  BY <1>6, <1>0, LockAssumption DEF Tick, Punctual, dialogs
<1>7. ASSUME NEW d \in Dialogs, NEW from, NEW inside, NEW refused,
             Lock(d, from, inside, refused), from \notin Section, refused \notin Section,
             inside # "mailDone"
      PROVE  LockIsHeld'
  BY <1>0, <1>7, LockAssumption DEF Lock, Lockable, Goto, AtOK
<1>8. ASSUME NEW d \in Dialogs, Unlock(d) PROVE LockIsHeld'
  BY <1>0, <1>8 DEF Unlock, Goto, AtOK, Section, ZdSteps, MailSteps
<1>9. ASSUME NEW d \in Dialogs, MarkSent(d) PROVE LockIsHeld'
  BY <1>0, <1>9 DEF MarkSent, Goto, AtOK, Section, ZdSteps, MailSteps
<1>10. ASSUME NEW d \in Dialogs, OpenZd(d) \/ OpenMail(d) \/ CloseDialog(d) \/ Crash(d)
       PROVE  LockIsHeld'
  BY <1>2, <1>10 DEF OpenZd, OpenMail, CloseDialog, Crash, row, Section, ZdSteps, MailSteps
<1>11. ASSUME NEW d \in Dialogs, ZdStep(d) PROVE LockIsHeld'
  <2>1. CASE LockZd(d)
    BY <1>7, <2>1 DEF LockZd, Section, ZdSteps, MailSteps
  <2> QED
    BY <1>2, <1>11, <2>1 DEF ZdStep, ReadZdList, RefuseZd, FindZd, CreateZd, CreateZdFails,
         SaveZd, SaveZdFails, VerifyZd, row, Section, ZdSteps, MailSteps
<1>12. ASSUME NEW d \in Dialogs, MailStep(d) PROVE LockIsHeld'
  <2>1. CASE LockMail(d)
    BY <1>7, <2>1 DEF LockMail, Section, ZdSteps, MailSteps
  <2> QED
    BY <1>2, <1>9, <1>12, <2>1 DEF MailStep, ReadMailList, RefuseMail, SendMail, MarkSentFails,
         row, Section, ZdSteps, MailSteps
<1>13. CASE UNCHANGED vars
  BY <1>1, <1>13 DEF vars, row, dialogs
<1> QED
  BY <1>3, <1>4, <1>5, <1>6, <1>8, <1>10, <1>11, <1>12, <1>13 DEF Next

-----------------------------------------------------------------------------
\* What the history knows of is sent.
HistoryIsFinal == sends # 0 => status = "wyslane"

LEMMA HistoryIsFinalStep ==
  ASSUME Punctual, TypeOK, LockIsHeld, HistoryIsFinal, [Next]_vars
  PROVE  HistoryIsFinal'
<1> USE DEF HistoryIsFinal
<1>0. ScanIsFirst
  BY DEF LockIsHeld
<1>1. ASSUME UNCHANGED sends, status = "wyslane" => status' = "wyslane"
      PROVE  HistoryIsFinal'
  BY <1>1
<1>2. CASE FirstScanSelect \/ FirstScanInsert
  BY <1>0, <1>1, <1>2 DEF FirstScanSelect, FirstScanInsert, ScanIsFirst, row, gmail
<1>3. CASE Review
  BY <1>1, <1>3 DEF Review, Rescan, EditList, ApproveRolBatch, ReopenRolBatch, SentStatuses, gmail
<1>4. CASE LateZdLands \/ ZdsGetOld \/ CorrectZd \/ Tick
  BY <1>1, <1>4 DEF LateZdLands, ZdsGetOld, CorrectZd, Tick, row, gmail
<1>5. ASSUME NEW d \in Dialogs,
             OpenZd(d) \/ OpenMail(d) \/ CloseDialog(d) \/ Crash(d) \/ Unlock(d) \/ ZdStep(d)
      PROVE  HistoryIsFinal'
  BY <1>1, <1>5 DEF OpenZd, OpenMail, CloseDialog, Crash, Unlock, ZdStep, ReadZdList, LockZd, Lock,
       RefuseZd, FindZd, CreateZd, CreateZdFails, SaveZd, SaveZdFails, VerifyZd, row, gmail
<1>6. ASSUME NEW d \in Dialogs, MailStep(d) PROVE HistoryIsFinal'
  BY <1>1, <1>6 DEF MailStep, ReadMailList, LockMail, Lock, RefuseMail, SendMail, MarkSent,
       MarkSentFails, row, gmail
<1>7. CASE UNCHANGED vars
  BY <1>1, <1>7 DEF vars, row, gmail
<1> QED
  BY <1>2, <1>3, <1>4, <1>5, <1>6, <1>7 DEF Next

\* Only the step inside mails, and the batch is not sent then.
LEMMA MailLeavesAlone ==
  ASSUME LockIsHeld, HistoryIsFinal, [Next]_vars, mails' # mails
  PROVE  sends = 0 /\ \A d \in Dialogs : at[d] # "mailSave"
<1>1. PICK d \in Dialogs : SendMail(d)
  BY DEF Next, FirstScanSelect, FirstScanInsert, Review, Rescan, EditList, ApproveRolBatch,
       ReopenRolBatch, LateZdLands, ZdsGetOld, CorrectZd, Tick, OpenZd, OpenMail, CloseDialog,
       Crash, Unlock, ZdStep, ReadZdList, LockZd, Lock, RefuseZd, FindZd, CreateZd, CreateZdFails,
       SaveZd, SaveZdFails, VerifyZd, MailStep, ReadMailList, LockMail, RefuseMail, MarkSent,
       MarkSentFails, gmail, vars
<1>2. at[d] = "mailIn" /\ at[d] \in Section /\ "mailSave" \in Section
  BY <1>1 DEF SendMail, Section, MailSteps
<1>3. status # "wyslane"
  BY <1>2 DEF LockIsHeld, Held
<1> QED
  BY <1>2, <1>3 DEF LockIsHeld, HistoryIsFinal

\* Whoever presses "send", and whatever happens to the list meanwhile, no mail
\* follows one that is recorded or about to be: for any number of dialogs,
\* crashes and lost replies, as long as steps end within the lock's time.
THEOREM MailedOnce == ASSUME Punctual PROVE Spec => MailedOnceUnlessLost
<1>1. Init => LockIsHeld /\ HistoryIsFinal
  BY DEF Init, LockIsHeld, ScanIsFirst, HistoryIsFinal, Section, ZdSteps, MailSteps
<1>2. TypeOK /\ LockIsHeld /\ HistoryIsFinal /\ [Next]_vars => LockIsHeld' /\ HistoryIsFinal'
  BY LockIsHeldStep, HistoryIsFinalStep
<1>3. LockIsHeld /\ HistoryIsFinal /\ [Next]_vars
        => [mails' # mails => sends = 0 /\ \A d \in Dialogs : at[d] # "mailSave"]_vars
  BY MailLeavesAlone
<1> QED
  BY <1>1, <1>2, <1>3, TypeCorrect, PTL DEF Spec, MailedOnceUnlessLost

-----------------------------------------------------------------------------
\* Subiekt answers or fails within a step, and no retry waits for FIND_DAYS.
Prompt == Punctual /\ {"late", "old"} \cap Faults = {}

\* A document is created only while there is none.
CreatedOnce ==
  /\ Len(zds) <= 1 /\ oldZds = {} /\ late = NoList
  /\ \A d \in Dialogs : at[d] = "zdCreate" => Len(zds) = 0

LEMMA CreatedOnceStep ==
  ASSUME Prompt, TypeOK, LockIsHeld, CreatedOnce, [Next]_vars
  PROVE  CreatedOnce'
<1> USE DEF CreatedOnce
<1>0. AtOK /\ Len(zds) \in Nat /\ LockIsHeld
  BY DEF TypeOK, AtOK, WorldOK, LockIsHeld
<1>1. ASSUME UNCHANGED <<subiekt, at>> PROVE CreatedOnce'
  BY <1>1 DEF subiekt
<1>2. ASSUME NEW d \in Dialogs, NEW s, Goto(d, s), s # "zdCreate", UNCHANGED subiekt
      PROVE  CreatedOnce'
  BY <1>0, <1>2 DEF Goto, AtOK, subiekt
\* Only the one inside creates.
<1>3. ASSUME NEW d \in Dialogs, at[d] = "zdCreate", NEW s, Goto(d, s), s # "zdCreate",
             zds' = Append(zds, ctxList[d]), UNCHANGED <<oldZds, late>>
      PROVE  CreatedOnce'
  <2>1. Len(zds') = 1
    BY <1>0, <1>3 DEF TypeOK, WorldOK, RequestsOK
  <2>2. \A e \in Dialogs : at'[e] # "zdCreate"
    BY <1>0, <1>3 DEF Goto, AtOK, LockIsHeld, Section, ZdSteps
  <2> QED
    BY <1>3, <2>1, <2>2
<1>4. CASE FirstScanSelect \/ FirstScanInsert \/ Review \/ Tick
  BY <1>1, <1>4 DEF FirstScanSelect, FirstScanInsert, Review, Rescan, EditList, ApproveRolBatch,
       ReopenRolBatch, Tick, dialogs
<1>5. CASE LateZdLands \/ ZdsGetOld
  BY <1>5 DEF LateZdLands, ZdsGetOld, Prompt
<1>6. CASE CorrectZd
  <2>1. Len(zds') = Len(zds)
    BY <1>0, <1>6, ExceptSeq DEF CorrectZd, TypeOK, WorldOK, RowOK, ZdIds, AnyList
  <2> QED
    BY <1>6, <2>1 DEF CorrectZd, dialogs
<1>7. ASSUME NEW d \in Dialogs,
             OpenZd(d) \/ OpenMail(d) \/ CloseDialog(d) \/ Crash(d) \/ Unlock(d)
      PROVE  CreatedOnce'
  BY <1>2, <1>7 DEF OpenZd, OpenMail, CloseDialog, Crash, Unlock
<1>8. ASSUME NEW d \in Dialogs, FindZd(d) PROVE CreatedOnce'
  BY <1>0, <1>8 DEF FindZd, Findable, Goto, AtOK, subiekt
<1>9. ASSUME NEW d \in Dialogs, CreateZd(d) PROVE CreatedOnce'
  BY <1>3, <1>9 DEF CreateZd
<1>10. ASSUME NEW d \in Dialogs, CreateZdFails(d) PROVE CreatedOnce'
  BY <1>2, <1>3, <1>10 DEF CreateZdFails, Prompt, subiekt
<1>11. ASSUME NEW d \in Dialogs, ZdStep(d) PROVE CreatedOnce'
  BY <1>2, <1>8, <1>9, <1>10, <1>11 DEF ZdStep, ReadZdList, LockZd, Lock, RefuseZd,
       SaveZd, SaveZdFails, VerifyZd
<1>12. ASSUME NEW d \in Dialogs, MailStep(d) PROVE CreatedOnce'
  BY <1>2, <1>12 DEF MailStep, ReadMailList, LockMail, Lock, RefuseMail, SendMail, MarkSent, MarkSentFails
<1>13. CASE UNCHANGED vars
  BY <1>1, <1>13 DEF vars, dialogs
<1> QED
  BY <1>4, <1>5, <1>6, <1>7, <1>11, <1>12, <1>13 DEF Next

\* Crashed steps, lost replies and failed saves never make a second document,
\* for any number of dialogs: whoever tries again finds the first.
THEOREM CreatedAtMostOnce == ASSUME Prompt PROVE Spec => []AtMostOneZd
<1>1. Init => LockIsHeld /\ CreatedOnce
  BY DEF Init, LockIsHeld, ScanIsFirst, CreatedOnce, Section, ZdSteps, MailSteps
<1>2. TypeOK /\ LockIsHeld /\ CreatedOnce /\ [Next]_vars => LockIsHeld' /\ CreatedOnce'
  BY LockIsHeldStep, CreatedOnceStep DEF Prompt
<1>3. CreatedOnce => AtMostOneZd
  BY DEF CreatedOnce, AtMostOneZd
<1> QED
  BY <1>1, <1>2, <1>3, TypeCorrect, PTL DEF Spec

-----------------------------------------------------------------------------
\* Nothing leads out of "wyslane", and nobody edits what was sent.
LEMMA SentStep ==
  ASSUME LockIsHeld, [Next]_vars, status = "wyslane"
  PROVE  status' = "wyslane" /\ list' = list
<1>1. CASE FirstScanSelect \/ FirstScanInsert
  BY <1>1 DEF FirstScanSelect, FirstScanInsert, LockIsHeld, ScanIsFirst, row
<1>2. CASE Review
  BY <1>2 DEF Review, Rescan, EditList, ApproveRolBatch, ReopenRolBatch, SentStatuses
<1>3. CASE LateZdLands \/ ZdsGetOld \/ CorrectZd \/ Tick
  BY <1>3 DEF LateZdLands, ZdsGetOld, CorrectZd, Tick, row
<1>4. ASSUME NEW d \in Dialogs,
             OpenZd(d) \/ OpenMail(d) \/ CloseDialog(d) \/ Crash(d) \/ Unlock(d) \/ ZdStep(d)
      PROVE  status' = "wyslane" /\ list' = list
  BY <1>4 DEF OpenZd, OpenMail, CloseDialog, Crash, Unlock, ZdStep, ReadZdList, LockZd, Lock,
       RefuseZd, FindZd, CreateZd, CreateZdFails, SaveZd, SaveZdFails, VerifyZd, row
<1>5. ASSUME NEW d \in Dialogs, MailStep(d) PROVE status' = "wyslane" /\ list' = list
  BY <1>5 DEF MailStep, ReadMailList, LockMail, Lock, RefuseMail, SendMail, MarkSent,
       MarkSentFails, row
<1>6. CASE UNCHANGED vars
  BY <1>6 DEF vars, row
<1> QED
  BY <1>1, <1>2, <1>3, <1>4, <1>5, <1>6 DEF Next

LEMMA LockIsHeldAlways == ASSUME Punctual PROVE Spec => []LockIsHeld
<1>1. Init => LockIsHeld
  BY DEF Init, LockIsHeld, ScanIsFirst, Section, ZdSteps, MailSteps
<1>2. TypeOK /\ LockIsHeld /\ [Next]_vars => LockIsHeld'
  BY LockIsHeldStep
<1> QED
  BY <1>1, <1>2, TypeCorrect, PTL DEF Spec

\* No dialog, scan, edit or reopening brings a sent batch back or changes its
\* list, whatever they had read before.
THEOREM SentStaysSent == ASSUME Punctual PROVE Spec => SentIsFinal
<1>1. LockIsHeld /\ [Next]_vars => [status = "wyslane" => status' = "wyslane" /\ list' = list]_vars
  BY SentStep
<1> QED
  BY <1>1, LockIsHeldAlways, PTL DEF Spec, SentIsFinal

\* The steps between lock and unlock implement ExclusiveSection: locking enters,
\* unlocking and dying leave, and everything else stutters.
THEOREM SectionsImplemented == ASSUME Punctual PROVE Spec => SectionSpec
<1> DEFINE Inside == {d \in Dialogs : at[d] \in Section}
<1>1. Init => Sections!Init
  BY DEF Init, Sections!Init, Section, ZdSteps, MailSteps
<1>2. TypeOK /\ LockIsHeld /\ LockIsHeld' /\ [Next]_vars => [Sections!Next]_Inside
  <2> SUFFICES ASSUME TypeOK, LockIsHeld, LockIsHeld', [Next]_vars PROVE [Sections!Next]_Inside
    OBVIOUS
  <2>0. AtOK /\ \A d, e \in Dialogs : (d \in Inside /\ e \in Inside) => d = e
    BY DEF TypeOK, AtOK, LockIsHeld
  <2>00. \A d, e \in Dialogs : (d \in Inside' /\ e \in Inside') => d = e
    BY DEF LockIsHeld
  <2>1. CASE UNCHANGED at
    BY <2>1
  \* Who leaves was alone, who enters is alone, and one who stays changes nothing.
  <2>2. ASSUME NEW d \in Dialogs, NEW s, Goto(d, s), s \in Section => at[d] \in Section \/ Lockable
        PROVE  [Sections!Next]_Inside
    <3>1. at' = [at EXCEPT ![d] = s] /\ DOMAIN at = Dialogs
      BY <2>0, <2>2 DEF Goto, AtOK
    <3>2. \A e \in Dialogs \ {d} : e \in Inside' <=> e \in Inside
      BY <3>1
    <3>3. CASE (d \in Inside) <=> (s \in Section)
      <4>1. Inside' = Inside
        BY <3>1, <3>2, <3>3
      <4> QED
        BY <4>1
    <3>4. CASE d \in Inside /\ s \notin Section
      <4>1. Inside' = Inside \ {d}
        BY <3>1, <3>2, <3>4
      <4> QED
        BY <3>4, <4>1 DEF Sections!Next, Sections!Leave
    <3>5. CASE d \notin Inside /\ s \in Section
      <4>1. d \in Inside'
        BY <3>1, <3>5
      <4>2. Inside = {} /\ Inside' = {d}
        BY <2>00, <3>2, <3>5, <4>1
      <4> QED
        BY <4>2 DEF Sections!Next, Sections!Enter
    <3> QED
      BY <3>3, <3>4, <3>5
  <2>3. CASE FirstScanSelect \/ FirstScanInsert \/ Review \/ LateZdLands \/ ZdsGetOld
             \/ CorrectZd \/ Tick
    BY <2>1, <2>3 DEF FirstScanSelect, FirstScanInsert, Review, Rescan, EditList, ApproveRolBatch,
         ReopenRolBatch, LateZdLands, ZdsGetOld, CorrectZd, Tick, dialogs
  <2>4. ASSUME NEW d \in Dialogs,
               OpenZd(d) \/ OpenMail(d) \/ CloseDialog(d) \/ Crash(d) \/ Unlock(d)
        PROVE  [Sections!Next]_Inside
    BY <2>2, <2>4 DEF OpenZd, OpenMail, CloseDialog, Crash, Unlock, Section, ZdSteps, MailSteps
  <2>5. ASSUME NEW d \in Dialogs, ZdStep(d) PROVE [Sections!Next]_Inside
    BY <2>2, <2>5 DEF ZdStep, ReadZdList, LockZd, Lock, RefuseZd, FindZd, CreateZd, CreateZdFails,
         SaveZd, SaveZdFails, VerifyZd, Section, ZdSteps, MailSteps
  <2>6. ASSUME NEW d \in Dialogs, MailStep(d) PROVE [Sections!Next]_Inside
    BY <2>2, <2>6 DEF MailStep, ReadMailList, LockMail, Lock, RefuseMail, SendMail, MarkSent,
         MarkSentFails, Section, ZdSteps, MailSteps
  <2>7. CASE UNCHANGED vars
    BY <2>1, <2>7 DEF vars, dialogs
  <2> QED
    BY <2>3, <2>4, <2>5, <2>6, <2>7 DEF Next
<1> QED
  BY <1>1, <1>2, TypeCorrect, LockIsHeldAlways, PTL DEF Spec, SectionSpec, Sections!Spec

-----------------------------------------------------------------------------
\* A document to be saved is one that Subiekt has.
SavesAZd == \A d \in Dialogs : at[d] = "zdSave" => doc[d] # 0

LEMMA SavesAZdStep ==
  ASSUME TypeOK, SavesAZd, [Next]_vars
  PROVE  SavesAZd'
<1> USE DEF SavesAZd
<1>0. AtOK /\ DOMAIN doc = Dialogs /\ Len(zds) \in Nat
  BY DEF TypeOK, AtOK, RequestsOK, WorldOK
<1>1. ASSUME UNCHANGED <<at, doc>> PROVE SavesAZd'
  BY <1>1
<1>2. ASSUME NEW d \in Dialogs, NEW s, Goto(d, s), s # "zdSave", UNCHANGED doc \/ Drop(d)
      PROVE  SavesAZd'
  BY <1>0, <1>2 DEF Goto, AtOK, Drop
<1>3. CASE FirstScanSelect \/ FirstScanInsert \/ Review \/ LateZdLands \/ ZdsGetOld \/ CorrectZd
           \/ Tick
  BY <1>1, <1>3 DEF FirstScanSelect, FirstScanInsert, Review, Rescan, EditList, ApproveRolBatch,
       ReopenRolBatch, LateZdLands, ZdsGetOld, CorrectZd, Tick, dialogs
<1>4. ASSUME NEW d \in Dialogs, OpenZd(d) \/ OpenMail(d) \/ CloseDialog(d) \/ Crash(d) \/ Unlock(d)
      PROVE  SavesAZd'
  BY <1>2, <1>4 DEF OpenZd, OpenMail, CloseDialog, Crash, Unlock
<1>5. ASSUME NEW d \in Dialogs, FindZd(d) PROVE SavesAZd'
  <2>1. 0 \notin Findable
    BY <1>0 DEF Findable
  <2> QED
    BY <1>0, <1>5, <2>1 DEF FindZd, Goto, AtOK
<1>6. ASSUME NEW d \in Dialogs, CreateZd(d) PROVE SavesAZd'
  BY <1>0, <1>6 DEF CreateZd, Goto, AtOK
<1>7. ASSUME NEW d \in Dialogs, ZdStep(d) PROVE SavesAZd'
  BY <1>2, <1>5, <1>6, <1>7 DEF ZdStep, ReadZdList, LockZd, Lock, RefuseZd, CreateZdFails,
       SaveZd, SaveZdFails, VerifyZd
<1>8. ASSUME NEW d \in Dialogs, MailStep(d) PROVE SavesAZd'
  BY <1>2, <1>8 DEF MailStep, ReadMailList, LockMail, Lock, RefuseMail, SendMail, MarkSent,
       MarkSentFails
<1>9. CASE UNCHANGED vars
  BY <1>1, <1>9 DEF vars, dialogs
<1> QED
  BY <1>3, <1>4, <1>7, <1>8, <1>9 DEF Next

\* Only SaveZd writes the number.
LEMMA NumberIsSaved ==
  ASSUME [Next]_vars, zdDok' # zdDok
  PROVE  \E d \in Dialogs : SaveZd(d)
BY DEF Next, FirstScanSelect, FirstScanInsert, Review, Rescan, EditList, ApproveRolBatch,
   ReopenRolBatch, LateZdLands, ZdsGetOld, CorrectZd, Tick, OpenZd, OpenMail, CloseDialog,
   Crash, Unlock, ZdStep, ReadZdList, LockZd, Lock, RefuseZd, FindZd, CreateZd, CreateZdFails,
   SaveZdFails, VerifyZd, MailStep, ReadMailList, LockMail, RefuseMail, SendMail, MarkSent,
   MarkSentFails, row, vars

\* A saved number is never replaced or lost: a dialog with an outdated context finds
\* the one document there is, for any number of dialogs, crashes and lost replies.
THEOREM SavedNumberStays == ASSUME Prompt PROVE Spec => ZdNumberStable
<1>1. Init => SavesAZd /\ CreatedOnce
  BY DEF Init, SavesAZd, CreatedOnce
<1>2. TypeOK /\ SavesAZd /\ [Next]_vars => SavesAZd'
  BY SavesAZdStep
<1>3. TypeOK /\ LockIsHeld /\ CreatedOnce /\ [Next]_vars => CreatedOnce'
  BY CreatedOnceStep
<1>4. TypeOK /\ SavesAZd /\ CreatedOnce /\ [Next]_vars => [zdDok # 0 => zdDok' = zdDok]_vars
  <2> SUFFICES ASSUME TypeOK, SavesAZd, CreatedOnce, [Next]_vars, zdDok # 0, zdDok' # zdDok
               PROVE  FALSE
    OBVIOUS
  <2>1. PICK d \in Dialogs : SaveZd(d)
    BY NumberIsSaved
  <2>2. doc[d] # 0 /\ zdDok' = doc[d]
    BY <2>1 DEF SavesAZd, SaveZd
  <2>3. doc[d] \in 0..Len(zds) /\ zdDok \in 0..Len(zds) /\ Len(zds) \in Nat /\ Len(zds) <= 1
    BY DEF TypeOK, RowOK, RequestsOK, WorldOK, ZdIds, CreatedOnce
  <2> QED
    BY <2>2, <2>3
<1>5. Punctual
  BY DEF Prompt
<1> QED
  BY <1>1, <1>2, <1>3, <1>4, <1>5, TypeCorrect, LockIsHeldAlways, PTL DEF Spec, ZdNumberStable

-----------------------------------------------------------------------------
\* The books agree whatever breaks down: a mail is in the history, about to get
\* there, or in neither; nothing is in the history without a mail.
Saving == {d \in Dialogs : at[d] = "mailSave"}

Accounted ==
  /\ IsFiniteSet(Saving) /\ sends + Cardinality(Saving) <= mails
  /\ status = "wyslane" => sends # 0

LEMMA AccountedStep ==
  ASSUME TypeOK, Accounted, [Next]_vars
  PROVE  Accounted'
<1>0. AtOK /\ sends \in Nat /\ mails \in Nat /\ IsFiniteSet(Saving) /\ Cardinality(Saving) \in Nat
  BY FS_CardinalityType DEF TypeOK, AtOK, WorldOK, Accounted
\* Fewer dialogs save.
<1>1. ASSUME Saving' \subseteq Saving, UNCHANGED gmail, status' = "wyslane" => status = "wyslane"
      PROVE  Accounted'
  <2>1. IsFiniteSet(Saving') /\ Cardinality(Saving') <= Cardinality(Saving)
        /\ Cardinality(Saving') \in Nat
    BY <1>0, <1>1, FS_Subset, FS_CardinalityType
  <2> QED
    BY <1>0, <1>1, <2>1 DEF Accounted, gmail
<1>2. ASSUME NEW d \in Dialogs, NEW s, Goto(d, s), s # "mailSave", UNCHANGED gmail,
             status' = "wyslane" => status = "wyslane"
      PROVE  Accounted'
  <2>1. Saving' \subseteq Saving
    BY <1>0, <1>2 DEF Saving, Goto, AtOK
  <2> QED
    BY <1>1, <1>2, <2>1
<1>3. CASE FirstScanSelect \/ FirstScanInsert \/ Review \/ LateZdLands \/ ZdsGetOld \/ CorrectZd
           \/ Tick
  <2>1. UNCHANGED at /\ UNCHANGED gmail /\ (status' = "wyslane" => status = "wyslane")
    BY <1>3 DEF FirstScanSelect, FirstScanInsert, Review, Rescan, EditList, ApproveRolBatch,
       ReopenRolBatch, LateZdLands, ZdsGetOld, CorrectZd, Tick, Replace, dialogs, row
  <2> QED
    BY <1>1, <2>1 DEF Saving
<1>4. ASSUME NEW d \in Dialogs,
             OpenZd(d) \/ OpenMail(d) \/ CloseDialog(d) \/ Crash(d) \/ Unlock(d) \/ ZdStep(d)
      PROVE  Accounted'
  BY <1>2, <1>4 DEF OpenZd, OpenMail, CloseDialog, Crash, Unlock, ZdStep, ReadZdList, LockZd, Lock,
       RefuseZd, FindZd, CreateZd, CreateZdFails, SaveZd, SaveZdFails, VerifyZd, row
<1>5. ASSUME NEW d \in Dialogs, SendMail(d) PROVE Accounted'
  <2>1. sends' = sends /\ status' = status /\ mails' = mails + 1
    BY <1>5 DEF SendMail, row, TypeOK, WorldOK
  <2>2. d \notin Saving /\ (Saving' = Saving \/ Saving' = Saving \cup {d})
    BY <1>0, <1>5 DEF SendMail, Goto, AtOK, Saving
  <2>3. /\ IsFiniteSet(Saving') /\ Cardinality(Saving') \in Nat
        /\ Cardinality(Saving') <= Cardinality(Saving) + 1
    <3>1. /\ IsFiniteSet(Saving \cup {d})
          /\ Cardinality(Saving \cup {d}) = Cardinality(Saving) + 1
      BY <1>0, <2>2, FS_AddElement
    <3>2. CASE Saving' = Saving
      BY <1>0, <3>2
    <3>3. CASE Saving' = Saving \cup {d}
      BY <1>0, <3>1, <3>3
    <3> QED
      BY <2>2, <3>2, <3>3
  <2> QED
    BY <1>0, <2>1, <2>3 DEF Accounted
<1>6. ASSUME NEW d \in Dialogs, MarkSent(d) PROVE Accounted'
  <2>1. sends' = sends + 1 /\ mails' = mails
    BY <1>6 DEF MarkSent
  <2>2. d \in Saving /\ Saving' = Saving \ {d}
    BY <1>0, <1>6 DEF MarkSent, Goto, AtOK, Saving
  <2>3. IsFiniteSet(Saving') /\ Cardinality(Saving') = Cardinality(Saving) - 1
    BY <1>0, <2>2, FS_RemoveElement
  <2> QED
    BY <1>0, <2>1, <2>3 DEF Accounted
<1>7. ASSUME NEW d \in Dialogs, MailStep(d) PROVE Accounted'
  BY <1>2, <1>5, <1>6, <1>7 DEF MailStep, ReadMailList, LockMail, Lock, RefuseMail, MarkSentFails, row
<1>8. CASE UNCHANGED vars
  BY <1>1, <1>8 DEF vars, dialogs, row, Saving
<1> QED
  BY <1>3, <1>4, <1>7, <1>8 DEF Next

\* "wyslane" only with a mail, and no more entries in the history than mails, under
\* every fault there is: overruns, several first scans, late and outdated documents.
THEOREM HistoryStaysTrue == Spec => []HistoryIsTrue
<1>1. Init => Accounted
  <2> SUFFICES ASSUME Init PROVE Accounted
    OBVIOUS
  <2>1. Saving = {}
    BY DEF Init, Saving
  <2> QED
    BY <2>1, FS_EmptySet DEF Init, Accounted
<1>2. TypeOK /\ Accounted /\ [Next]_vars => Accounted'
  BY AccountedStep
<1>3. TypeOK /\ Accounted => HistoryIsTrue
  <2> SUFFICES ASSUME TypeOK, Accounted PROVE HistoryIsTrue
    OBVIOUS
  <2>1. Cardinality(Saving) \in Nat /\ sends \in Nat /\ mails \in Nat
    BY FS_CardinalityType DEF Accounted, TypeOK, WorldOK
  <2> QED
    BY <2>1 DEF Accounted, HistoryIsTrue, TypeOK, WorldOK
<1> QED
  BY <1>1, <1>2, <1>3, TypeCorrect, PTL DEF Spec

-----------------------------------------------------------------------------
(***************************************************************************)
(* RolPdfs.                                                                *)
(***************************************************************************)

LEMMA PdfsTypeInit == ASSUME PdfsInit PROVE PdfsTypeOK
BY TimeAssumption DEF PdfsInit, PdfsTypeOK

LEMMA TakeType ==
  ASSUME PdfsTypeOK, NEW r \in Runs, NEW f \in Fs, Take(r, f)
  PROVE  PdfsTypeOK'
<1>1. CASE Claimable(f)
  <2>1. attempts[f] + 1 \in 0 .. MaxAttempts
    BY <1>1, TimeAssumption DEF PdfsTypeOK, Claimable
  <2>2. attempts' \in [Fs -> 0 .. MaxAttempts]
    BY <1>1, <2>1 DEF PdfsTypeOK, Take, Reserve
  <2>3. age' \in [Fs -> -1 .. ClaimTicks + 1]
    BY <1>1, TimeAssumption DEF PdfsTypeOK, Take, Reserve
  <2>4. took' \in [Runs -> 0 .. PrintTicks]
    BY <1>1, TimeAssumption DEF PdfsTypeOK, Take
  <2>. QED BY <1>1, <2>2, <2>3, <2>4 DEF PdfsTypeOK, Take, Reserve
<1>2. CASE ~Claimable(f)
  BY <1>2 DEF PdfsTypeOK, Take, pdfRow
<1>. QED BY <1>1, <1>2

LEMMA PdfsTypeStep == ASSUME PdfsTypeOK, [PdfsNext]_pdfVars PROVE PdfsTypeOK'
<1>1. ASSUME NEW r \in Runs, StartRun(r) \/ BudgetSpent(r) PROVE PdfsTypeOK'
  BY <1>1 DEF PdfsTypeOK, StartRun, BudgetSpent, Missing, pdfRow
<1>2. ASSUME NEW r \in Runs, PrintOk(r) \/ PrintFails(r) PROVE PdfsTypeOK'
  BY <1>2, TimeAssumption DEF PdfsTypeOK, PrintOk, PrintFails, Printed, Free
<1>3. ASSUME NEW r \in Runs, RunDies(r) PROVE PdfsTypeOK'
  BY <1>3, TimeAssumption DEF PdfsTypeOK, RunDies, pdfRow
<1>4. ASSUME NEW r \in Runs, NEW f \in Fs, Take(r, f) PROVE PdfsTypeOK'
  BY <1>4, TakeType
<1>5. ASSUME NEW f \in Fs, Want(f) \/ Unwant(f) PROVE PdfsTypeOK'
  BY <1>5 DEF PdfsTypeOK, Want, Unwant, pdfRow, run
<1>6. CASE ResetFailedRolPdfs
  <2>1. attempts' \in [Fs -> 0 .. MaxAttempts]
    BY <1>6, TimeAssumption DEF PdfsTypeOK, ResetFailedRolPdfs
  <2>2. age' \in [Fs -> -1 .. ClaimTicks + 1]
    BY <1>6, TimeAssumption DEF PdfsTypeOK, ResetFailedRolPdfs
  <2>. QED BY <1>6, <2>1, <2>2 DEF PdfsTypeOK, ResetFailedRolPdfs, run
<1>7. CASE PdfsTick
  <2>1. age' \in [Fs -> -1 .. ClaimTicks + 1]
    BY <1>7, TimeAssumption DEF PdfsTypeOK, PdfsTick
  <2>2. took' \in [Runs -> 0 .. PrintTicks]
    BY <1>7, TimeAssumption DEF PdfsTypeOK, PdfsTick
  <2>. QED BY <1>7, <2>1, <2>2 DEF PdfsTypeOK, PdfsTick
<1>8. CASE UNCHANGED pdfVars
  BY <1>8 DEF PdfsTypeOK, pdfVars, pdfRow, run
<1>. QED BY <1>1, <1>2, <1>3, <1>4, <1>5, <1>6, <1>7, <1>8 DEF PdfsNext

\* Every reachable state is well formed; above all the attempts stay within
\* ROL_PDF_MAX_ATTEMPTS, whatever dies, is reset or overlaps.
THEOREM PdfsTypeCorrect == PdfsSpec => []PdfsTypeOK
<1>. QED BY PdfsTypeInit, PdfsTypeStep, PTL DEF PdfsSpec

-----------------------------------------------------------------------------
\* A print and the reservation it began with are equally old, unless the
\* reservation was cleared; only prints can lose theirs.
Reserved ==
  /\ \A r \in Runs \ forgotten : ~Free(r) => age[current[r]] = took[r]
  /\ \A r \in forgotten : ~Free(r)

PrintInv == OnePrintPerFs /\ Reserved

\* An invoice that is being printed cannot be reserved.
LEMMA NotClaimable ==
  ASSUME PdfsTypeOK, PrintInv, NEW r \in Runs \ forgotten, ~Free(r)
  PROVE  ~Claimable(current[r])
<1>1. current[r] \in Fs /\ took[r] \in 0 .. PrintTicks /\ age[current[r]] = took[r]
  BY DEF PdfsTypeOK, PrintInv, Reserved, Free
<1>. QED BY <1>1, TimeAssumption DEF Claimable

LEMMA TakeReserved ==
  ASSUME PdfsTypeOK, PrintInv, NEW r \in Runs, NEW f \in Fs, Take(r, f)
  PROVE  PrintInv'
<1>1. CASE Claimable(f)
  <2>1. \A s \in Runs : s # r => current'[s] = current[s] /\ took'[s] = took[s]
    BY <1>1 DEF Take, PdfsTypeOK
  <2>2. current'[r] = f /\ took'[r] = 0 /\ age'[f] = 0 /\ forgotten' = forgotten
    BY <1>1 DEF Take, Reserve, PdfsTypeOK
  <2>3. \A s \in Runs \ forgotten : ~Free(s) => current[s] # f
    BY <1>1, NotClaimable
  <2>4. \A g \in Fs : g # f => age'[g] = age[g]
    BY <1>1 DEF Take, Reserve, PdfsTypeOK
  <2>5. f # NoFs /\ r \notin forgotten
    BY FsAssumption DEF Take, PrintInv, Reserved
  <2>6. OnePrintPerFs'
    BY <2>1, <2>2, <2>3, <2>5 DEF PrintInv, OnePrintPerFs, Free
  <2>7. Reserved'
    BY <2>1, <2>2, <2>3, <2>4, <2>5 DEF PrintInv, Reserved, Free, PdfsTypeOK
  <2>. QED BY <2>6, <2>7 DEF PrintInv
<1>2. CASE ~Claimable(f)
  BY <1>2 DEF Take, pdfRow, PrintInv, OnePrintPerFs, Reserved, Free
<1>. QED BY <1>1, <1>2

LEMMA EndReserved ==
  ASSUME PdfsTypeOK, PrintInv, NEW r \in Runs, PrintOk(r) \/ PrintFails(r) \/ RunDies(r)
  PROVE  PrintInv'
<1>1. \A s \in Runs : s # r => current'[s] = current[s] /\ took'[s] = took[s]
  BY DEF PrintOk, PrintFails, Printed, RunDies, PdfsTypeOK
<1>2. current'[r] = NoFs /\ forgotten' = forgotten \ {r} /\ age' = age
  BY DEF PrintOk, PrintFails, Printed, RunDies, pdfRow, PdfsTypeOK
<1>3. OnePrintPerFs'
  BY <1>1, <1>2 DEF PrintInv, OnePrintPerFs, Free
<1>4. Reserved'
  BY <1>1, <1>2 DEF PrintInv, Reserved, Free, PdfsTypeOK
<1>. QED BY <1>3, <1>4 DEF PrintInv

\* A reset that clears the reservation of a print marks the print.
LEMMA ResetReserved ==
  ASSUME PdfsTypeOK, PrintInv, ResetFailedRolPdfs
  PROVE  PrintInv'
<1>1. current' = current /\ took' = took /\ forgotten \subseteq forgotten'
  BY DEF ResetFailedRolPdfs, run
<1>2. OnePrintPerFs'
  BY <1>1 DEF PrintInv, OnePrintPerFs, Free
<1>3. ASSUME NEW r \in Runs \ forgotten', ~Free(r) PROVE age'[current[r]] = took[r]
  <2>1. current[r] \in Fs \ Missing /\ r \notin forgotten
    BY <1>3 DEF ResetFailedRolPdfs, Free, PdfsTypeOK
  <2>. QED BY <1>3, <2>1 DEF ResetFailedRolPdfs, PrintInv, Reserved
<1>4. \A r \in forgotten' : ~Free(r)
  BY FsAssumption DEF ResetFailedRolPdfs, PrintInv, Reserved, Free, Missing, PdfsTypeOK
<1>. QED BY <1>1, <1>2, <1>3, <1>4 DEF PrintInv, Reserved, Free

LEMMA TickReserved ==
  ASSUME PdfsTypeOK, PrintInv, PdfsTick
  PROVE  PrintInv'
<1>1. OnePrintPerFs'
  BY DEF PdfsTick, PrintInv, OnePrintPerFs, Free
<1>2. ASSUME NEW r \in Runs \ forgotten, ~Free(r)
      PROVE  age'[current[r]] = took'[r]
  <2>1. current[r] \in Fs /\ took[r] \in 0 .. PrintTicks /\ took[r] < PrintTicks
    BY <1>2 DEF PdfsTypeOK, Free, PdfsTick
  <2>2. age[current[r]] = took[r] /\ age[current[r]] \in 0 .. ClaimTicks
    BY <1>2, <2>1, TimeAssumption DEF PrintInv, Reserved
  <2>. QED BY <1>2, <2>1, <2>2 DEF PdfsTick
<1>3. Reserved'
  BY <1>2 DEF PdfsTick, PrintInv, Reserved, Free
<1>. QED BY <1>1, <1>3 DEF PrintInv

LEMMA PrintStep ==
  ASSUME PdfsTypeOK, PrintInv, [PdfsNext]_pdfVars
  PROVE  PrintInv'
<1>1. ASSUME UNCHANGED <<age, current, took, forgotten>> PROVE PrintInv'
  BY <1>1 DEF PrintInv, OnePrintPerFs, Reserved, Free
<1>. QED
  BY <1>1, TakeReserved, EndReserved, ResetReserved, TickReserved
  DEF PdfsNext, StartRun, BudgetSpent, Want, Unwant, pdfRow, run, pdfVars

LEMMA PrintHolds == PdfsSpec => []PrintInv
<1>1. PdfsInit => PrintInv
  BY DEF PdfsInit, PrintInv, OnePrintPerFs, Reserved, Free
<1>2. PdfsTypeOK /\ PrintInv /\ [PdfsNext]_pdfVars => PrintInv'
  BY PrintStep
<1>. QED BY <1>1, <1>2, PdfsTypeCorrect, PTL DEF PdfsSpec

\* Two runs print the same invoice at once only after a reset, however many
\* overlap and die, for any durations with a print within its reservation.
THEOREM PrintedByOneRun == PdfsSpec => []OnePrintPerFs
<1>1. PrintInv => OnePrintPerFs
  BY DEF PrintInv
<1>. QED BY <1>1, PrintHolds, PTL
=============================================================================
