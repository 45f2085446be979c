----------------------------- MODULE RolSending -----------------------------
(***************************************************************************)
(* One monthly ROL batch on its way to the supplier: src/lib/rol/send.ts   *)
(* (ensureRolZd, sendRolMail) over send-io.ts, run by people's mail        *)
(* dialogs (RolMailDialog.tsx -> actions/rol.ts), while other people edit, *)
(* approve and reopen the list (data.ts) and scans replace it (merge.ts).  *)
(*                                                                         *)
(* A dialog first makes sure that a purchase document (ZD) exists in       *)
(* Subiekt and agrees with the list, then mails the list.  Each step loads *)
(* its context, takes the lock rol_batches.sending_at, works, and unlocks. *)
(* Subiekt and Gmail are external.  The list is one value: what it orders. *)
(***************************************************************************)
EXTENDS Integers, Sequences

CONSTANTS
  Dialogs,    \* mail dialogs open in browsers, each running one step at a time
  Lists,      \* contents a list can have, apart from the empty one
  NoList,     \* no active line at all; also: nothing loaded
  NoLock,     \* sending_at IS NULL
  LockTtl,    \* LOCK_MINUTES, in ticks
  MaxZds,     \* bound: documents in Subiekt with this batch's description
  MaxMails,   \* bound: mails of this batch that left Gmail
  Faults      \* what goes wrong in this instance

FaultKinds == { "crash",     \* a server process dies between two steps
                "lost",      \* a reply of Subiekt, Gmail or the database is lost
                "late",      \* Subiekt finishes a create after its caller gave up
                "old",       \* a retry comes more than FIND_DAYS later
                "overrun",   \* a step takes longer than LOCK_MINUTES
                "firstScans" } \* two scans create the batch at the same time

ASSUME ListAssumption == NoList \notin Lists
ASSUME LockAssumption == NoLock \notin Int /\ LockTtl \in Nat
ASSUME BoundAssumption == MaxZds \in Nat /\ MaxMails \in Nat
ASSUME FaultAssumption == Faults \subseteq FaultKinds

VARIABLES
  \* the row of rol_batches with its invoices and lines
  status, list, sending, zdDok,
  \* a scan that saw no row and is about to insert one
  scan,
  \* the dialogs: step, and the context loaded before the lock
  at, ctxZd, ctxList, doc,
  \* Subiekt: lines of each document, those out of FIND_DAYS, a late create
  zds, oldZds, late,
  \* Gmail: mails delivered; rol_sends: how many the history knows
  mails, sends

row   == <<status, list, sending, zdDok>>
dialogs == <<at, ctxZd, ctxList, doc>>
subiekt == <<zds, oldZds, late>>
gmail == <<mails, sends>>
vars  == <<row, scan, dialogs, subiekt, gmail>>

Statuses == {"none", "wykryte", "brak_zakupow", "przejrzane", "wyslane"}
AnyList  == Lists \cup {NoList}
ZdIds    == 0..Len(zds)                    \* 0: zd_dok_id IS NULL

ZdSteps   == {"zdIn", "zdCreate", "zdSave", "zdCheck", "zdOk", "zdErr"}
MailSteps == {"mailIn", "mailSave", "mailDone", "mailErr"}
Section   == ZdSteps \cup MailSteps        \* between lock and unlock
Steps     == {"idle", "zdRead", "zdLock", "ready", "mailRead", "mailLock"} \cup Section

RowOK ==
  /\ status \in Statuses /\ list \in AnyList
  /\ sending \in {NoLock} \cup Int
  /\ zdDok \in ZdIds /\ scan \in BOOLEAN

RequestsOK ==
  /\ ctxZd \in [Dialogs -> ZdIds] /\ ctxList \in [Dialogs -> AnyList]
  /\ doc \in [Dialogs -> ZdIds]
  /\ \A d \in Dialogs : at[d] = "zdCreate" => ctxList[d] \in Lists

WorldOK ==
  /\ zds \in Seq(Lists) /\ Len(zds) <= MaxZds
  /\ oldZds \subseteq 1..Len(zds) /\ late \in AnyList
  /\ mails \in 0..MaxMails /\ sends \in Nat

\* Every document number the program holds is one that Subiekt has given, and a
\* document is only created for a list that orders something.
TypeOK == RowOK /\ at \in [Dialogs -> Steps] /\ RequestsOK /\ WorldOK

Init ==
  /\ status = "none" /\ list = NoList /\ sending = NoLock /\ zdDok = 0
  /\ scan = FALSE
  /\ at = [d \in Dialogs |-> "idle"]
  /\ ctxZd = [d \in Dialogs |-> 0] /\ ctxList = [d \in Dialogs |-> NoList]
  /\ doc = [d \in Dialogs |-> 0]
  /\ zds = <<>> /\ oldZds = {} /\ late = NoList
  /\ mails = 0 /\ sends = 0

-----------------------------------------------------------------------------
(* Scans, edits and approval: transactions that lock the row.              *)

SentStatuses == {"wyslane"}

\* "replace" of decideRolMerge.  A draft without lines is "brak_zakupow"; the
\* content of any other keeps the user's decisions, so it may be any list.
Replace ==
  \/ status' = "wykryte" /\ list' \in AnyList
  \/ status' = "brak_zakupow" /\ list' = NoList

\* saveRolScan on an existing row, when the content hash has changed.
Rescan ==
  /\ status \notin SentStatuses \cup {"none"}
  /\ Replace
  /\ UNCHANGED <<sending, zdDok, scan, dialogs, subiekt, gmail>>

\* A scan finds no row: its decision is already made.
FirstScanSelect ==
  /\ status = "none" /\ ~scan
  /\ scan' = TRUE
  /\ UNCHANGED <<row, dialogs, subiekt, gmail>>

\* It inserts the row and writes its content.  ON CONFLICT takes the row another
\* scan has inserted meanwhile ("firstScans"), whatever has become of it.
FirstScanInsert ==
  /\ scan
  /\ Replace
  /\ scan' = ("firstScans" \in Faults /\ status = "none")
  /\ UNCHANGED <<sending, zdDok, dialogs, subiekt, gmail>>

\* setRolInvoice, setRolLine: only under lockEditableBatch.
EditList ==
  /\ status = "wykryte"
  /\ list' \in AnyList
  /\ UNCHANGED <<status, sending, zdDok, scan, dialogs, subiekt, gmail>>

ApproveRolBatch ==
  /\ status = "wykryte" /\ list # NoList
  /\ status' = "przejrzane"
  /\ UNCHANGED <<list, sending, zdDok, scan, dialogs, subiekt, gmail>>

\* Mutant: a sent batch can be reopened too.
ReopenAnyBatch ==
  /\ status \in {"przejrzane", "wyslane"}
  /\ status' = "wykryte"
  /\ UNCHANGED <<list, sending, zdDok, scan, dialogs, subiekt, gmail>>

ReopenRolBatch ==
  /\ status = "przejrzane"
  /\ status' = "wykryte"
  /\ UNCHANGED <<list, sending, zdDok, scan, dialogs, subiekt, gmail>>

-----------------------------------------------------------------------------
(* The lock.                                                               *)

\* Mutants: the lock looks at the status only; the lock never expires.
LockableByStatus == status = "przejrzane"
LockableWithoutExpiry == status = "przejrzane" /\ sending = NoLock

Lockable ==
  /\ status = "przejrzane"
  /\ sending = NoLock \/ (sending # NoLock /\ sending < 0)

Goto(d, s) == at' = [at EXCEPT ![d] = s]

\* The request is over: what it had loaded is gone.
Drop(d) ==
  /\ ctxZd' = [ctxZd EXCEPT ![d] = 0]
  /\ ctxList' = [ctxList EXCEPT ![d] = NoList]
  /\ doc' = [doc EXCEPT ![d] = 0]

\* underLock: work under the lock, or report the refusal and stay outside.
Lock(d, from, inside, refused) ==
  /\ at[d] = from
  /\ \/ /\ Lockable /\ sending' = LockTtl
        /\ Goto(d, inside) /\ UNCHANGED <<ctxZd, ctxList, doc>>
     \/ /\ ~Lockable /\ UNCHANGED sending
        /\ Goto(d, refused) /\ Drop(d)
  /\ UNCHANGED <<status, list, zdDok, scan, subiekt, gmail>>

\* finally { unlock }: clears sending_at, whoever set it.
Unlock(d) ==
  /\ \E s \in {<<"zdOk", "ready">>, <<"zdErr", "idle">>,
               <<"mailErr", "ready">>, <<"mailDone", "idle">>} :
       at[d] = s[1] /\ Goto(d, s[2])
  /\ Drop(d)
  /\ sending' = NoLock
  /\ UNCHANGED <<status, list, zdDok, scan, subiekt, gmail>>

-----------------------------------------------------------------------------
(* Step 1: ensureRolZd.                                                    *)

\* actionRolEnsureZd loads the batch: first its row ...
OpenZd(d) ==
  /\ at[d] = "idle" /\ status # "none"
  /\ Goto(d, "zdRead")
  /\ ctxZd' = [ctxZd EXCEPT ![d] = zdDok]
  /\ UNCHANGED <<row, scan, ctxList, doc, subiekt, gmail>>

\* ... then its invoices and lines.
ReadZdList(d) ==
  /\ at[d] = "zdRead"
  /\ Goto(d, "zdLock")
  /\ ctxList' = [ctxList EXCEPT ![d] = list]
  /\ UNCHANGED <<row, scan, ctxZd, doc, subiekt, gmail>>

LockZd(d) == Lock(d, "zdLock", "zdIn", "idle")

\* A PDF is missing, or the list is empty; a search that fails ends the same way.
RefuseZd(d) ==
  /\ at[d] = "zdIn"
  /\ Goto(d, "zdErr")
  /\ UNCHANGED <<row, scan, ctxZd, ctxList, doc, subiekt, gmail>>

\* Mutant: create without looking for a document a broken attempt has left.
FindableNever == {}

\* Documents findExisting can see: they differ from each other in nothing it
\* looks at (supplier, description, date).
Findable == (1..Len(zds)) \ oldZds

\* Mutant: the check for an empty list is gone.
FindZdForAnyList(d) ==
  /\ at[d] = "zdIn" /\ ctxZd[d] = 0 /\ Findable = {}
  /\ Goto(d, "zdCreate")
  /\ UNCHANGED <<row, scan, ctxZd, ctxList, doc, subiekt, gmail>>

\* ctx.batch.zdDokId, else findExisting, else create.
FindZd(d) ==
  /\ at[d] = "zdIn" /\ ctxList[d] # NoList
  /\ \/ /\ ctxZd[d] # 0
        /\ doc' = [doc EXCEPT ![d] = ctxZd[d]] /\ Goto(d, "zdCheck")
     \/ /\ ctxZd[d] = 0
        /\ \E z \in Findable : doc' = [doc EXCEPT ![d] = z]
        /\ Goto(d, "zdSave")
     \/ /\ ctxZd[d] = 0 /\ Findable = {}
        /\ Goto(d, "zdCreate") /\ UNCHANGED doc
  /\ UNCHANGED <<row, scan, ctxZd, ctxList, subiekt, gmail>>

\* Subiekt writes the document and answers.
CreateZd(d) ==
  /\ at[d] = "zdCreate" /\ Len(zds) < MaxZds
  /\ zds' = Append(zds, ctxList[d])
  /\ doc' = [doc EXCEPT ![d] = Len(zds) + 1]
  /\ Goto(d, "zdSave")
  /\ UNCHANGED <<row, scan, ctxZd, ctxList, oldZds, late, gmail>>

\* The create fails for the caller: nothing was written; or it was and the
\* reply is lost; or it will be, after the caller's timeout.
CreateZdFails(d) ==
  /\ at[d] = "zdCreate"
  /\ Goto(d, "zdErr")
  /\ \/ UNCHANGED <<zds, late>>
     \/ /\ "lost" \in Faults /\ Len(zds) < MaxZds
        /\ zds' = Append(zds, ctxList[d]) /\ UNCHANGED late
     \/ /\ "late" \in Faults /\ late = NoList
        /\ late' = ctxList[d] /\ UNCHANGED zds
  /\ UNCHANGED <<row, scan, ctxZd, ctxList, doc, oldZds, gmail>>

\* saveZd, before the verification.
SaveZd(d) ==
  /\ at[d] = "zdSave"
  /\ zdDok' = doc[d]
  /\ Goto(d, "zdCheck")
  /\ UNCHANGED <<status, list, sending, scan, ctxZd, ctxList, doc, subiekt, gmail>>

SaveZdFails(d) ==
  /\ at[d] = "zdSave" /\ "lost" \in Faults
  /\ Goto(d, "zdErr")
  /\ UNCHANGED <<row, scan, ctxZd, ctxList, doc, subiekt, gmail>>

\* rolZdMismatch(pozycje, readLines(doc)): the same goods and quantities.
VerifyZd(d) ==
  /\ at[d] = "zdCheck"
  /\ Goto(d, IF zds[doc[d]] = ctxList[d] THEN "zdOk" ELSE "zdErr")
  /\ UNCHANGED <<row, scan, ctxZd, ctxList, doc, subiekt, gmail>>

-----------------------------------------------------------------------------
(* Step 2: sendRolMail.                                                    *)

\* actionRolSendMail loads the row ...
OpenMail(d) ==
  /\ at[d] = "ready"
  /\ Goto(d, "mailRead")
  /\ ctxZd' = [ctxZd EXCEPT ![d] = zdDok]
  /\ UNCHANGED <<row, scan, ctxList, doc, subiekt, gmail>>

\* ... and, with reads of their own, the files of the list.
ReadMailList(d) ==
  /\ at[d] = "mailRead"
  /\ Goto(d, "mailLock")
  /\ ctxList' = [ctxList EXCEPT ![d] = list]
  /\ UNCHANGED <<row, scan, ctxZd, doc, subiekt, gmail>>

CloseDialog(d) ==
  /\ at[d] = "ready"
  /\ Goto(d, "idle") /\ Drop(d)
  /\ UNCHANGED <<row, scan, subiekt, gmail>>

LockMail(d) == Lock(d, "mailLock", "mailIn", "ready")

\* Mutant: the result of the send is not looked at.
RefuseMailUnnoticed(d) ==
  /\ at[d] = "mailIn"
  /\ Goto(d, "mailSave")
  /\ UNCHANGED <<row, scan, ctxZd, ctxList, doc, subiekt, gmail>>

\* No ZD, a missing PDF, or Gmail refuses.
RefuseMail(d) ==
  /\ at[d] = "mailIn"
  /\ Goto(d, "mailErr")
  /\ UNCHANGED <<row, scan, ctxZd, ctxList, doc, subiekt, gmail>>

\* Gmail delivers; without an answer, nor a trace in "sent" yet, the caller
\* reports the send as uncertain.
SendMail(d) ==
  /\ at[d] = "mailIn" /\ ctxZd[d] # 0 /\ mails < MaxMails
  /\ mails' = mails + 1
  /\ \/ Goto(d, "mailSave")
     \/ "lost" \in Faults /\ Goto(d, "mailErr")
  /\ UNCHANGED <<row, scan, ctxZd, ctxList, doc, subiekt, sends>>

\* One transaction: the history row and the status.
MarkSent(d) ==
  /\ at[d] = "mailSave"
  /\ status' = "wyslane" /\ sending' = NoLock
  /\ sends' = sends + 1
  /\ Goto(d, "mailDone")
  /\ UNCHANGED <<list, zdDok, scan, ctxZd, ctxList, doc, subiekt, mails>>

MarkSentFails(d) ==
  /\ at[d] = "mailSave" /\ "lost" \in Faults
  /\ Goto(d, "mailErr")
  /\ UNCHANGED <<row, scan, ctxZd, ctxList, doc, subiekt, gmail>>

-----------------------------------------------------------------------------
(* What happens around them.                                               *)

\* The server dies under a request, or the browser goes away: no unlock.
Crash(d) ==
  /\ "crash" \in Faults /\ at[d] # "idle"
  /\ Goto(d, "idle") /\ Drop(d)
  /\ UNCHANGED <<row, scan, subiekt, gmail>>

\* Subiekt finishes a create nobody waits for any more.
LateZdLands ==
  /\ late # NoList /\ Len(zds) < MaxZds
  /\ zds' = Append(zds, late)
  /\ late' = NoList
  /\ UNCHANGED <<row, scan, dialogs, oldZds, gmail>>

\* FIND_DAYS pass: no request lasts that long.
ZdsGetOld ==
  /\ "old" \in Faults /\ \A d \in Dialogs : at[d] \in {"idle", "ready"}
  /\ oldZds # 1..Len(zds)
  /\ oldZds' = 1..Len(zds)
  /\ UNCHANGED <<row, scan, dialogs, zds, late, gmail>>

\* After "check it before the mail" a person makes the document agree.
CorrectZd ==
  /\ zdDok # 0 /\ list # NoList
  /\ zds' = [zds EXCEPT ![zdDok] = list]
  /\ UNCHANGED <<row, scan, dialogs, oldZds, late, gmail>>

\* Time passes.  Unless "overrun", a step ends before its lock expires.
Tick ==
  /\ sending # NoLock /\ sending >= 0
  /\ \/ "overrun" \in Faults \/ sending > 0
     \/ \A d \in Dialogs : at[d] \notin Section
  /\ sending' = sending - 1
  /\ UNCHANGED <<status, list, zdDok, scan, dialogs, subiekt, gmail>>

Review == Rescan \/ EditList \/ ApproveRolBatch \/ ReopenRolBatch

ZdStep(d) ==
  \/ ReadZdList(d) \/ LockZd(d) \/ RefuseZd(d) \/ FindZd(d)
  \/ CreateZd(d) \/ CreateZdFails(d) \/ SaveZd(d) \/ SaveZdFails(d) \/ VerifyZd(d)

MailStep(d) ==
  \/ ReadMailList(d) \/ LockMail(d) \/ RefuseMail(d) \/ SendMail(d) \/ MarkSent(d) \/ MarkSentFails(d)

Next ==
  \/ FirstScanSelect \/ FirstScanInsert
  \/ Review
  \/ \E d \in Dialogs :
       \/ OpenZd(d) \/ ZdStep(d)
       \/ OpenMail(d) \/ CloseDialog(d) \/ MailStep(d)
       \/ Unlock(d) \/ Crash(d)
  \/ LateZdLands \/ ZdsGetOld \/ CorrectZd \/ Tick

Spec == Init /\ [][Next]_vars

\* The clock runs and a request that is being served gets on, or dies.
Fairness ==
  /\ WF_vars(Tick)
  /\ \A d \in Dialogs : WF_vars(ZdStep(d) \/ MailStep(d) \/ Unlock(d))

FairSpec == Spec /\ Fairness

-----------------------------------------------------------------------------
\* However many people press "send", whatever they do to the list meanwhile, a
\* mail leaves only if no other is in the history or about to get there: the
\* supplier gets the batch twice only if the outcome of the first mail was lost
\* (plan, "Double click / two people").
MailedOnceUnlessLost ==
  [][mails' # mails => sends = 0 /\ \A d \in Dialogs : at[d] # "mailSave"]_vars

\* Subiekt never holds two documents for the batch: a retry finds the one a
\* broken attempt has left (send.ts:98).
AtMostOneZd == Len(zds) <= 1

\* "wyslane" only after Gmail delivered, and the history tells no more mails
\* than there were (sendRolMail: "only after Gmail has confirmed").
HistoryIsTrue ==
  /\ status = "wyslane" => mails # 0
  /\ sends <= mails

\* A saved ZD number is never replaced or lost, even by a dialog that loaded
\* the batch before it was saved (ensureRolZd works on a loaded context).
ZdNumberStable == [][zdDok # 0 => zdDok' = zdDok]_vars

\* There is no way back from "wyslane", and its content stays (merge.ts:22).
SentIsFinal == [][status = "wyslane" => status' = "wyslane" /\ list' = list]_vars

\* A lock nobody will release does not block an approved batch for ever
\* (LOCK_MINUTES, send-io.ts:11).
LockComesBack == []<>(status = "przejrzane" => Lockable)

\* The steps under the lock are an exclusive section.
Sections == INSTANCE ExclusiveSection WITH
  Jobs <- Dialogs, inside <- {d \in Dialogs : at[d] \in Section}
SectionSpec == Sections!Spec
=============================================================================
