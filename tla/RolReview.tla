------------------------------ MODULE RolReview ------------------------------
(***************************************************************************)
(* The ROL batches of several clients over one stretch of time: scans fill *)
(* them from Subiekt (src/lib/rol/scan.ts, merge.ts, data.ts), people      *)
(* include, exclude and assign invoices, approve, reopen and send them.    *)
(*                                                                         *)
(* An invoice (FS) may match more than one client; a client may have short *)
(* reports beside the monthly one, over the same days, and its accounts    *)
(* and its reports may be changed at any time.  All invoices of the model  *)
(* are dated in the days of every range and have goods to report.          *)
(***************************************************************************)
EXTENDS FiniteSets, Naturals

CONSTANTS
  Programs,   \* rol_programs
  Short,      \* kinds of reports over less than a month: 'week', '2weeks'
  Fs,         \* invoices
  Scans       \* processes that scan: the cron, people's "Check again"

Ranges  == Short \cup {"month"}
Batches == Programs \X Ranges

Program(b) == b[1]
Period(b)  == b[2]

VARIABLES
  matches,    \* clients each invoice matches by payer or recipient (kh_ids)
  active,     \* clients that are reported (rol_programs.active)
  frequency,  \* rol_programs.report_frequency
  status,     \* rol_batches.status; "none": no row
  mark,       \* excluded and excluded_reason of each invoice of each batch
  hash,       \* content_hash: the draft last written
  draft,      \* what a running scan has worked out, for each client
  todo,       \* the clients whose draft it still has to save
  range,      \* the range it scans
  decided,    \* history: the invoices of a batch a person has decided on, as long as no
              \* scan has written over the decision
  crossed,    \* history: clients whose reports of two ranges were scanned at once
  blind       \* history: invoices a client got although another one's list had them

programs == <<matches, active, frequency>>
lists    == <<status, mark, hash>>
scans    == <<draft, todo, range>>
history  == <<decided, crossed, blind>>
vars == <<programs, lists, scans, history>>

Statuses == {"none", "wykryte", "brak_zakupow", "przejrzane", "wyslane"}

\* "in": included; "here": ROL_ASSIGNED_HERE_REASON.  Excluded: "conflict" by
\* ROL_CONFLICT_REASON, "elsewhere" by rolAssignedElsewhereReason, "hand" by a person.
Marks == {"absent", "in", "here", "conflict", "elsewhere", "hand"}
Included == {"in", "here"}
Contested == {"conflict", "elsewhere"}

Drafts == [Fs -> {"absent", "in", "conflict"}]
NoDraft == [f \in Fs |-> "absent"]

\* A batch holds the invoices of the draft last written to it, and its status
\* says whether there are any.
ContentOK ==
  \A b \in Batches :
    /\ \A f \in Fs : mark[b][f] = "absent" <=> hash[b][f] = "absent"
    /\ hash[b] = NoDraft <=> status[b] \in {"none", "brak_zakupow"}

TypeOK ==
  /\ matches \in [Fs -> SUBSET Programs]
  /\ active \subseteq Programs /\ frequency \in [Programs -> Ranges]
  /\ status \in [Batches -> Statuses]
  /\ mark \in [Batches -> [Fs -> Marks]]
  /\ hash \in [Batches -> Drafts]
  /\ draft \in [Scans -> [Programs -> Drafts]]
  /\ todo \in [Scans -> SUBSET Programs]
  /\ range \in [Scans -> Ranges]
  /\ decided \subseteq Batches \X Fs /\ crossed \subseteq Programs /\ blind \subseteq Fs
  /\ ContentOK

Init ==
  /\ matches \in [Fs -> SUBSET Programs]
  /\ active \in SUBSET Programs /\ frequency \in [Programs -> Ranges]
  /\ status = [b \in Batches |-> "none"]
  /\ mark = [b \in Batches |-> [f \in Fs |-> "absent"]]
  /\ hash = [b \in Batches |-> NoDraft]
  /\ draft = [s \in Scans |-> [p \in Programs |-> NoDraft]]
  /\ todo = [s \in Scans |-> {}]
  /\ range = [s \in Scans |-> "month"]
  /\ decided = {} /\ crossed = {} /\ blind = {}

\* programsForRange: the monthly report is for everyone who is active.
ProgramsForRange(r) == {p \in active : r = "month" \/ frequency[p] = r}

\* The lists that report an invoice or may include it again: the others have it in
\* conflict, or have given it up.
Owning == {"in", "here", "hand"}
ListedElsewhere(p, f) ==
  \E b \in Batches : Program(b) # p /\ mark[b][f] \in Owning

-----------------------------------------------------------------------------
(* Scans.                                                                  *)

\* Mutant: a scan does not look at what the client's other reports hold.
ClaimedNothing(p, r) == {}

\* loadClaimedFs: the client has the invoice in another report over these days.
Claimed(p, r) ==
  {f \in Fs : \E b \in Batches : Program(b) = p /\ Period(b) # r /\ mark[b][f] # "absent"}

\* assignFsToPrograms among the clients of this range; claimed ones drop out
\* afterwards, and leave the others with a conflict.
DraftFor(p, r) ==
  [f \in Fs |->
     IF p \notin matches[f] \/ f \in Claimed(p, r) THEN "absent"
     ELSE IF Cardinality(matches[f] \cap ProgramsForRange(r)) > 1 THEN "conflict"
     ELSE "in"]

\* runRolScan reads the claims and the invoices, and works out every draft.
StartScan(s, r) ==
  /\ ProgramsForRange(r) # {}
  /\ todo[s] = {}
  /\ range' = [range EXCEPT ![s] = r]
  /\ todo' = [todo EXCEPT ![s] = ProgramsForRange(r)]
  /\ draft' = [draft EXCEPT ![s] = [p \in Programs |-> DraftFor(p, r)]]
  /\ UNCHANGED <<programs, lists, history>>

\* Mutant: an included invoice stays so, whatever the scan has found out.
AfterRescanKeepingIncluded(prev, new) ==
  IF new = "absent" THEN "absent"
  ELSE IF prev \in {"in", "here", "elsewhere", "hand"} THEN prev ELSE new

\* rolInvoiceAfterRescan: only an explicit decision of a person wins.
Kept == {"here", "elsewhere", "hand"}
AfterRescan(prev, new) ==
  IF new = "absent" THEN "absent" ELSE IF prev \in Kept THEN prev ELSE new

DraftStatus(d) == IF d = NoDraft THEN "brak_zakupow" ELSE "wykryte"

Finished(s, p) ==
  LET left == todo[s] \ {p} IN
  /\ todo' = [todo EXCEPT ![s] = left]
  /\ draft' = [draft EXCEPT ![s] = IF left = {} THEN [q \in Programs |-> NoDraft]
                                   ELSE [@ EXCEPT ![p] = NoDraft]]
  /\ range' = [range EXCEPT ![s] = IF left = {} THEN "month" ELSE @]

\* saveRolScan, one transaction per client (two that create the same batch are
\* the matter of RolSending).  "late" and "touch" change nothing here; quantities
\* may have changed too, so an equal draft may also replace.
SaveDraft(s, p) ==
  LET b == <<p, range[s]>>
      d == draft[s][p]
  IN
  /\ p \in todo[s]
  /\ Finished(s, p)
  /\ \/ /\ status[b] = "wyslane" \/ (status[b] # "none" /\ hash[b] = d)
        /\ UNCHANGED <<lists, history>>
     \/ /\ status[b] # "wyslane"
        /\ status' = [status EXCEPT ![b] = DraftStatus(d)]
        /\ mark' = [mark EXCEPT ![b] = [f \in Fs |-> AfterRescan(@[f], d[f])]]
        /\ hash' = [hash EXCEPT ![b] = d]
        /\ crossed' = crossed \cup
             {q \in {p} : \E t \in Scans : p \in todo[t] /\ range[t] # range[s]}
        /\ blind' = blind \cup
             {f \in Fs : d[f] = "in" /\ mark[b][f] \notin Owning /\ ListedElsewhere(p, f)}
        /\ decided' = decided \
             {<<b, f>> : f \in {g \in Fs : d[g] = "absent" \/ mark[b][g] \notin Kept}}
  /\ UNCHANGED programs

\* An error in one transaction ends the scan: the remaining drafts are not saved.
AbortScan(s) ==
  /\ todo[s] # {}
  /\ todo' = [todo EXCEPT ![s] = {}]
  /\ draft' = [draft EXCEPT ![s] = [p \in Programs |-> NoDraft]]
  /\ range' = [range EXCEPT ![s] = "month"]
  /\ UNCHANGED <<programs, lists, history>>

-----------------------------------------------------------------------------
(* People: transactions on a locked, editable batch.                       *)

Decide(b, f) == decided' = decided \cup {<<b, f>>}

\* mode "exclude": the page offers it for an included invoice, the server accepts it
\* for any: on a page loaded before, it wipes out the reason that marks a contested one.
ExcludeFs(b, f) ==
  /\ status[b] = "wykryte" /\ mark[b][f] # "absent"
  /\ mark' = [mark EXCEPT ![b][f] = "hand"]
  /\ Decide(b, f)
  /\ blind' = blind \cup
       {g \in {f} : mark[b][f] \in Contested /\ ListedElsewhere(Program(b), f)}
  /\ UNCHANGED <<programs, status, hash, scans, crossed>>

\* mode "include": the page offers it for one excluded by hand, the server refuses
\* only a contested one.
IncludeFs(b, f) ==
  /\ status[b] = "wykryte" /\ mark[b][f] \notin Contested \cup {"absent"}
  /\ mark' = [mark EXCEPT ![b][f] = "in"]
  /\ Decide(b, f)
  /\ UNCHANGED <<programs, status, hash, scans, crossed, blind>>

\* The other overlapping batches that hold the invoice.
Others(b, f) == {o \in Batches \ {b} : mark[o][f] # "absent"}

\* Mutant: the lists of other clients are not checked before they are changed.
AssignFsUnchecked(b, f) ==
  /\ status[b] = "wykryte" /\ mark[b][f] \in Contested
  /\ mark' = [o \in Batches |->
       IF o = b THEN [mark[o] EXCEPT ![f] = "here"]
       ELSE IF o \in Others(b, f) THEN [mark[o] EXCEPT ![f] = "elsewhere"]
       ELSE mark[o]]
  /\ Decide(b, f)
  /\ UNCHANGED <<programs, status, hash, scans, crossed, blind>>

\* Mutant: lists that can no longer be edited are skipped, not refused.
AssignFsSkipping(b, f) ==
  /\ status[b] = "wykryte" /\ mark[b][f] \in Contested
  /\ mark' = [o \in Batches |->
       IF o = b THEN [mark[o] EXCEPT ![f] = "here"]
       ELSE IF o \in Others(b, f) /\ status[o] = "wykryte"
         THEN [mark[o] EXCEPT ![f] = "elsewhere"]
       ELSE mark[o]]
  /\ Decide(b, f)
  /\ UNCHANGED <<programs, status, hash, scans, crossed, blind>>

\* mode "assign": every other batch with the invoice must be editable, and
\* gives it up.
AssignFs(b, f) ==
  /\ status[b] = "wykryte" /\ mark[b][f] \in Contested
  /\ \A o \in Others(b, f) : status[o] = "wykryte"
  /\ mark' = [o \in Batches |->
       IF o = b THEN [mark[o] EXCEPT ![f] = "here"]
       ELSE IF o \in Others(b, f) THEN [mark[o] EXCEPT ![f] = "elsewhere"]
       ELSE mark[o]]
  /\ Decide(b, f)
  /\ UNCHANGED <<programs, status, hash, scans, crossed, blind>>

SetStatus(b, from, to) ==
  /\ status[b] = from
  /\ status' = [status EXCEPT ![b] = to]
  /\ UNCHANGED <<programs, mark, hash, scans, history>>

\* rolApproveError: no open conflict, and something to report.
ApproveRolBatch(b) ==
  /\ \A f \in Fs : mark[b][f] # "conflict"
  /\ \E f \in Fs : mark[b][f] \in Included
  /\ SetStatus(b, "wykryte", "przejrzane")

ReopenRolBatch(b) == SetStatus(b, "przejrzane", "wykryte")

\* The whole of RolSending, seen from here.
SendBatch(b) == SetStatus(b, "przejrzane", "wyslane")

\* saveRolProgram replaces what a client is: its accounts, and with them the invoices
\* that match it (two clients may have one account, and an account may move), whether
\* it is active, and its reports.
SaveRolProgram(p) ==
  /\ \E own \in SUBSET Fs :
       matches' = [f \in Fs |-> IF f \in own THEN matches[f] \cup {p} ELSE matches[f] \ {p}]
  /\ \E on \in {{}, {p}} : active' = (active \ {p}) \cup on
  /\ \E r \in Ranges : frequency' = [frequency EXCEPT ![p] = r]
  /\ UNCHANGED <<lists, scans, history>>

Next ==
  \/ \E s \in Scans :
       \/ \E r \in Ranges : StartScan(s, r)
       \/ \E p \in Programs : SaveDraft(s, p)
       \/ AbortScan(s)
  \/ \E b \in Batches :
       \/ \E f \in Fs : ExcludeFs(b, f) \/ IncludeFs(b, f) \/ AssignFs(b, f)
       \/ ApproveRolBatch(b) \/ ReopenRolBatch(b) \/ SendBatch(b)
  \/ \E p \in Programs : SaveRolProgram(p)

Spec == Init /\ [][Next]_vars

-----------------------------------------------------------------------------
Frozen(b) == status[b] \in {"przejrzane", "wyslane"}

\* A client's invoice is reported in one of its reports only: scans leave alone what
\* a report of an overlapping period has (loadClaimedFs), however the client's reports
\* are changed between them.  It holds until scans of two ranges are under way at
\* once for the client: the second one to save has read the claims too early.
OncePerProgram ==
  \A f \in Fs : \A b, c \in Batches :
    (/\ Program(b) = Program(c) /\ Program(b) \notin crossed
     /\ mark[b][f] \in Included /\ mark[c][f] \in Included) => b = c

\* An invoice is not reported for two clients: approved or sent lists do not share one
\* (setRolInvoice: at the other client it stays excluded).  There are two ways round the
\* assignment: a scan that finds the invoice undisputed while another client's list
\* has it (its account has moved, the reports differ, a scan was overtaken), and an
\* exclusion on an old page.
OneClientPerFs ==
  \A f \in Fs \ blind : \A b, c \in Batches :
    (/\ Frozen(b) /\ Frozen(c)
     /\ mark[b][f] \in Included /\ mark[c][f] \in Included) => Program(b) = Program(c)

\* Nothing another batch or scan does changes an approved list under its reader:
\* it changes only by leaving "przejrzane".
ApprovedListIsFixed ==
  [][\A b \in Batches : Frozen(b) /\ Frozen(b)' => mark'[b] = mark[b]]_vars

\* An invoice in which the last scan saw a conflict is reported only after a
\* person's decision (ROL_CONFLICT_REASON, constants.ts:3): no rescan, changed account
\* or decision at another client brings it in by itself.
ConflictNeedsDecision ==
  \A b \in Batches, f \in Fs :
    (hash[b][f] = "conflict" /\ mark[b][f] \in Included) => <<b, f>> \in decided
=============================================================================
