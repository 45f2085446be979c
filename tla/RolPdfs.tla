------------------------------- MODULE RolPdfs -------------------------------
(***************************************************************************)
(* src/lib/rol/pdfs.ts: invoices (FS) of ROL batches that are not sent yet *)
(* are printed to PDF by Subiekt and kept in rol_fs_pdfs.  Runs of         *)
(* fetchMissingRolPdfs start from the cron, after a scan and on request,   *)
(* and may overlap; each reserves an invoice before it prints it.          *)
(*                                                                         *)
(* No row and a reset row behave alike and are one state.  Age and took    *)
(* count ticks and stop at the first value that no guard tells apart.      *)
(* Names that RolSending has too carry a prefix, for the sake of           *)
(* RolSendingProofs.                                                       *)
(***************************************************************************)
EXTENDS Integers

CONSTANTS
  Fs,           \* invoice numbers: runs take them in this order
  Runs,         \* runs of fetchMissingRolPdfs
  NoFs,         \* a run prints nothing
  MaxAttempts,  \* ROL_PDF_MAX_ATTEMPTS
  ClaimTicks,   \* ROL_PDF_CLAIM_MS
  PrintTicks    \* how long a print may take, its retries included

ASSUME FsAssumption == Fs \subseteq Nat /\ NoFs \notin Fs
ASSUME TimeAssumption ==
  /\ MaxAttempts \in Nat \ {0}
  /\ ClaimTicks \in Nat /\ PrintTicks \in Nat /\ PrintTicks <= ClaimTicks

VARIABLES
  wanted,     \* invoices included in batches that are not sent
  pdf,        \* those whose PDF is stored
  attempts,   \* rol_fs_pdfs.attempts
  age,        \* ticks since last_attempt_at; -1: NULL
  failed,     \* those with a last_error
  todo,       \* for each run, the ids it has read and not come to yet
  current,    \* the invoice it prints
  took,       \* ticks its print has taken
  begun,      \* runs that have begun a print: only then the budget ends them
  forgotten   \* history: printing runs whose reservation a reset has cleared

pdfRow  == <<pdf, attempts, age, failed>>
run     == <<todo, current, took, begun>>
pdfVars == <<wanted, pdfRow, run, forgotten>>

PdfsTypeOK ==
  /\ wanted \subseteq Fs /\ pdf \subseteq Fs /\ failed \subseteq Fs
  /\ attempts \in [Fs -> 0 .. MaxAttempts]
  /\ age \in [Fs -> -1 .. ClaimTicks + 1]
  /\ todo \in [Runs -> SUBSET Fs]
  /\ current \in [Runs -> Fs \cup {NoFs}]
  /\ took \in [Runs -> 0 .. PrintTicks]
  /\ begun \subseteq Runs /\ forgotten \subseteq Runs

PdfsInit ==
  /\ wanted \in SUBSET Fs
  /\ pdf = {} /\ failed = {}
  /\ attempts = [f \in Fs |-> 0]
  /\ age = [f \in Fs |-> -1]
  /\ todo = [r \in Runs |-> {}]
  /\ current = [r \in Runs |-> NoFs]
  /\ took = [r \in Runs |-> 0]
  /\ begun = {} /\ forgotten = {}

-----------------------------------------------------------------------------
\* missingFsIds
Missing == wanted \ pdf

\* countMissingRolPdfs counts these.
Pending == {f \in Missing : attempts[f] < MaxAttempts}

\* Mutant: a reservation that was never finished is never taken over.
ClaimableOnceOnly(f) == f \notin pdf /\ attempts[f] < MaxAttempts /\ age[f] = -1

\* Mutant: the age of the last attempt is not looked at.
ClaimableAnyTime(f) == f \notin pdf /\ attempts[f] < MaxAttempts

\* The WHERE clause of claim().
Claimable(f) ==
  /\ f \notin pdf
  /\ attempts[f] < MaxAttempts
  /\ age[f] = -1 \/ age[f] > ClaimTicks

\* Its SET clause.
Reserve(f) ==
  /\ attempts' = [attempts EXCEPT ![f] = @ + 1]
  /\ age' = [age EXCEPT ![f] = 0]
  /\ failed' = failed \ {f}

Free(r) == current[r] = NoFs
Idle(r) == Free(r) /\ todo[r] = {}

-----------------------------------------------------------------------------
\* fetchMissingRolPdfs reads the ids; the cron does so only if some are pending.
StartRun(r) ==
  /\ Idle(r) /\ Missing # {}
  /\ todo' = [todo EXCEPT ![r] = Missing]
  /\ begun' = begun \ {r}
  /\ UNCHANGED <<wanted, pdfRow, current, took, forgotten>>

\* The run comes to its next id: it reserves and prints it, or skips it.
Take(r, f) ==
  /\ Free(r) /\ f \in todo[r] /\ \A g \in todo[r] : f <= g
  /\ todo' = [todo EXCEPT ![r] = @ \ {f}]
  /\ \/ /\ Claimable(f)
        /\ Reserve(f)
        /\ current' = [current EXCEPT ![r] = f]
        /\ took' = [took EXCEPT ![r] = 0]
        /\ begun' = begun \cup {r}
        /\ UNCHANGED <<wanted, pdf, forgotten>>
     \/ /\ ~Claimable(f)
        /\ UNCHANGED <<wanted, pdfRow, current, took, begun, forgotten>>

\* The time budget is spent: the ids left are skipped.
BudgetSpent(r) ==
  /\ Free(r) /\ todo[r] # {} /\ r \in begun
  /\ todo' = [todo EXCEPT ![r] = {}]
  /\ UNCHANGED <<wanted, pdfRow, current, took, begun, forgotten>>

Printed(r) ==
  /\ ~Free(r)
  /\ current' = [current EXCEPT ![r] = NoFs]
  /\ took' = [took EXCEPT ![r] = 0]
  /\ forgotten' = forgotten \ {r}
  /\ UNCHANGED <<wanted, attempts, age, begun>>

PrintOk(r) ==
  /\ Printed(r)
  /\ pdf' = pdf \cup {current[r]}
  /\ failed' = failed \ {current[r]}
  /\ UNCHANGED todo

\* The print fails, or its result cannot be stored.
PrintFails(r) ==
  /\ Printed(r)
  /\ failed' = failed \cup {current[r]}
  /\ UNCHANGED <<pdf, todo>>

\* The process dies, or the database fails it: the run ends where it is.
RunDies(r) ==
  /\ ~Idle(r)
  /\ todo' = [todo EXCEPT ![r] = {}]
  /\ current' = [current EXCEPT ![r] = NoFs]
  /\ took' = [took EXCEPT ![r] = 0]
  /\ forgotten' = forgotten \ {r}
  /\ UNCHANGED <<wanted, pdfRow, begun>>

\* Mutant: the attempts stay used up.
ResetKeepingAttempts ==
  /\ age' = [f \in Fs |-> IF f \in Missing THEN -1 ELSE age[f]]
  /\ failed' = failed \ Missing
  /\ forgotten' = forgotten \cup {r \in Runs : current[r] \in Missing}
  /\ UNCHANGED <<wanted, pdf, attempts, run>>

\* resetFailedRolPdfs: every missing invoice, also one that is being printed.
ResetFailedRolPdfs ==
  /\ attempts' = [f \in Fs |-> IF f \in Missing THEN 0 ELSE attempts[f]]
  /\ age' = [f \in Fs |-> IF f \in Missing THEN -1 ELSE age[f]]
  /\ failed' = failed \ Missing
  /\ forgotten' = forgotten \cup {r \in Runs : current[r] \in Missing}
  /\ UNCHANGED <<wanted, pdf, run>>

\* Invoices come and go with scans, decisions and sent batches.
Want(f) ==
  /\ wanted' = wanted \cup {f} /\ f \notin wanted
  /\ UNCHANGED <<pdfRow, run, forgotten>>

Unwant(f) ==
  /\ wanted' = wanted \ {f} /\ f \in wanted
  /\ UNCHANGED <<pdfRow, run, forgotten>>

PdfsTick ==
  /\ \A r \in Runs : Free(r) \/ took[r] < PrintTicks
  /\ age' = [f \in Fs |-> IF age[f] \in 0 .. ClaimTicks THEN age[f] + 1 ELSE age[f]]
  /\ took' = [r \in Runs |-> IF Free(r) THEN took[r] ELSE took[r] + 1]
  /\ UNCHANGED <<wanted, pdf, attempts, failed, todo, current, begun, forgotten>>

PdfsNext ==
  \/ \E r \in Runs :
       \/ StartRun(r) \/ BudgetSpent(r) \/ PrintOk(r) \/ PrintFails(r) \/ RunDies(r)
       \/ \E f \in Fs : Take(r, f)
  \/ \E f \in Fs : Want(f) \/ Unwant(f)
  \/ ResetFailedRolPdfs
  \/ PdfsTick

PdfsSpec == PdfsInit /\ [][PdfsNext]_pdfVars

\* The cron starts a run in every slot in which an invoice is pending, and a print
\* ends: with the PDF, an error or a timeout.  Runs may die, but not each time
\* just before the same invoice.
PdfsFairness ==
  /\ WF_pdfVars(Pending # {} /\ \E r \in Runs : StartRun(r))
  /\ \A f \in Fs : SF_pdfVars(\E r \in Runs : Take(r, f))
  /\ \A r \in Runs : WF_pdfVars(PrintOk(r) \/ PrintFails(r))
  /\ WF_pdfVars(PdfsTick)

PdfsFairSpec == PdfsSpec /\ PdfsFairness

-----------------------------------------------------------------------------
\* Two runs print the same invoice at once only if somebody has asked for failed
\* PDFs again meanwhile (pdfs.ts:5 promises it without the exception).
OnePrintPerFs ==
  \A r, s \in Runs \ forgotten : (current[r] = current[s] /\ ~Free(r)) => r = s

\* Both need that people stop asking at some time: with a reset after every crash
\* an invoice whose prints keep killing the run starves those behind it.
PeopleStopAsking == <>[][~ResetFailedRolPdfs]_pdfVars

\* An invoice that a batch waits for gets its PDF, uses up its attempts (and
\* shows in the ROL view as a matter for a person), or is no longer wanted:
\* neither a crash nor a run that is out of time loses it.
FetchedOrExhausted ==
  PeopleStopAsking =>
    \A f \in Fs : (f \in wanted) ~> (f \in pdf \/ attempts[f] = MaxAttempts \/ f \notin wanted)

\* "Pobierz ponownie" brings an invoice back to life: with no attempt on record,
\* as a new one or after a reset, it is reserved in the end, unless it stops being
\* wanted or another run's print delivers it.
AskedIsTried ==
  PeopleStopAsking =>
    \A f \in Fs : (f \in Missing /\ age[f] = -1) ~> (age[f] # -1 \/ f \notin Missing)
=============================================================================
