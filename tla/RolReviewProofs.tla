--------------------------- MODULE RolReviewProofs ---------------------------
(***************************************************************************)
(* Proofs about RolReview, for any clients, invoices, kinds of reports and *)
(* scans: scans overlap, pages are old and clients change at any time.     *)
(***************************************************************************)
EXTENDS RolReview, TLAPS

USE DEF programs, lists, scans, history

\* What a scan works out is a draft.
LEMMA DraftForType ==
  ASSUME NEW p, NEW r
  PROVE  DraftFor(p, r) \in Drafts
BY DEF DraftFor, Drafts

LEMMA TypeInit == ASSUME Init PROVE TypeOK
<1>1. \A b \in Batches : hash[b] = NoDraft /\ \A f \in Fs : mark[b][f] = "absent" /\ hash[b][f] = "absent"
  BY DEF Init, NoDraft
<1>2. NoDraft \in Drafts
  BY DEF NoDraft, Drafts
<1>3. ContentOK
  BY <1>1 DEF Init, ContentOK
<1>. QED BY <1>2, <1>3 DEF Init, TypeOK, Statuses, Marks, Ranges

LEMMA StartScanType ==
  ASSUME TypeOK, NEW s \in Scans, NEW r \in Ranges, StartScan(s, r)
  PROVE  TypeOK'
<1>1. ProgramsForRange(r) \subseteq Programs
  BY DEF ProgramsForRange, TypeOK
<1>2. [p \in Programs |-> DraftFor(p, r)] \in [Programs -> Drafts]
  BY DraftForType
<1>3. draft' \in [Scans -> [Programs -> Drafts]]
  BY <1>2 DEF TypeOK, StartScan
<1>4. ContentOK'
  BY DEF TypeOK, ContentOK, StartScan
<1>. QED BY <1>1, <1>3, <1>4 DEF TypeOK, StartScan

LEMMA FinishedType ==
  ASSUME TypeOK, NEW s \in Scans, NEW p \in Programs, Finished(s, p)
  PROVE  /\ draft' \in [Scans -> [Programs -> Drafts]]
         /\ todo' \in [Scans -> SUBSET Programs]
         /\ range' \in [Scans -> Ranges]
<1>1. NoDraft \in Drafts
  BY DEF NoDraft, Drafts
<1>2. draft' \in [Scans -> [Programs -> Drafts]]
  BY <1>1 DEF TypeOK, Finished
<1>3. todo' \in [Scans -> SUBSET Programs] /\ range' \in [Scans -> Ranges]
  BY DEF TypeOK, Finished, Ranges
<1>. QED BY <1>2, <1>3

\* What saving draft d over batch b writes, when it writes anything.
Replaced(b, d) ==
  /\ status[b] # "wyslane"
  /\ status' = [status EXCEPT ![b] = DraftStatus(d)]
  /\ mark' = [mark EXCEPT ![b] = [f \in Fs |-> AfterRescan(@[f], d[f])]]
  /\ hash' = [hash EXCEPT ![b] = d]

\* Saving a draft either leaves the batch or replaces its content.
LEMMA SaveDraftCases ==
  ASSUME TypeOK, NEW s \in Scans, NEW p \in Programs, SaveDraft(s, p)
  PROVE  /\ <<p, range[s]>> \in Batches
         /\ draft[s][p] \in Drafts
         /\ p \in todo[s] /\ Finished(s, p) /\ UNCHANGED programs
         /\ \/ UNCHANGED <<lists, history>>
            \/ /\ Replaced(<<p, range[s]>>, draft[s][p])
               /\ crossed' = crossed \cup
                    {q \in {p} : \E t \in Scans : p \in todo[t] /\ range[t] # range[s]}
               /\ blind' = blind \cup
                    {f \in Fs : /\ draft[s][p][f] = "in" /\ mark[<<p, range[s]>>][f] \notin Owning
                                /\ ListedElsewhere(p, f)}
               /\ decided' = decided \ {<<<<p, range[s]>>, f>> :
                     f \in {g \in Fs : draft[s][p][g] = "absent" \/ mark[<<p, range[s]>>][g] \notin Kept}}
<1>1. <<p, range[s]>> \in Batches
  BY DEF TypeOK, Batches
<1>2. draft[s][p] \in Drafts
  BY DEF TypeOK
<1>. QED BY <1>1, <1>2 DEF SaveDraft, Replaced

\* Replacing the content keeps exactly the invoices of the draft.
LEMMA AfterRescanMark ==
  ASSUME NEW m \in Marks, NEW n \in {"absent", "in", "conflict"}
  PROVE  /\ AfterRescan(m, n) \in Marks
         /\ AfterRescan(m, n) = "absent" <=> n = "absent"
BY DEF AfterRescan, Kept, Marks

LEMMA ReplacedType ==
  ASSUME TypeOK, NEW b \in Batches, NEW d \in Drafts, Replaced(b, d)
  PROVE  /\ status' \in [Batches -> Statuses]
         /\ mark' \in [Batches -> [Fs -> Marks]]
         /\ hash' \in [Batches -> Drafts]
         /\ ContentOK'
<1>. DEFINE new == [f \in Fs |-> AfterRescan(mark[b][f], d[f])]
<1>1. \A f \in Fs : mark[b][f] \in Marks /\ d[f] \in {"absent", "in", "conflict"}
  BY DEF TypeOK, Drafts
<1>2. new \in [Fs -> Marks] /\ \A f \in Fs : new[f] = "absent" <=> d[f] = "absent"
  BY <1>1, AfterRescanMark
<1>3. mark' = [mark EXCEPT ![b] = new]
  BY DEF Replaced
<1>4. mark' \in [Batches -> [Fs -> Marks]]
  BY <1>2, <1>3 DEF TypeOK
<1>5. status' \in [Batches -> Statuses] /\ hash' \in [Batches -> Drafts]
  BY DEF TypeOK, Replaced, DraftStatus, Statuses
<1>6. ContentOK'
  <2>. SUFFICES ASSUME NEW c \in Batches
                PROVE  /\ \A f \in Fs : mark'[c][f] = "absent" <=> hash'[c][f] = "absent"
                       /\ hash'[c] = NoDraft <=> status'[c] \in {"none", "brak_zakupow"}
    BY DEF ContentOK
  <2>1. CASE c = b
    <3>1. mark'[c] = new /\ hash'[c] = d /\ status'[c] = DraftStatus(d)
      BY <1>3, <2>1 DEF TypeOK, Replaced
    <3>. QED BY <1>2, <3>1 DEF DraftStatus
  <2>2. CASE c # b
    <3>1. mark'[c] = mark[c] /\ hash'[c] = hash[c] /\ status'[c] = status[c]
      BY <1>3, <2>2 DEF TypeOK, Replaced
    <3>. QED BY <3>1 DEF TypeOK, ContentOK
  <2>. QED BY <2>1, <2>2
<1>. QED BY <1>4, <1>5, <1>6

LEMMA SaveDraftType ==
  ASSUME TypeOK, NEW s \in Scans, NEW p \in Programs, SaveDraft(s, p)
  PROVE  TypeOK'
<1>1. Finished(s, p) /\ UNCHANGED programs
  BY DEF SaveDraft
<1>2. /\ status' \in [Batches -> Statuses]
      /\ mark' \in [Batches -> [Fs -> Marks]]
      /\ hash' \in [Batches -> Drafts]
      /\ ContentOK'
  <2>1. CASE UNCHANGED <<lists, history>>
    BY <2>1 DEF TypeOK, ContentOK
  <2>2. CASE Replaced(<<p, range[s]>>, draft[s][p])
    BY <2>2, SaveDraftCases, ReplacedType
  <2>. QED BY <2>1, <2>2, SaveDraftCases
<1>3. decided' \subseteq Batches \X Fs /\ crossed' \subseteq Programs /\ blind' \subseteq Fs
  BY SaveDraftCases DEF TypeOK
<1>. QED BY <1>1, <1>2, <1>3, FinishedType DEF TypeOK

\* A person's action changes the marks of invoices that the batches hold, and
\* no invoice enters or leaves a batch by it.
SameInvoices ==
  /\ mark' \in [Batches -> [Fs -> Marks]]
  /\ \A b \in Batches, f \in Fs : mark'[b][f] = "absent" <=> mark[b][f] = "absent"

LEMMA ExcludeMarks ==
  ASSUME TypeOK, NEW b \in Batches, NEW f \in Fs, ExcludeFs(b, f)
  PROVE  SameInvoices
BY DEF TypeOK, ExcludeFs, SameInvoices, Marks

LEMMA IncludeMarks ==
  ASSUME TypeOK, NEW b \in Batches, NEW f \in Fs, IncludeFs(b, f)
  PROVE  SameInvoices
BY DEF TypeOK, IncludeFs, SameInvoices, Marks

LEMMA AssignMarks ==
  ASSUME TypeOK, NEW b \in Batches, NEW f \in Fs, AssignFs(b, f)
  PROVE  SameInvoices
<1>1. mark[b] \in [Fs -> Marks] /\ mark[b][f] # "absent"
  BY DEF TypeOK, AssignFs, Contested
<1>2. ASSUME NEW o \in Batches
      PROVE  /\ mark'[o] \in [Fs -> Marks]
             /\ \A g \in Fs : mark'[o][g] = "absent" <=> mark[o][g] = "absent"
  <2>1. mark[o] \in [Fs -> Marks]
    BY DEF TypeOK
  <2>2. CASE o = b
    <3>1. mark'[o] = [mark[o] EXCEPT ![f] = "here"]
      BY <2>2 DEF AssignFs
    <3>. QED BY <1>1, <2>1, <2>2, <3>1 DEF Marks
  <2>3. CASE o # b /\ o \in Others(b, f)
    <3>1. mark'[o] = [mark[o] EXCEPT ![f] = "elsewhere"]
      BY <2>3 DEF AssignFs
    <3>2. mark[o][f] # "absent"
      BY <2>3 DEF Others
    <3>. QED BY <2>1, <3>1, <3>2 DEF Marks
  <2>4. CASE o # b /\ o \notin Others(b, f)
    <3>1. mark'[o] = mark[o]
      BY <2>4 DEF AssignFs
    <3>. QED BY <2>1, <3>1
  <2>. QED BY <2>2, <2>3, <2>4
<1>3. DOMAIN mark' = Batches /\ mark' = [o \in Batches |-> mark'[o]]
  BY DEF AssignFs
<1>. QED BY <1>2, <1>3 DEF SameInvoices

LEMMA PersonType ==
  ASSUME TypeOK, NEW b \in Batches, NEW f \in Fs, SameInvoices, Decide(b, f),
         blind' \subseteq blind \cup {f}, UNCHANGED <<programs, status, hash, scans, crossed>>
  PROVE  TypeOK'
<1>1. ContentOK'
  BY DEF TypeOK, ContentOK, SameInvoices
<1>. QED BY <1>1 DEF TypeOK, SameInvoices, Decide

LEMMA SetStatusType ==
  ASSUME TypeOK, NEW b \in Batches,
         NEW from \in {"wykryte", "przejrzane"},
         NEW to \in {"wykryte", "przejrzane", "wyslane"},
         SetStatus(b, from, to)
  PROVE  TypeOK'
<1>1. status' \in [Batches -> Statuses]
  BY DEF TypeOK, SetStatus, Statuses
<1>2. \A c \in Batches : status'[c] \in {"none", "brak_zakupow"} <=> status[c] \in {"none", "brak_zakupow"}
  BY DEF TypeOK, SetStatus
<1>3. ContentOK'
  BY <1>2 DEF TypeOK, ContentOK, SetStatus
<1>. QED BY <1>1, <1>3 DEF TypeOK, SetStatus

LEMMA TypeStep == ASSUME TypeOK, [Next]_vars PROVE TypeOK'
<1>1. ASSUME NEW s \in Scans, NEW r \in Ranges, StartScan(s, r) PROVE TypeOK'
  BY <1>1, StartScanType
<1>2. ASSUME NEW s \in Scans, NEW p \in Programs, SaveDraft(s, p) PROVE TypeOK'
  BY <1>2, SaveDraftType
<1>3. ASSUME NEW s \in Scans, AbortScan(s) PROVE TypeOK'
  <2>1. [p \in Programs |-> NoDraft] \in [Programs -> Drafts]
    BY DEF NoDraft, Drafts
  <2>. QED BY <1>3, <2>1 DEF TypeOK, ContentOK, AbortScan, Ranges
<1>4. ASSUME NEW b \in Batches, NEW f \in Fs, ExcludeFs(b, f) PROVE TypeOK'
  BY <1>4, ExcludeMarks, PersonType DEF ExcludeFs
<1>5. ASSUME NEW b \in Batches, NEW f \in Fs, IncludeFs(b, f) PROVE TypeOK'
  BY <1>5, IncludeMarks, PersonType DEF IncludeFs
<1>6. ASSUME NEW b \in Batches, NEW f \in Fs, AssignFs(b, f) PROVE TypeOK'
  BY <1>6, AssignMarks, PersonType DEF AssignFs
<1>7. ASSUME NEW b \in Batches, ApproveRolBatch(b) PROVE TypeOK'
  BY <1>7, SetStatusType DEF ApproveRolBatch
<1>8. ASSUME NEW b \in Batches, ReopenRolBatch(b) PROVE TypeOK'
  BY <1>8, SetStatusType DEF ReopenRolBatch
<1>9. ASSUME NEW b \in Batches, SendBatch(b) PROVE TypeOK'
  BY <1>9, SetStatusType DEF SendBatch
<1>10. ASSUME NEW p \in Programs, SaveRolProgram(p) PROVE TypeOK'
  <2>1. matches' \in [Fs -> SUBSET Programs] /\ active' \subseteq Programs
        /\ frequency' \in [Programs -> Ranges]
    BY <1>10 DEF SaveRolProgram, TypeOK
  <2>. QED BY <1>10, <2>1 DEF SaveRolProgram, TypeOK, ContentOK
<1>11. ASSUME UNCHANGED vars PROVE TypeOK'
  BY <1>11 DEF TypeOK, ContentOK, vars
<1>. QED BY <1>1, <1>2, <1>3, <1>4, <1>5, <1>6, <1>7, <1>8, <1>9, <1>10, <1>11 DEF Next

\* Every reachable state is well formed: the status of a batch always agrees with
\* what the last scan wrote into it, whatever people and other scans do.
THEOREM TypeCorrect == Spec => []TypeOK
<1>. QED BY TypeInit, TypeStep, PTL DEF Spec

-----------------------------------------------------------------------------
(* Approved lists are fixed.                                               *)

LEMMA FixedStep ==
  ASSUME TypeOK, [Next]_vars, NEW b \in Batches, Frozen(b), Frozen(b)'
  PROVE  mark'[b] = mark[b]
<1>1. ASSUME NEW s \in Scans, NEW p \in Programs, SaveDraft(s, p)
      PROVE  mark'[b] = mark[b]
  <2>1. CASE UNCHANGED <<lists, history>>
    BY <2>1
  <2>2. CASE Replaced(<<p, range[s]>>, draft[s][p])
    <3>1. CASE b = <<p, range[s]>>
      <4>1. status'[b] = DraftStatus(draft[s][p])
        BY <2>2, <3>1 DEF Replaced, TypeOK
      <4>. QED BY <4>1 DEF DraftStatus, Frozen
    <3>2. CASE b # <<p, range[s]>>
      BY <2>2, <3>2 DEF Replaced, TypeOK
    <3>. QED BY <3>1, <3>2
  <2>. QED BY <1>1, <2>1, <2>2, SaveDraftCases
<1>2. ASSUME NEW c \in Batches, NEW f \in Fs, ExcludeFs(c, f) \/ IncludeFs(c, f)
      PROVE  mark'[b] = mark[b]
  BY <1>2 DEF ExcludeFs, IncludeFs, Frozen, TypeOK
<1>3. ASSUME NEW c \in Batches, NEW f \in Fs, AssignFs(c, f)
      PROVE  mark'[b] = mark[b]
  <2>1. b # c /\ b \notin Others(c, f)
    BY <1>3 DEF AssignFs, Frozen
  <2>. QED BY <1>3, <2>1 DEF AssignFs
<1>4. ASSUME UNCHANGED mark PROVE mark'[b] = mark[b]
  BY <1>4
<1>. QED
  BY <1>1, <1>2, <1>3, <1>4
  DEF Next, vars, StartScan, AbortScan, ApproveRolBatch, ReopenRolBatch, SendBatch,
      SetStatus, SaveRolProgram

\* A list that stays approved or sent keeps its invoices as they are: no scan, no
\* decision at another client and no change of a client touches it.
THEOREM ApprovedListsAreFixed == Spec => ApprovedListIsFixed
<1>1. TypeOK /\ [Next]_vars =>
        [\A b \in Batches : Frozen(b) /\ Frozen(b)' => mark'[b] = mark[b]]_vars
  BY FixedStep
<1>. QED BY <1>1, TypeCorrect, PTL DEF Spec, ApprovedListIsFixed

-----------------------------------------------------------------------------
(* One report per invoice and client.                                      *)

HeldOnce ==
  \A b, c \in Batches, f \in Fs :
    (/\ Program(b) = Program(c) /\ Program(b) \notin crossed
     /\ mark[b][f] # "absent" /\ mark[c][f] # "absent") => b = c

\* What a scan is about to save is in no other report of the client.
DraftsFree ==
  \A s \in Scans : \A p \in todo[s] \ crossed : \A f \in Fs, b \in Batches :
    (draft[s][p][f] # "absent" /\ Program(b) = p /\ Period(b) # range[s]) => mark[b][f] = "absent"

OnceInv == HeldOnce /\ DraftsFree

LEMMA OnceStart ==
  ASSUME TypeOK, OnceInv, NEW s \in Scans, NEW r \in Ranges, StartScan(s, r)
  PROVE  OnceInv'
<1>1. \A t \in Scans : t # s => todo'[t] = todo[t] /\ draft'[t] = draft[t] /\ range'[t] = range[t]
  BY DEF StartScan, TypeOK
<1>2. \A p \in Programs : draft'[s][p] = DraftFor(p, r)
  BY DEF StartScan, TypeOK
<1>3. range'[s] = r /\ mark' = mark /\ crossed' = crossed /\ todo'[s] \subseteq Programs
  BY DEF StartScan, TypeOK, ProgramsForRange
<1>4. \A p \in Programs, f \in Fs, b \in Batches :
        (DraftFor(p, r)[f] # "absent" /\ Program(b) = p /\ Period(b) # r) => mark[b][f] = "absent"
  BY DEF DraftFor, Claimed
<1>5. DraftsFree'
  BY <1>1, <1>2, <1>3, <1>4 DEF OnceInv, DraftsFree
<1>. QED BY <1>3, <1>5 DEF OnceInv, HeldOnce

\* What a scan still has to save after a step, it had before.
LEMMA OnceFinished ==
  ASSUME TypeOK, NEW s \in Scans, NEW p \in Programs, SaveDraft(s, p)
  PROVE  \A t \in Scans : \A q \in todo'[t] :
           q \in todo[t] /\ range'[t] = range[t] /\ draft'[t][q] = draft[t][q]
<1>1. Finished(s, p) /\ p \in todo[s]
  BY DEF SaveDraft
<1>2. \A t \in Scans : t # s => todo'[t] = todo[t] /\ range'[t] = range[t] /\ draft'[t] = draft[t]
  BY <1>1 DEF Finished, TypeOK
<1>3. todo'[s] = todo[s] \ {p}
  BY <1>1 DEF Finished, TypeOK
<1>4. todo'[s] # {} => range'[s] = range[s] /\ \A q \in Programs \ {p} : draft'[s][q] = draft[s][q]
  BY <1>1, <1>3 DEF Finished, TypeOK
<1>5. todo[s] \subseteq Programs
  BY DEF TypeOK
<1>. QED BY <1>2, <1>3, <1>4, <1>5

LEMMA OnceSave ==
  ASSUME TypeOK, OnceInv, NEW s \in Scans, NEW p \in Programs, SaveDraft(s, p)
  PROVE  OnceInv'
<1>. DEFINE b0 == <<p, range[s]>>
<1>1. CASE UNCHANGED <<lists, history>>
  <2>1. HeldOnce'
    BY <1>1 DEF OnceInv, HeldOnce
  <2>2. DraftsFree'
    BY <1>1, OnceFinished DEF OnceInv, DraftsFree
  <2>. QED BY <2>1, <2>2 DEF OnceInv
<1>2. CASE /\ Replaced(b0, draft[s][p])
           /\ crossed' = crossed \cup
                {q \in {p} : \E t \in Scans : p \in todo[t] /\ range[t] # range[s]}
  <2>1. b0 \in Batches /\ draft[s][p] \in Drafts /\ p \in todo[s]
    BY SaveDraftCases
  <2>2. \A b \in Batches : b # b0 => mark'[b] = mark[b]
    BY <1>2 DEF Replaced, TypeOK
  <2>3. \A f \in Fs : mark'[b0][f] # "absent" => draft[s][p][f] # "absent"
    <3>1. mark'[b0] = [f \in Fs |-> AfterRescan(mark[b0][f], draft[s][p][f])]
      BY <1>2, <2>1 DEF Replaced, TypeOK
    <3>. QED BY <3>1 DEF AfterRescan
  <2>4. crossed \subseteq crossed'
    BY <1>2
  <2>5. ASSUME p \notin crossed'
        PROVE  /\ p \notin crossed
               /\ \A t \in Scans : p \in todo[t] => range[t] = range[s]
    BY <1>2, <2>5
  <2>6. ASSUME p \notin crossed'
        PROVE  \A b \in Batches, f \in Fs :
                 (b # b0 /\ Program(b) = p /\ mark'[b0][f] # "absent") => mark[b][f] = "absent"
    <3>1. \A b \in Batches : (b # b0 /\ Program(b) = p) => Period(b) # range[s]
      BY DEF Batches, Program, Period
    <3>. QED BY <2>1, <2>3, <2>5, <2>6, <3>1 DEF OnceInv, DraftsFree
  <2>7. Program(b0) = p /\ Period(b0) = range[s]
    BY DEF Program, Period
  <2>8. HeldOnce'
    <3>. SUFFICES ASSUME NEW b \in Batches, NEW c \in Batches, NEW f \in Fs, b # c,
                         Program(b) = Program(c), Program(b) \notin crossed',
                         mark'[b][f] # "absent", mark'[c][f] # "absent"
                  PROVE  FALSE
      BY DEF HeldOnce
    <3>1. CASE b # b0 /\ c # b0
      BY <2>2, <2>4, <3>1 DEF OnceInv, HeldOnce
    <3>2. CASE b = b0
      BY <2>2, <2>6, <2>7, <3>2
    <3>3. CASE c = b0
      BY <2>2, <2>6, <2>7, <3>3
    <3>. QED BY <3>1, <3>2, <3>3
  <2>9. DraftsFree'
    <3>. SUFFICES ASSUME NEW t \in Scans, NEW q \in todo'[t] \ crossed', NEW f \in Fs,
                         NEW b \in Batches, draft'[t][q][f] # "absent", Program(b) = q,
                         Period(b) # range'[t]
                  PROVE  mark'[b][f] = "absent"
      BY DEF DraftsFree
    <3>1. q \in todo[t] \ crossed /\ range'[t] = range[t] /\ draft'[t][q] = draft[t][q]
      BY <2>4, OnceFinished
    <3>2. mark[b][f] = "absent"
      BY <3>1 DEF OnceInv, DraftsFree
    <3>3. b # b0
      BY <2>5, <2>7, <3>1
    <3>. QED BY <2>2, <3>2, <3>3
  <2>. QED BY <2>8, <2>9 DEF OnceInv
<1>. QED BY <1>1, <1>2, SaveDraftCases

LEMMA OnceSame ==
  ASSUME OnceInv, TypeOK, SameInvoices, UNCHANGED <<scans, crossed>>
  PROVE  OnceInv'
<1>1. HeldOnce'
  BY DEF OnceInv, HeldOnce, SameInvoices
<1>2. DraftsFree'
  BY DEF OnceInv, DraftsFree, SameInvoices
<1>. QED BY <1>1, <1>2 DEF OnceInv

LEMMA OnceStep ==
  ASSUME TypeOK, OnceInv, [Next]_vars
  PROVE  OnceInv'
<1>1. ASSUME NEW s \in Scans, NEW r \in Ranges, StartScan(s, r) PROVE OnceInv'
  BY <1>1, OnceStart
<1>2. ASSUME NEW s \in Scans, NEW p \in Programs, SaveDraft(s, p) PROVE OnceInv'
  BY <1>2, OnceSave
<1>3. ASSUME NEW s \in Scans, AbortScan(s) PROVE OnceInv'
  <2>1. todo'[s] = {} /\ \A t \in Scans : t # s =>
          todo'[t] = todo[t] /\ draft'[t] = draft[t] /\ range'[t] = range[t]
    BY <1>3 DEF AbortScan, TypeOK
  <2>. QED BY <1>3, <2>1 DEF AbortScan, OnceInv, HeldOnce, DraftsFree
<1>4. ASSUME NEW b \in Batches, NEW f \in Fs, ExcludeFs(b, f) PROVE OnceInv'
  BY <1>4, ExcludeMarks, OnceSame DEF ExcludeFs
<1>5. ASSUME NEW b \in Batches, NEW f \in Fs, IncludeFs(b, f) PROVE OnceInv'
  BY <1>5, IncludeMarks, OnceSame DEF IncludeFs
<1>6. ASSUME NEW b \in Batches, NEW f \in Fs, AssignFs(b, f) PROVE OnceInv'
  BY <1>6, AssignMarks, OnceSame DEF AssignFs
<1>7. ASSUME UNCHANGED <<mark, scans, crossed>> PROVE OnceInv'
  BY <1>7 DEF OnceInv, HeldOnce, DraftsFree
<1>. QED
  BY <1>1, <1>2, <1>3, <1>4, <1>5, <1>6, <1>7
  DEF Next, vars, ApproveRolBatch, ReopenRolBatch, SendBatch, SetStatus, SaveRolProgram

\* An invoice is in one report of a client at most, however the client's accounts and
\* reports change and whatever people press, until two ranges of the client are scanned
\* at the same time.  Scans of other clients, and of the same range, may overlap.
THEOREM ReportedOncePerProgram == Spec => []OncePerProgram
<1>1. Init => OnceInv
  BY DEF Init, OnceInv, HeldOnce, DraftsFree
<1>2. TypeOK /\ OnceInv /\ [Next]_vars => OnceInv'
  BY OnceStep
<1>3. OnceInv => OncePerProgram
  BY DEF OnceInv, HeldOnce, OncePerProgram, Included
<1>. QED BY <1>1, <1>2, <1>3, TypeCorrect, PTL DEF Spec

-----------------------------------------------------------------------------
(* A conflict the scan has seen is settled by a person only.               *)

\* "here" is a decision as well: a scan keeps it even in a conflict.
ConflictInv ==
  \A b \in Batches, f \in Fs :
    \/ <<b, f>> \in decided
    \/ mark[b][f] # "here" /\ (mark[b][f] = "in" => hash[b][f] # "conflict")

LEMMA ConflictStep ==
  ASSUME TypeOK, ConflictInv, [Next]_vars
  PROVE  ConflictInv'
<1>1. ASSUME UNCHANGED <<mark, hash, decided>> PROVE ConflictInv'
  BY <1>1 DEF ConflictInv
<1>2. ASSUME NEW s \in Scans, NEW p \in Programs, SaveDraft(s, p) PROVE ConflictInv'
  <2>1. CASE UNCHANGED <<lists, history>>
    BY <1>1, <1>2, <2>1 DEF SaveDraft
  <2>2. CASE /\ Replaced(<<p, range[s]>>, draft[s][p])
             /\ decided' = decided \ {<<<<p, range[s]>>, f>> :
                  f \in {g \in Fs : draft[s][p][g] = "absent" \/ mark[<<p, range[s]>>][g] \notin Kept}}
    <3>. DEFINE b0 == <<p, range[s]>>
    <3>1. b0 \in Batches /\ draft[s][p] \in Drafts
      BY <1>2, SaveDraftCases
    <3>2. mark'[b0] = [f \in Fs |-> AfterRescan(mark[b0][f], draft[s][p][f])]
          /\ hash'[b0] = draft[s][p]
      BY <2>2, <3>1 DEF Replaced, TypeOK
    <3>3. \A b \in Batches : b # b0 => mark'[b] = mark[b] /\ hash'[b] = hash[b]
      BY <2>2 DEF Replaced, TypeOK
    <3>4. \A f \in Fs : draft[s][p][f] \in {"absent", "in", "conflict"}
      BY <3>1 DEF Drafts
    <3>5. \A f \in Fs : mark'[b0][f] = "in" => hash'[b0][f] # "conflict"
      BY <3>2, <3>4 DEF AfterRescan, Kept
    <3>6. \A f \in Fs : mark'[b0][f] = "here" => mark[b0][f] = "here" /\ draft[s][p][f] # "absent"
      BY <3>2, <3>4 DEF AfterRescan
    <3>7. /\ \A b \in Batches, f \in Fs : b # b0 => (<<b, f>> \in decided <=> <<b, f>> \in decided')
          /\ \A f \in Fs : (<<b0, f>> \in decided /\ mark[b0][f] = "here" /\ draft[s][p][f] # "absent")
                             => <<b0, f>> \in decided'
      BY <2>2 DEF Kept
    <3>. QED BY <3>3, <3>5, <3>6, <3>7 DEF ConflictInv
  <2>. QED BY <1>2, <2>1, <2>2, SaveDraftCases
<1>3. ASSUME NEW c \in Batches, NEW g \in Fs,
             ExcludeFs(c, g) \/ IncludeFs(c, g) \/ AssignFs(c, g)
      PROVE  ConflictInv'
  <2>1. decided' = decided \cup {<<c, g>>} /\ hash' = hash
    BY <1>3 DEF ExcludeFs, IncludeFs, AssignFs, Decide
  <2>2. \A b \in Batches, f \in Fs :
          (b # c \/ f # g) => mark'[b][f] = mark[b][f] \/ mark'[b][f] = "elsewhere"
    <3>1. CASE ExcludeFs(c, g) \/ IncludeFs(c, g)
      BY <3>1 DEF ExcludeFs, IncludeFs, TypeOK
    <3>2. CASE AssignFs(c, g)
      BY <3>2 DEF AssignFs, TypeOK
    <3>. QED BY <1>3, <3>1, <3>2
  <2>. QED BY <2>1, <2>2 DEF ConflictInv
<1>. QED
  BY <1>1, <1>2, <1>3
  DEF Next, vars, StartScan, AbortScan, ApproveRolBatch, ReopenRolBatch, SendBatch, SetStatus,
      SaveRolProgram

\* An invoice in which the last scan of a batch saw a conflict is reported there
\* only after a person's decision that no scan has written over: with overlapping scans,
\* old pages and changing clients.
THEOREM ConflictsNeedDecisions == Spec => []ConflictNeedsDecision
<1>1. Init => ConflictInv
  BY DEF Init, ConflictInv
<1>2. TypeOK /\ ConflictInv /\ [Next]_vars => ConflictInv'
  BY ConflictStep
<1>3. ConflictInv => ConflictNeedsDecision
  BY DEF ConflictInv, ConflictNeedsDecision, Included
<1>. QED BY <1>1, <1>2, <1>3, TypeCorrect, PTL DEF Spec

-----------------------------------------------------------------------------
(* One client per invoice.                                                 *)

\* The lists of one client have an invoice, or may include it again.
OwnedOnce ==
  \A f \in Fs \ blind : \A b, c \in Batches :
    (mark[b][f] \in Owning /\ mark[c][f] \in Owning) => Program(b) = Program(c)

LEMMA OwnedSave ==
  ASSUME TypeOK, OwnedOnce, NEW s \in Scans, NEW p \in Programs, SaveDraft(s, p)
  PROVE  OwnedOnce'
<1>. DEFINE b0 == <<p, range[s]>>
<1>1. CASE UNCHANGED <<lists, history>>
  BY <1>1 DEF OwnedOnce
<1>2. CASE /\ Replaced(b0, draft[s][p])
           /\ blind' = blind \cup
                {f \in Fs : draft[s][p][f] = "in" /\ mark[b0][f] \notin Owning /\ ListedElsewhere(p, f)}
  <2>1. b0 \in Batches /\ draft[s][p] \in Drafts /\ Program(b0) = p
    BY SaveDraftCases DEF Program
  <2>2. \A b \in Batches : b # b0 => mark'[b] = mark[b]
    BY <1>2 DEF Replaced, TypeOK
  <2>3. mark'[b0] = [f \in Fs |-> AfterRescan(mark[b0][f], draft[s][p][f])]
    BY <1>2, <2>1 DEF Replaced, TypeOK
  <2>4. \A f \in Fs : mark'[b0][f] \in Owning => draft[s][p][f] = "in" \/ mark[b0][f] \in Owning
    BY <2>1, <2>3 DEF AfterRescan, Owning, Drafts
  <2>5. \A f \in Fs \ blind' : \A c \in Batches :
          (mark'[b0][f] \in Owning /\ c # b0 /\ mark[c][f] \in Owning) => Program(c) = p
    <3>. SUFFICES ASSUME NEW f \in Fs \ blind', NEW c \in Batches, mark'[b0][f] \in Owning,
                         mark[c][f] \in Owning
                  PROVE  Program(c) = p
      OBVIOUS
    <3>1. CASE mark[b0][f] \in Owning
      BY <1>2, <2>1, <3>1 DEF OwnedOnce
    <3>2. CASE mark[b0][f] \notin Owning
      BY <1>2, <2>4, <3>2 DEF ListedElsewhere
    <3>. QED BY <3>1, <3>2
  <2>. QED BY <1>2, <2>1, <2>2, <2>5 DEF OwnedOnce
<1>. QED BY <1>1, <1>2, SaveDraftCases

LEMMA OwnedExclude ==
  ASSUME TypeOK, OwnedOnce, NEW b \in Batches, NEW f \in Fs, ExcludeFs(b, f)
  PROVE  OwnedOnce'
<1>1. blind' = blind \cup {g \in {f} : mark[b][f] \in Contested /\ ListedElsewhere(Program(b), f)}
  BY DEF ExcludeFs
<1>2. \A c \in Batches, g \in Fs : (c # b \/ g # f) => mark'[c][g] = mark[c][g]
  BY DEF ExcludeFs, TypeOK
<1>3. mark[b][f] \in Contested \/ mark[b][f] \in Owning
  BY DEF ExcludeFs, TypeOK, Marks, Contested, Owning
<1>4. f \notin blind' => \A c \in Batches : mark[c][f] \in Owning => Program(c) = Program(b)
  BY <1>1, <1>3 DEF OwnedOnce, ListedElsewhere
<1>. QED BY <1>1, <1>2, <1>4 DEF OwnedOnce

LEMMA OwnedAssign ==
  ASSUME TypeOK, OwnedOnce, NEW b \in Batches, NEW f \in Fs, AssignFs(b, f)
  PROVE  OwnedOnce'
<1>1. \A c \in Batches, g \in Fs :
        mark'[c][g] \in Owning => IF g = f THEN c = b ELSE mark[c][g] \in Owning
  <2>1. SUFFICES ASSUME NEW c \in Batches, NEW g \in Fs, mark'[c][g] \in Owning
                 PROVE  IF g = f THEN c = b ELSE mark[c][g] \in Owning
    OBVIOUS
  <2>2. mark[c] \in [Fs -> Marks]
    BY DEF TypeOK
  <2>3. CASE c = b
    <3>1. mark'[c] = [mark[c] EXCEPT ![f] = "here"]
      BY <2>3 DEF AssignFs
    <3>. QED BY <2>1, <2>2, <2>3, <3>1
  <2>4. CASE c # b /\ mark[c][f] # "absent"
    <3>1. mark'[c] = [mark[c] EXCEPT ![f] = "elsewhere"]
      BY <2>4 DEF AssignFs, Others
    <3>. QED BY <2>1, <2>2, <2>4, <3>1 DEF Owning
  <2>5. CASE c # b /\ mark[c][f] = "absent"
    <3>1. mark'[c] = mark[c]
      BY <2>5 DEF AssignFs, Others
    <3>. QED BY <2>1, <2>5, <3>1 DEF Owning
  <2>. QED BY <2>3, <2>4, <2>5
<1>. QED BY <1>1 DEF OwnedOnce, AssignFs

LEMMA OwnedStep ==
  ASSUME TypeOK, OwnedOnce, [Next]_vars
  PROVE  OwnedOnce'
<1>1. ASSUME NEW s \in Scans, NEW p \in Programs, SaveDraft(s, p) PROVE OwnedOnce'
  BY <1>1, OwnedSave
<1>2. ASSUME NEW b \in Batches, NEW f \in Fs, ExcludeFs(b, f) PROVE OwnedOnce'
  BY <1>2, OwnedExclude
<1>3. ASSUME NEW b \in Batches, NEW f \in Fs, IncludeFs(b, f) PROVE OwnedOnce'
  <2>1. mark[b][f] \in Owning
    BY <1>3 DEF IncludeFs, TypeOK, Marks, Contested, Owning
  <2>2. \A c \in Batches, g \in Fs : mark'[c][g] \in Owning => mark[c][g] \in Owning
    BY <1>3, <2>1 DEF IncludeFs, TypeOK
  <2>. QED BY <1>3, <2>2 DEF IncludeFs, OwnedOnce
<1>4. ASSUME NEW b \in Batches, NEW f \in Fs, AssignFs(b, f) PROVE OwnedOnce'
  BY <1>4, OwnedAssign
<1>5. ASSUME UNCHANGED <<mark, blind>> PROVE OwnedOnce'
  BY <1>5 DEF OwnedOnce
<1>. QED
  BY <1>1, <1>2, <1>3, <1>4, <1>5
  DEF Next, vars, StartScan, AbortScan, ApproveRolBatch, ReopenRolBatch, SendBatch, SetStatus,
      SaveRolProgram

\* Two clients never both have an invoice in approved or sent lists, unless a scan has
\* given it to one of them although a list of the other had it, or an old page has wiped
\* out that it was contested: no rescan, decision, assignment, approval or change of a
\* client does it otherwise.
THEOREM ReportedForOneClient == Spec => []OneClientPerFs
<1>1. Init => OwnedOnce
  BY DEF Init, OwnedOnce, Owning
<1>2. OwnedOnce => OneClientPerFs
  BY DEF OwnedOnce, Owning, OneClientPerFs, Included
<1>. QED BY <1>1, <1>2, OwnedStep, TypeCorrect, PTL DEF Spec
=============================================================================
