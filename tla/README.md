# Formal models of System Dostaw

System Dostaw (Mikron) is a Next.js application on PostgreSQL with which a
company orders goods from suppliers: recurring orders, individual orders for
salespeople's customers, receipts in the warehouse, and monthly or weekly
reports ("ROL") of what clients have bought, which are mailed to a supplier
together with a purchase document (ZD) in the accounting system Subiekt.  It runs
as server actions of several people, cron routes and background promises, all
of them over one database, mostly without transactions of several statements.  This directory holds TLA+
models of the parts where that concurrency matters, TLC configurations that
check them on small instances, and proofs checked by TLAPS for instances of any
size.

Source paths below are relative to the application's own `src/`, unless they
begin with `supabase/`.

## 1. Inventory

| Component | State | Operations | Talks to | What is hard | What makes it correct |
|---|---|---|---|---|---|
| Job locks (`lib/services/locks.ts`, migration 013) | `job_locks(key, locked_until)` | tryAcquireLock, releaseLock | every cron step, batch actions | death before `finally`, work longer than the TTL, release does not look at the owner | one job per key as long as TTLs are kept, exclusion comes back after an overrun, no key lost |
| ROL sending (`lib/rol/send.ts`, `send-io.ts`, `send-rules.ts`) | `rol_batches.status, sending_at, zd_dok_id`, `rol_sends` | ensureRolZd, sendRolMail, markSent | Subiekt (find, create ZD), Gmail, the review | two senders, stale contexts, replies that get lost, late creates, death under the lock | one ZD, one mail, honest history, "wyslane" is final |
| ROL batches and scan (`lib/rol/scan.ts`, `merge.ts`, `review.ts`, `data.ts`) | `rol_batches`, `rol_batch_invoices` (excluded, reason), content hash | scanRolPeriod + saveRolScan, setRolInvoice (exclude, include, assign), approve, reopen, saveRolProgram | Subiekt (read), cron, pages | scans of minutes beside people's transactions, two report periods for one client, an invoice that matches two clients, accounts and reports that change under the lists | one report per client, one client per invoice, decisions kept, approved lists untouched |
| ROL PDFs (`lib/rol/pdfs.ts`) | `rol_fs_pdfs(pdf, attempts, last_attempt_at, last_error)` | fetchMissingRolPdfs, claim, resetFailedRolPdfs | Subiekt (print, one at a time) | runs that overlap, die or run out of time, resets in the middle | one print per invoice, every invoice fetched or given up visibly |
| Delivery notification queue (`lib/orders/delivery-notification-queue.ts`, migration 075) | `delivery_notification_queue(send_at, sent_at, cancelled_at)`, undo payloads in browsers | queue, cancel, flush (cron, timer, every opened page), mark | individual orders, SMTP | flushes without claims, undo beside a flush, death between mail and mark | cancelled in time = not mailed, sent = mailed, none lost, doubles only by overlap or death |
| Individual orders (`lib/services/orders.ts`, `lib/orders/sales-cancel*.ts`, `app/actions/my-orders.ts`, `admin.ts`) | `individual_orders` (status, ordered, delivered, withdrawn, cancellation, settlement, acknowledgement), undo payloads in browsers | process from the board, receive, undo, revert, withdraw and undo, acknowledge, decide, settle, purge | queue above, statistics, schedules | a status read once and written back unconditionally, snapshots and rollbacks over newer writes, five pages that filter by different columns | status and quantities agree, an open order is on some page, a withdrawal is final, its columns stay together |
| Delivery statistics (`lib/data/delivery-stats-samples.ts`, `lib/services/orders.ts`) | samples, `supplier_delivery_stats` | complete, correct, undo, revert, recalculate; the purge of old orders | receipts, reverts | reads and writes of counters in separate statements, several orders of one day that count once | counters are what a recalculation yields, each complete order has its sample |
| ZD proposals (`lib/data/zd-auto-proposals.ts`, `app/actions/zd-estimate.ts`, `lib/stock-watch/worker.ts`) | `zd_auto_proposals(status, create_attempted_at, lines)` | accept (claim, create, record, release), reject, recalculate (now, nightly), reconcile | Subiekt (create, find ZD) | lost answers, late creates, two tabs, a recalculation during a create | one ZD per proposal, open = not ordered, decisions final, attempts settled |
| Service orders and loaners (`lib/data/service-orders.ts`, `service-loaners.ts`) | `service_orders` (status, loaner, RW), parts, `service_loaner_units` | accept, move, take and give back parts, RW, link; issue, return, extend, service, retire | each other | transactions that lock one row and look at others: link beside return | RW for the parts of the order, unit lent once, links true |
| Supplier schedules (`lib/services/orders.ts`: markStandardOrdered, shiftSupplierOrder) | next order dates | mark ordered, shift, undo | board | undo of a date that moved on | undo restores, or refuses |
| Stock watch, Gmail mailbox, customs/DHL, external warehouse, price lists | snapshots of external systems | periodic synchronisation | external APIs | partial synchronisation | not examined in depth |
| ZD estimates (`lib/orders/zd-*`) | - | planning arithmetic | Subiekt | numeric edges | planned as pure operators |
| Vacations, notes, boards, users | tables of their own | forms | UI | little concurrency | - |

**How they interact.** All state is shared through the database.  A server
action or cron route reads, calls external systems, and writes, each statement
by itself.  Transactions with `SELECT ... FOR UPDATE` are the exception:
`lib/rol/data.ts` and `markSent`, and the service orders and loaners; the expiry and the
insert of a proposal are a transaction without it.  Locks are rows (`job_locks`, `rol_batches.sending_at`,
`rol_fs_pdfs.last_attempt_at`) that expire by time.  Browsers keep contexts (a
page, a dialog, an undo payload) that may be older than the rows they act on.

The hazards this gives rise to are listed, with the line where each bites, in
`PROJECT.json`.

## 2. Modules

```
ExclusiveSection  <-- implemented by --  JobLocks          <-- JobLocksProofs
                  <-- implemented by --  RolSending        <-- RolSendingProofs, MCRolSending
                                         RolPdfs           <-- RolSendingProofs
                                         RolReview         <-- RolReviewProofs, MCRolReview
                                         DeliveryNotices   <-- DeliveryNoticesProofs
SalesCancel       <-- extended by ----   IndividualOrders  <-- IndividualOrdersProofs, MCIndividualOrders
                                         DeliveryStats     <-- DeliveryStatsProofs, MCDeliveryStats
                                         ZdProposals       <-- ZdProposalsProofs
                                         ServiceOrders     <-- ServiceOrdersProofs, MCServiceOrders
```

Time is discrete and relative everywhere: a row carries the ticks left to its
expiry (or its age), and `Tick` moves all clocks at once.  A stage between two
statements of the code is a value of a program counter, so that other actors
may act there; a transaction is one action.  Operators commented as *mutants*
are mistakes the code could make; nothing refers to them, they show that each
property depends on the code as it is.

### ExclusiveSection
What a lock promises: at most one is inside, they enter and leave one by one.
Abstract, no code of its own.

### JobLocks
`row[k]` is the row of `job_locks`, `key[j]` and `lease[j]` what a job believes.
`TryAcquireLock` is the one upsert of migration 013, `ReleaseLock` the `DELETE` by key
of `finally`, `Crash` a death (or a failed delete).  Jobs may work longer than
their TTL: then their key is in `overrun` until it has been empty.  The fallback for a
database without the migration (`tryAcquireLockLegacy`, a read and an upsert) is
not modelled; by its shape it excludes nobody who reads at the same time.

### RolSending
One batch with any number of mail dialogs.  `at[d]` is the place of a dialog in
`ensureRolZd` / `sendRolMail`, `ctxZd`, `ctxList` what `actionRolEnsureZd` /
`actionRolSendMail` loaded before the lock (two reads, two actions), `doc` the ZD it
works with.  The list is one value, what it orders.  Scans, edits, approval and
reopening are actions of other people and go on meanwhile.  Subiekt (`zds`, `late`,
`oldZds`) and Gmail (`mails`) are external: a create or a mail may succeed with its
reply lost, and a create may land after its caller's timeout.  `Faults` says what
can go wrong in an instance: `crash` and `lost` are ordinary life; `late`, `old`,
`overrun` and `firstScans` break assumptions that the code makes.

### RolReview
The batches of several clients over one stretch of time, weekly and monthly.
`mark[b][f]` stands for `excluded` and `excluded_reason`, `hash[b]` for the content
last written, `draft[s]` for what a scan has computed from claims and matches it
read at its start, `todo[s]` for the drafts it has yet to save, one transaction per
client.  `ExcludeFs`, `IncludeFs` and `AssignFs` are the modes of `setRolInvoice`, with the
checks of the server only, so that a page may be as old as it likes.  `SaveRolProgram` replaces
a client's accounts (and so `matches`), whether it is `active`, and its `frequency`.  Scans
overlap.  Two variables of history record what the code does not prevent: `crossed`, the clients of
which two ranges were scanned at once, and `blind`, the invoices that a list took although
another client's list had them: a scan found them undisputed, or somebody excluded a contested
one on an old page.

### RolPdfs
`Take` is `claim` and the start of a print, or the skipping of an invoice that is not
claimable; `BudgetSpent` is the end of a run's time; `ResetFailedRolPdfs` is "Pobierz
ponownie", which also clears the reservation of a print in progress (`forgotten`
remembers such prints).  No row and a reset row are one state.  Its proofs stand at the end of
RolSendingProofs, which extends both modules: names that both would use have a
prefix here (`PdfsInit`, `PdfsTick`, `PdfsTypeOK` ...).

### DeliveryNotices
`queue[n]` and `sendIn[n]` are the entry of a receipt, `undo[n]` and `undoIn[n]` the
undo payload of the browser that received.  The two windows begin at different
moments: `Receive` inserts, `Reply` answers.  A flush reads what is due
(`batch`), mails each entry or fails, and marks at its end (`toMark`).  `told[n]` is what has
become of a notice, whatever its row says: `ReadFails` is the order or the address that cannot be
read, which the code takes for having none ("unread").  Flushes overlap
freely, as in the code.  A mail to one salesperson may hold several notices; the model
mails them one after the other, which allows more than the code does.

### SalesCancel
The pure functions over one row of `individual_orders` that the actions share: what a
withdrawal, a receipt, a correction or a decision writes, how a stored quantity reads
(`StoredQuantity`: NULL has two meanings), which page shows the row.  Operators on a
record; nothing moves here.

### IndividualOrders
One row and several requests that work on it.  `req[q]` has the step a request is at,
what it has read (`before`), what it is going to write (`write`: named fields and their
values) and the undo payload it leaves to its browser (`undo`).  The board goes Capture, Check,
Skip, Snapshot, Write, Finish or Rollback; a receipt OpenQueue, CaptureDelivery,
ReadDelivery, WriteDelivery; a revert ReadRevert, WriteRevert; a withdrawal CancelOrder from the
board's side and OpenMine, PlanCancel, WriteCancel from the salesperson's; then
acknowledgements (ReadAck, ReadShelf, WriteAck), decisions (ReadDecision, WriteDecision), the
settlement of withdrawn goods (ReadSettle, WriteSettle) and Undo.  `Purge` is the deletion of old
complete and cancelled rows; after it a request finds nothing. An UPDATE ... WHERE is one action, so is a read; every request may GiveUp.
Four variables are history: `fresh` (requests whose read nobody has written over),
`overlapped` (somebody wrote on an outdated read), `hasty` (a settlement did) and `seen` (the quantity that the salesperson
has acknowledged).  The code does not prevent overlaps, so most properties speak of
the time before the first one, and say so.

### DeliveryStats
Samples and counters of one supplier and order type: `done`, `on` and `sample` of each order (is
it complete, since which day, has it an active sample), `stats` (the two counters), `req` what each
request has read and yet to do.  Receipts, corrections, undos and reverts go statement
by statement: the sample, its soft delete, the promotion of the next order of that day
(`Replace`), the increment by RPC, the counters read and written back; so does a
recalculation (Wipe, ReadHistory, Refill).  Reads and writes whose errors the code swallows have an
action of their own (InsertFails, CheckFails, IncrementFails, SampleFails, SiblingsFail).  `Purge` deletes
complete orders of one day (`gone`); their samples stay without an order (`orphan`) and their
weight stays in the counters, and `kept` adds up what it was.  `drift` records that requests
on one day overlapped, one died, a correction was undone, something failed, or the purge took a
part of a day or came between the steps of a request.  `Total` adds up dates
by counting the days up to each, which is the same sum and can be reasoned about without
recursion.

### ZdProposals
`prop` is the table of proposals, `zds` the documents Subiekt has, each with the proposal it
was made from, `late` the creates that outlived their caller.  `req[q]` is
`actionAcceptZdAutoProposal` or the estimate page that accepts at its end; `calc` the
calculations (the nightly one, alone by its advisory lock, and one in each process of the server
for "Przygotuj teraz", `Instances`) that replace open proposals, `todo` the
proposals the nightly run has yet to reconcile.  Lines are abstracted to how many ZDs they
count, which is what a second order of the same goods depends on.

### ServiceOrders
`status`, `loaner`, `parts`, `rw` are the columns of orders, `unit` the status of units, `tx[t]` a
transaction: what it does, the row it has locked, what it has found.  Locks are not a
variable: who has a row follows from `tx` (`HasOrder`, `HasUnit`).  A transaction begins by
locking a row that is fit for it and commits by writing it, so that other
transactions come in between; linking has two more steps (the unit and the other orders are
read without a lock), a return unlinks in two steps, as an UPDATE under READ COMMITTED does:
it finds rows, then waits for each and looks again.  `lent`, `booked` and `outdated` are
history.

## 3. Runs

Passing runs have no error; in the two others TLC finds the behaviour in which the
code does not do what a comment or a message says.

| Run | Shows | Instance |
|---|---|---|
| `locks` | exclusion except after an overrun, refinement of one section per key, no key lost | 3 jobs, 2 keys, TTLs 1 and 2 |
| `rol_send` | one ZD, no second mail unless the first was not recorded, stable ZD number, "wyslane" final, the lock refines ExclusiveSection | 2 dialogs, 2 lists, crashes, lost replies |
| `rol_send_worst` | honest history and a lock that comes back, under all faults | 2 dialogs, 1 list |
| `rol_review` | an invoice in one report of one client unless a scan or an old page got round the assignment, conflicts decided, approved lists fixed | 2 clients, one with monthly reports and one that changes; 1 invoice, 2 scans |
| `rol_pdfs` | no double print unless a reset forgot one; fetched, exhausted or unwanted in the end; what is asked again is tried again | 2 invoices, 2 runs, 2 attempts |
| `notices` | cancelled in time = not mailed, doubles only in doubt, a refused mail is not marked, closed is final, none stays open | 2 notices, 2 flushes, window 1 |
| `orders` | status and quantities agree, an open order is on some page, a withdrawal is final and its columns stay together | 3 pieces, 2 requests, the purge |
| `orders_rest` (violation) | goods that come after an acknowledged part was corrected to nothing are up for nobody's pickup, against `services/orders.ts:1873` | 2 pieces, 2 requests |
| `stats` | the counters are what a recalculation yields and what it would drop, each complete order has its sample | 3 orders, 2 of them of one day, 2 requests, purges, failing reads and writes |
| `zd_proposals` | one ZD per proposal, open = not ordered, decisions final, a proposal is left alone while its ZD is created, attempts settled | 2 requests, 1 process that recalculates beside the night, 2 proposals, 2 ZDs |
| `zd_proposals_twice` (violation) | the recalculation that a busy proposal asks for does not count its ZD, against `zd-estimate.ts:1928` | the same with 2 processes |
| `service` | an RW is for the parts of its order, a unit lent once, links true unless they rest on a stale look | 2 orders, 1 unit, 2 transactions, 2 parts |

Each property is broken by a plausible mistake in the code, which PROJECT.json lists under
`mutants`.  The type invariants of JobLocks, RolReview, RolPdfs, DeliveryNotices
and ServiceOrders are in no run, as they are proved.

**Why the bounds are enough.**
- *Two* dialogs, requests, runs, flushes or transactions give every race between two actors; the
  lock instance has a third job because joining the successor of an overrun takes
  three.  The proofs cover any number.
- Two lists, so that a context can be stale; two invoices, so that a run can
  overtake another and skip one; one invoice in `rol_review` because every rule but
  "something to report" is about one invoice at a time.
- `MaxZds = MaxMails = 2` is one more than the properties allow.  In
  `rol_send_worst` they are 1: its two properties are about the first mail and
  about time, and a step that meets the bound can still fail, so nothing
  blocks there.
- TTLs and windows of 1 or 2 ticks: 0 left, some left and expired are all the code
  distinguishes; two TTLs, so that a longer and a shorter lock overlap.
- Three pieces can be delivered, withdrawn and outstanding at the same time.  `UntilOverlap` stops
  one step after the first write on an outdated read: the properties are about what
  goes before, except WrittenTogether, which is proved without this bound; the proofs of the others
  have no bound either.
- Three orders, of which two share a day, so that one can take the other's place beside an
  unrelated one; the proofs hold for any number of orders and days.  Days and the requests
  begun are bounded (`LastDay`, `MaxBegun`, fewer after a drift), so that the instance stops: no
  deadlock check.
- Two proposals, so that one replaces the other; two ZDs, one more than a proposal may have.
- Orders are closed and units retired for good, so `service` stops: no deadlock check.  Two
  orders compete for its unit; two parts, so that one is there when the RW is entered and another
  one is taken or given back.
- Clocks and ages stop counting at the first value no guard distinguishes;
  nothing else is cut off.

`rol_review` is cut off (`Bounded`) where `crossed` or `blind` becomes non-empty, as its properties
exempt what comes after; one client keeps its monthly reports and stays active, so that the reports of
the two differ or agree as the other one changes; scans overlap while both clients are active and match
the invoice, though one of them may have begun before that (the theorems have none of these bounds). `notices` counts failed reads among its steps: a notice that ends "unread" is the only way
to be marked without a mail and with an addressee.  `zd_proposals` has one process besides the night,
as two make its graph too large for the liveness property; the theorems hold for any `Instances`.

**Fairness.** *Locks:* time passes, and a job that runs reaches its `finally` block.
*Sending:* time passes and a request that is served gets on or dies; nobody is
obliged to press a button.  *PDFs:* the cron starts a run in every slot in which
something is pending (`cron.ts`), prints end (Subiekt has timeouts), and each invoice
is come to if it is reachable again and again: runs may die or run out of time, but
not each time just before the same invoice, which the order by id would otherwise
allow.  The liveness properties there also assume that people stop resetting.
*Notices:* the cron flushes during work hours, a flush gets on unless it dies, and
the mail server takes a mail that is offered again and again; the property
assumes that flushes stop dying at some time.
*Proposals:* a request gets on, as its calls have timeouts; the nightly run is started
each day and gets on once started; days pass, though none while a night's run is
going on (hence strong fairness).  AttemptIsSettled assumes that nightly runs stop dying at some time; it
does not assume that Subiekt answers.

## 4. Proofs

All theorems hold for any values of the constants, subject to the assumptions
named in the modules: model values are distinct from data, TTLs and windows are
natural numbers, and a print ends within its reservation (`PrintTicks <= ClaimTicks`,
90 s times 3 attempts against 6 minutes).

| Theorem | Extra assumptions | Argument |
|---|---|---|
| `JobLocksProofs`: TypeCorrect, MutualExclusionHolds, SectionsImplemented | none | `IInv`: a job under a key without overrun has a row with exactly its own ticks left, so that nobody can take the key; an overrun is remembered only while somebody is there.  Exclusion alone is not inductive: it says nothing about the row |
| `RolSendingProofs`: TypeCorrect | none | a ZD number in the program is one Subiekt gave: documents are only added |
| MailedOnce | no overrun, no two first scans | `LockIsHeld` (a dialog inside has the lock, alone, on an approved batch) and `HistoryIsFinal` (what is recorded is sent); the lock refuses sent batches |
| CreatedAtMostOnce | the same, and no late create, no retry after FIND_DAYS | `CreatedOnce`: the one inside creates only after it has found nothing |
| SentStaysSent, SectionsImplemented | no overrun, no two first scans | the same invariant: only the one inside writes the status, and it is inside alone |
| SavedNumberStays | as CreatedAtMostOnce | only one document is ever found, so a stale dialog saves the same number |
| HistoryStaysTrue | none | `Accounted`: mails are at least the entries of the history and the dialogs about to write one |
| PdfsTypeCorrect, PrintedByOneRun (RolPdfs) | none | `Reserved`: a print and its reservation have the same age, unless a reset cleared it |
| `RolReviewProofs`: TypeCorrect, ApprovedListsAreFixed, ConflictsNeedDecisions | none: overlapping scans, stale pages, changes of accounts and reports included | content and status agree with the hash; decisions are remembered through rescans |
| ReportedOncePerProgram | none; says nothing of a client once two of its ranges were scanned at once | `OnceInv`: as long as it is not `crossed`, a client has an invoice in one report (`HeldOnce`), and what a scan of one of its ranges is about to save is in no report of another range (`DraftsFree`) |
| ReportedForOneClient | none; says nothing of an invoice that got round the assignment (`blind`) | `OwnedOnce`: one client's lists own the invoice, that is, hold it included or excluded by hand; a list gets it by an assignment, which takes it from all others, or as undisputed, which is `blind` if another one has it |
| `DeliveryNoticesProofs`: TypeCorrect, CancelledInTime, MarkedOnlyWhenMailed | none | `TellingInv`: nobody hears of what is not queued or not due, and what is about to be marked was mailed, had no addressee or could not be read |
| MailedOnce | none | `DoubtInv`: without doubt one flush holds a notice, and what was mailed is in its `toMark` until it is marked |
| ClosedStaysClosed | none | each write to the queue is conditional on "pending" |
| `IndividualOrdersProofs`: TypeCorrect, NeverHalfWithdrawn | none: any quantity, any number of requests, overlaps included | `PairInv`: every set of fields on its way to the row holds the columns of a withdrawal together, whatever has become of the row; a settlement whose read is still fresh finds the decision in place, and one that does not is `hasty` |
| StatusAgrees, NobodyForgets, StaysWithdrawn | none: any quantity, any number of requests, up to the first write on an outdated read | `KnowledgeInv`, three things about each request and its knowledge of the row: the updates it carries have the right columns (`FormInv`), what it has read and nobody has written over is still so and is what its planned update was computed from (`KnowInv`), and an undo or rollback that is still fresh leads back to a sound row (`SoundInv`).  `Sound` is what Coherent and NotForgotten say of one row, with two facts about withdrawals that keep it inductive; that each operation keeps rows sound is a lemma of its own (ReceiveSound, CancelSound, RevertSound, AckSound ...) |
| `ZdProposalsProofs`: TypeCorrect, OneZd, OpenIsUnordered, DecisionsAreFinal, AttemptsAreLeftAlone | none | `ClaimInv`: who creates has the only claim on its proposal, of which there is no ZD yet; `RunInv`: what a calculation inserts is not written yet, and a proposal that the night settles has nobody working on it |
| `ServiceOrdersProofs`: TypeCorrect, RwCovers, Lent, Links | none | `LockInv`: a row is locked by one transaction; `FitInv`: what a transaction has found of the row it has locked is still so, and a return has found every link.  None of the three properties is inductive alone, as the guards were evaluated a step earlier |
| `DeliveryStatsProofs`: TypeCorrect | none: overlaps, deaths, failures, purges and undone corrections included | `Typed`: a request that writes corrections has one left; `CountersType`: what a correction leaves is never negative |
| SamplesKept | none but that there is an order; until something drifts | `Ledger`: each request knows its order and the samples of that day (`Knows`), an order whose sample does not fit has a request under way (`FitOrOpen`), one request at most changes the counters of a day (`OnePerDay`), none while they are rebuilt (`RefilledAlone`).  `KnowsKept`: whatever another request does without drift, it leaves alone what a request knows |
| CountersKept | the same | `Accounts`: at every step of every request there are dates that the counters are the sum and number of.  They are those of the samples, except on a day some request has unsettled: there the order just completed is not counted yet, the sample just deleted still is, or the whole day is out between the two corrections.  `DayOut` and `DayJoined` say how the sum over the first deliveries changes when one day leaves, or an order joins a day that has its first |

Only model-checked: all liveness (LockComesBack, AlwaysTakeableAgain,
FetchedOrExhausted, AskedIsTried, NoNoticeIsLost, AttemptIsSettled), which is out of the prover's
reach.  Every safety property and action property of the passing runs is proved.

## 5. What was seen on the way

Besides the behaviours of the violation runs.

ROL reports:
- A create that lands after the retry has searched makes a second ZD (`send.ts:90`), though
  `send.ts:98` promises one.
- The list may be edited and approved again between the ZD and the mail: they differ
  (`send.ts:108` against the comment `send-rules.ts:24`).
- Overlapping weekly and monthly scans both take an invoice (`data.ts:433`, comment `data.ts:415`); a weekly
  scan does not see a conflict with a client who has monthly reports (`scan.ts:346`, `constants.ts:3`).
- A scan does not look at the lists of other clients: an account that moves to another client
  after an approval brings the invoices of the approved list into that client's list too, and both can be
  sent (`data.ts:118`, `data.ts:414`).
- A reset during a print leads to a second one (`pdfs.ts:110`, comment `pdfs.ts:5`).
- A notice is mailed while its receipt can still be undone, as the two windows begin
  at different moments (`delivery-notification-queue.ts:26`, migration 075:2).
- An error in reading the order, the card or the profile of the salesperson is not looked at: the
  notice is marked as sent with nobody mailed (`delivery-notification-queue.ts:277`,
  `resolve-sales-person-email.ts:20`, `45`), though the list it is put on is for entries without an order or
  address (comment at line 271).
- While Gmail sends, the list can be reopened, edited or replaced by a scan; the
  batch is then marked as sent with a list that was not mailed (`data.ts:622`
  does not look at `sending_at`).
- Of two scans that both find no row, the slower one applies the decision it made
  for "no row" to whatever the row has become (`data.ts:387`).
- An assignment that is refused because the other client's list is already sent
  advises to reopen that list, which is impossible (`data.ts:533`).
- `exclude` is accepted for an invoice that was assigned to another client; the
  reason that marks it as contested is lost and `include` brings it back (`data.ts:507`).
- An invoice whose last print was interrupted shows as "czeka" for ever (`pdfs.ts:24`).
- Prints of different invoices overlap although Subiekt prints one at a time (`pdfs.ts:87`).
- A job that overruns its TTL deletes the lock of its successor (`locks.ts:54`); the
  successor's work is protected again only when the key has been empty.

Individual orders and statistics:
- The second partial receipt of an automatically acknowledged order leaves it acknowledged;
  `warehouse_cleared_at` is not reset on completion.
- A decided partial withdrawal never comes to the warehouse for settling (`queue-inbox.ts:12`,
  `warehouse-cancel-fulfillment.ts:9` against `fetchDeliveryQueue`).
- The guarded write of a revert may match nothing (`admin.ts:1279`) after notices were cancelled and the
  sample deleted, and the order is reported as reverted.
- A full withdrawal of goods on stock stores NULL, which reads back as ordered minus delivered.
- Undoing a withdrawal restores "Nowe" over an order that the board has placed meanwhile:
  it is ordered twice.  Receipts check no status.  Orders that the board has skipped are in
  its undo payload.
- The warehouse settles withdrawn goods by id after a separate read (`admin.ts:1079`): if the withdrawal
  is undone in between, the order has a settlement without a withdrawal or a decision.
- The purge looks at `action_at` and status only (`history-cleanup.ts:97`); `action_at` is not set when an
  order is completed, so that an order entered three months ago is deleted as soon as it is complete, also
  one that waits for its pickup.  `orders.ts:1980` and `2079` start the purge after a receipt.
- The purge leaves the samples and the weight of the orders it deletes: the next recalculation drops those
  days from the counters, and until then samples without an order still compete with those of their day when
  one of them is corrected.
- A receipt whose sample cannot be inserted, or whose siblings cannot be read, counts all the
  same (`orders.ts:2223`, `2113`); a correction that cannot read them takes the weight out and promotes nobody
  (`delivery-stats-samples.ts:116`).
- Two orders of one day that are completed at once each see the other complete, and neither
  is counted; two soft deletes at once both decrement; undoing a correction loses the
  sample (`receive-queue-undo.ts:130`); a recalculation beside a receipt counts it twice.

ZD proposals:
- Between reading a proposal and claiming it its lines may be refreshed: the ZD is made
  of the old ones.  Two open proposals of one supplier are possible (overlapping calculations, or a
  release after an insert), against `zd-auto-proposals.ts:228`.
- `acceptPendingAutoProposal` ignores that it changed nothing; a rejection during a create leaves its ZD
  unrecorded; one ZD can be recorded for two proposals.
- The reconciliation gives up a proposal whose ZD exists when people have since removed a
  good part of its lines, when midnight has passed, or when the documents of Subiekt
  could not be read.

Service orders:
- Linking reads the unit without a lock (`service-orders.ts:506`): if the unit comes back before the link
  is written, the return finds nothing to unlink and the order shows a unit that is in stock, and
  after its next issue somebody else's, which the comment `service-loaners.ts:216` wants to exclude.
  Two orders linked at once to one unit both pass the check at line 510; there is no unique index.
  These are the `outdated` units of the model.
- A return may wait for an order whose linking waits for the unit; PostgreSQL aborts one of them.

## 6. What is not modelled

- Of individual orders: adding and editing requests, availability requests ("informacja", with the shelf of
  `services/orders.ts:1675` and `1728`), teeth (`teeth-orders.ts`, `my-orders.ts:458`), notes, the deletion of a row from the history
  (`admin.ts:172`; as the purge, but by a person), the batch of marked deliveries (`services/orders.ts:2354`), the
  acknowledgements that the watch of customer orders takes back (`zk-watch-pending-ack-plan.ts:58`), the
  repair of incomplete rows and the assignment of suppliers, and the column `procurement_sales_cancel_ack_at`, which
  no guard of the model reads.
  Of statistics: the mode in which they are computed from samples
  (`delivery_stats_from_samples`), samples imported from Subiekt, the fallback without migration 152.
  Supplier schedules.
- Of ZD proposals: linking by document id, the final lines, what the estimate computes, the rollback of a
  policy, databases without migrations 193 and 199.
- Of service orders: invoices, notes, client data, numbering, catalogues, the purchase
  request for a waiting part.
- Of the purge: the other tables (receipts, notes, events).
- The stock watch, except for what its nightly run does to proposals.
- Layout, wording, workbooks, mail texts, address parsing, catalogue numbers: data
  that no property tells apart.
- Quantities and corrections (KFS) inside a list: a list is one value.  Their
  arithmetic is planned as pure operators.
- Which ranges are due (calendar arithmetic of `cron.ts`).
- Authentication and roles; the query layer; rendering.
- Synchronisation with mailboxes, carriers and price lists.

## 7. Plan

1. Composition of IndividualOrders with DeliveryNotices (undo and revert write both)
   and with JobLocks (batches and `processMarkedDeliveries` run under a lock).
2. Supplier schedules: a date that is marked, shifted and undone by several people.
3. **RolQuantities** and the ZD estimates: KFS arithmetic, totals and ranges as pure functions
   against a reference definition.
4. RolSending as an implementation of `SendBatch` of RolReview; the document ids and final
   lines of proposals; statistics computed from samples.
