--------------------------- MODULE DeliveryNotices ---------------------------
(***************************************************************************)
(* src/lib/orders/delivery-notification-queue.ts: a received delivery puts *)
(* a notice to the salesperson into delivery_notification_queue, due after *)
(* the undo window (UNDO_WINDOW_MS).  Undoing the receipt cancels it; due  *)
(* notices are mailed by flushes: the cron, the timer of the browser that  *)
(* received, and every browser that opens the application.  Flushes take   *)
(* no lock and no claim.                                                   *)
(*                                                                         *)
(* A receipt puts at most one notice into the queue and carries its id in  *)
(* its undo payload, so both are one element of Notices.  What happens to  *)
(* the order itself, and to the address of its salesperson, is not part of *)
(* this module: a flush may find either or not.                            *)
(***************************************************************************)
EXTENDS Integers

CONSTANTS
  Notices,    \* receipts that have something to tell, with their queue entry
  Flushes,    \* requests that run sendPendingDeliveryNotifications
  Window      \* UNDO_WINDOW_MS, in ticks

ASSUME WindowAssumption == Window \in Nat \ {0}

VARIABLES
  \* delivery_notification_queue: "none", "pending", or why it is closed; ticks
  \* until send_at, as long as that matters (0: due)
  queue, sendIn,
  \* the undo payload of each receipt: "none" yet, "open" or "over"; ticks until
  \* expiresAt while it is open
  undo, undoIn,
  \* each flush: notices it has read and not dealt with, and those to mark as sent
  batch, toMark,
  \* history: what the addressee has got.  Who got nothing, "nobody": there was none;
  \* "unread": a failed read was taken for that
  told,
  \* history: notices held by two flushes at once, or mailed by one that did not
  \* get to know or to note it
  doubtful

table   == <<queue, sendIn>>
undos   == <<undo, undoIn>>
flushes == <<batch, toMark>>
history == <<told, doubtful>>
vars == <<table, undos, flushes, history>>

Held(f) == batch[f] \cup toMark[f]

\* A flush holds due notices only, each in one place.
TypeOK ==
  /\ queue \in [Notices -> {"none", "pending", "sent", "cancelled"}]
  /\ sendIn \in [Notices -> 0 .. Window]
  /\ undo \in [Notices -> {"none", "open", "over"}]
  /\ undoIn \in [Notices -> 0 .. Window]
  /\ batch \in [Flushes -> SUBSET Notices] /\ toMark \in [Flushes -> SUBSET Notices]
  /\ \A f \in Flushes : batch[f] \cap toMark[f] = {}
  /\ \A f \in Flushes : \A n \in Held(f) : queue[n] # "none" /\ sendIn[n] = 0
  /\ told \in [Notices -> {"nothing", "nobody", "unread", "once", "repeatedly"}]
  /\ doubtful \subseteq Notices

Init ==
  /\ queue = [n \in Notices |-> "none"] /\ sendIn = [n \in Notices |-> Window]
  /\ undo = [n \in Notices |-> "none"] /\ undoIn = [n \in Notices |-> 0]
  /\ batch = [f \in Flushes |-> {}] /\ toMark = [f \in Flushes |-> {}]
  /\ told = [n \in Notices |-> "nothing"] /\ doubtful = {}

-----------------------------------------------------------------------------
(* Receiving and undoing.                                                  *)

\* createDeliveryNotificationQueueEntry, while the receipt is being saved.
Receive(n) ==
  /\ queue[n] = "none"
  /\ queue' = [queue EXCEPT ![n] = "pending"]
  /\ UNCHANGED <<sendIn, undos, flushes, history>>

\* The action that saved it answers: buildDeliveryUndoPayload starts a window of
\* its own.
Reply(n) ==
  /\ queue[n] # "none" /\ undo[n] = "none"
  /\ undo' = [undo EXCEPT ![n] = "open"]
  /\ undoIn' = [undoIn EXCEPT ![n] = Window]
  /\ UNCHANGED <<table, flushes, history>>

\* cancelDeliveryNotificationQueueEntries
Cancel(n) == queue' = [queue EXCEPT ![n] = IF @ = "pending" THEN "cancelled" ELSE @]

\* actionUndoDelivery: not after expiresAt.  The notice is cancelled if it still can
\* be; the receipt is undone in any case.
UndoDelivery(n) ==
  /\ undo[n] = "open"
  /\ undo' = [undo EXCEPT ![n] = "over"]
  /\ undoIn' = [undoIn EXCEPT ![n] = 0]
  /\ Cancel(n)
  /\ UNCHANGED <<sendIn, flushes, history>>

\* actionRevertToPending cancels the pending notices of the order at any time.  (It
\* stands for an undo that reaches the queue late, too, and for the deletion of the
\* order, with which its pending entries go: ON DELETE CASCADE.)
RevertToPending(n) ==
  /\ queue[n] = "pending"
  /\ Cancel(n)
  /\ UNCHANGED <<sendIn, undos, flushes, history>>

-----------------------------------------------------------------------------
(* Flushes.                                                                *)

Idle(f) == Held(f) = {}

\* Mutants: send_at is not looked at; sent_at is not looked at.
DueAtOnce == {n \in Notices : queue[n] = "pending"}
DueAgain == {n \in Notices : queue[n] \in {"pending", "sent"} /\ sendIn[n] = 0}

\* getPendingDeliveryNotificationQueueEntries and the filter on sendAt.
Due == {n \in Notices : queue[n] = "pending" /\ sendIn[n] = 0}

\* A flush reads what is due among the ids it was given.
StartFlush(f, ids) ==
  /\ Idle(f) /\ ids # {} /\ ids \subseteq Due
  /\ batch' = [batch EXCEPT ![f] = ids]
  /\ doubtful' = doubtful \cup {n \in ids : \E g \in Flushes : n \in Held(g)}
  /\ UNCHANGED <<table, undos, toMark, told>>

\* flushAllDueDeliveryNotifications("all")
FlushAll(f) == StartFlush(f, Due)

DealtWith(f, n) ==
  /\ n \in batch[f]
  /\ batch' = [batch EXCEPT ![f] = @ \ {n}]

Tell(n) ==
  told' = [told EXCEPT ![n] = IF @ \in {"once", "repeatedly"} THEN "repeatedly" ELSE "once"]

ToBeMarked(f, n) == toMark' = [toMark EXCEPT ![f] = @ \cup {n}]

\* The mail of its addressee leaves: the notice is one of those to mark.
Mail(f, n) ==
  /\ DealtWith(f, n) /\ ToBeMarked(f, n)
  /\ Tell(n)
  /\ UNCHANGED <<table, undos, doubtful>>

\* Mutant: failed addressees are marked like the others.
MailFailsUnnoticed(f, n) ==
  /\ DealtWith(f, n) /\ ToBeMarked(f, n)
  /\ UNCHANGED <<table, undos, history>>

\* The mail server refuses it, or fails to say that it has taken it.
MailFails(f, n) ==
  /\ DealtWith(f, n)
  /\ \/ UNCHANGED history
     \/ Tell(n) /\ doubtful' = doubtful \cup {n}
  /\ UNCHANGED <<table, undos, toMark>>

\* No order or no address any more: marked without a mail.
SettleWithoutMail(f, n) ==
  /\ DealtWith(f, n) /\ ToBeMarked(f, n)
  /\ told' = [told EXCEPT ![n] = IF @ = "nothing" THEN "nobody" ELSE @]
  /\ UNCHANGED <<table, undos, doubtful>>

\* The order, the card of the salesperson or the profile cannot be read.  The error is
\* not looked at: without an order, and without an address, the notice is marked.
ReadFails(f, n) ==
  /\ DealtWith(f, n) /\ ToBeMarked(f, n)
  /\ told' = [told EXCEPT ![n] = IF @ = "nothing" THEN "unread" ELSE @]
  /\ UNCHANGED <<table, undos, doubtful>>

\* Mutants: what somebody cancelled meanwhile is marked too; nothing is marked.
MarkCancelledToo(f) ==
  /\ batch[f] = {} /\ toMark[f] # {}
  /\ queue' = [n \in Notices |-> IF n \in toMark[f] THEN "sent" ELSE queue[n]]
  /\ toMark' = [toMark EXCEPT ![f] = {}]
  /\ UNCHANGED <<sendIn, undos, batch, history>>

MarkNothing(f) ==
  /\ batch[f] = {} /\ toMark[f] # {}
  /\ toMark' = [toMark EXCEPT ![f] = {}]
  /\ UNCHANGED <<table, undos, batch, history>>

\* markDeliveryNotificationQueueEntriesSent, at the end of the flush.
MarkSent(f) ==
  /\ batch[f] = {} /\ toMark[f] # {}
  /\ queue' = [n \in Notices |->
       IF n \in toMark[f] /\ queue[n] = "pending" THEN "sent" ELSE queue[n]]
  /\ toMark' = [toMark EXCEPT ![f] = {}]
  /\ UNCHANGED <<sendIn, undos, batch, history>>

\* The server dies, or the database fails it: the mails have left, the queue does
\* not know.
Crash(f) ==
  /\ ~Idle(f)
  /\ batch' = [batch EXCEPT ![f] = {}]
  /\ toMark' = [toMark EXCEPT ![f] = {}]
  /\ doubtful' = doubtful \cup toMark[f]
  /\ UNCHANGED <<table, undos, told>>

Tick ==
  /\ sendIn' = [n \in Notices |->
       IF queue[n] = "pending" /\ sendIn[n] > 0 THEN sendIn[n] - 1 ELSE sendIn[n]]
  /\ undoIn' = [n \in Notices |-> IF undoIn[n] > 0 THEN undoIn[n] - 1 ELSE 0]
  /\ undo' = [n \in Notices |-> IF undo[n] = "open" /\ undoIn[n] = 0 THEN "over" ELSE undo[n]]
  /\ UNCHANGED <<queue, flushes, history>>

Step(f) ==
  \/ \E n \in Notices :
       Mail(f, n) \/ MailFails(f, n) \/ SettleWithoutMail(f, n) \/ ReadFails(f, n)
  \/ MarkSent(f)

Next ==
  \/ \E n \in Notices :
       \/ Receive(n) \/ Reply(n) \/ UndoDelivery(n) \/ RevertToPending(n)
  \/ \E f \in Flushes :
       \/ \E ids \in SUBSET Notices : StartFlush(f, ids)
       \/ Step(f) \/ Crash(f)
  \/ Tick

Spec == Init /\ [][Next]_vars

\* The cron flushes all that is due every hour, a flush that is not killed gets on,
\* and the mail server takes a mail if it is offered often enough.
Fairness ==
  /\ WF_vars(Tick)
  /\ WF_vars(\E f \in Flushes : FlushAll(f))
  /\ \A f \in Flushes : WF_vars(Step(f))
  /\ \A n \in Notices : SF_vars(\E f \in Flushes : Mail(f, n))

FairSpec == Spec /\ Fairness

-----------------------------------------------------------------------------
\* A receipt undone before its notice was due is never heard of: no flush that was
\* already on its way mails it (migration 075:3).
CancelledInTimeIsNotMailed ==
  \A n \in Notices :
    (queue[n] = "cancelled" /\ sendIn[n] > 0) => told[n] = "nothing"

\* Without claims, a notice is mailed twice only if two flushes held it at the same
\* time, or one died or was left without an answer: one that comes later never
\* repeats what an earlier one has done.
MailedTwiceOnlyInDoubt == \A n \in Notices : told[n] = "repeatedly" => n \in doubtful

\* A notice whose mail is refused stays in the queue ("wpisy zostają w kolejce do
\* ponowienia"), whatever else the flush marks: what is sent has been mailed, or had
\* nobody to be mailed to, or its addressee could not be read.
SentIsMailed == \A n \in Notices : queue[n] = "sent" => told[n] # "nothing"

\* A closed notice stays as it is: a flush does not mark as sent what somebody
\* cancelled while it was being mailed, and an undo does not cancel a sent one.
ClosedIsFinal ==
  [][\A n \in Notices : queue[n] \in {"sent", "cancelled"} => queue'[n] = queue[n]]_vars

\* No notice is lost: as long as not every flush is killed, each one that is queued
\* is sent or cancelled in the end, although mails fail and addressees vanish.
NoNoticeIsLost ==
  <>[][\A f \in Flushes : ~Crash(f)]_vars =>
    \A n \in Notices : (queue[n] = "pending") ~> (queue[n] \in {"sent", "cancelled"})
=============================================================================
