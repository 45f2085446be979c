------------------------------ MODULE ZdProposals ------------------------------
(***************************************************************************)
(* The proposals of purchase orders (ZD) to one supplier: zd_auto_proposals*)
(* and everything that writes them: src/lib/data/zd-auto-proposals.ts, the *)
(* actions of src/app/actions/zd-estimate.ts that accept, reject and       *)
(* recalculate them, and the nightly worker of src/lib/stock-watch.        *)
(*                                                                         *)
(* Accepting a proposal claims it in the database and creates a ZD in      *)
(* Subiekt; only a refusal for certain releases the claim.  A create whose *)
(* outcome is not known stays claimed until a nightly run finds the ZD or  *)
(* gives up.  A calculation replaces what is open and not claimed.         *)
(*                                                                         *)
(* Abstracted: a deferred proposal is an open one; the lines of a proposal *)
(* are the ZDs that their calculation could count; whether a nightly run   *)
(* finds a ZD that fits (by day and goods, and linked to no proposal) is   *)
(* left open, as one made by hand in the Kreator may.  Left out: which ZD  *)
(* an accepted proposal is linked to (dok_id), the lines kept for the      *)
(* report (final_lines) and the quick lock of one process                  *)
(* (acceptingProposalIds), which several instances do not share.           *)
(***************************************************************************)
EXTENDS Integers, Sequences

CONSTANTS
  Requests,      \* requests at one time that accept a proposal
  Instances,     \* processes of the server: each does one calculation that people ask for
  MaxProposals,  \* bound: proposals ever written
  MaxZds         \* bound: ZDs ever created from proposals

ASSUME ZdProposalsAssumption ==
  MaxProposals \in Nat /\ MaxZds \in Nat /\ "night" \notin Instances

Proposals == 1 .. MaxProposals   \* ordered by created_at
GiveUpDays == 1

VARIABLES
  prop,     \* proposals
  begun,    \* proposals begun, numbering them
  zds,      \* the ZDs in Subiekt that were made from proposals: from which
  late,     \* those that Subiekt may still write after the caller gave up
  req,      \* requests
  calc,     \* calculations: the nightly one and those that people ask for
  todo      \* proposals the nightly run has yet to reconcile

vars == <<prop, begun, zds, late, req, calc, todo>>

\* A proposal: "none" before it is committed, "open" when pending or deferred,
\* "claimed" when its create_attempted_at is set besides; days since then, as far as
\* they matter; how many ZDs the calculation of its lines has seen.
Proposal == [status : {"none", "open", "claimed", "accepted", "rejected", "expired"},
             age : 0 .. GiveUpDays + 1, counted : 0 .. MaxZds]
New(s, n) == [status |-> s, age |-> 0, counted |-> n]
\* Nothing reads the lines and the claim of a proposal that is decided.
Decided(s) == New(s, 0)
Runs == {"night"} \cup Instances

\* A request: the proposal it accepts and how many ZDs the lines it read count.
Request == [step : {"idle", "claim", "create", "refused", "record"},
            prop : 0 .. MaxProposals, counted : 0 .. MaxZds]
Task(s, p, n) == [step |-> s, prop |-> p, counted |-> n]
Idle == Task("idle", 0, 0)

\* A calculation: how many ZDs it has seen and the proposal it inserts.
Run == [step : {"idle", "reconcile", "write", "insert", "outdated"},
        prop : 0 .. MaxProposals, counted : 0 .. MaxZds]
Resting == Task("idle", 0, 0)

TypeOK ==
  /\ prop \in [Proposals -> Proposal]
  /\ begun \in 0 .. MaxProposals
  /\ zds \in Seq(Proposals) /\ Len(zds) <= MaxZds
  /\ late \subseteq Proposals
  /\ req \in [Requests -> Request] /\ calc \in [Runs -> Run]
  /\ todo \subseteq Proposals
  \* A request works on a proposal that it has claimed and that may have been decided.
  /\ \A q \in Requests :
       /\ req[q].step # "idle" => req[q].prop # 0
       /\ req[q].step \notin {"idle", "claim"} =>
            prop[req[q].prop].status \in {"claimed", "accepted", "rejected"}

Init ==
  /\ prop = [p \in Proposals |-> New("none", 0)]
  /\ begun = 0 /\ zds = <<>> /\ late = {}
  /\ req = [q \in Requests |-> Idle] /\ calc = [w \in Runs |-> Resting]
  /\ todo = {}

At(q, step) == req[q].step = step
Free(p) == p # 0 /\ prop[p].status = "open"  \* what a claim, a refresh, an expiry take
Claimed(p) == p # 0 /\ prop[p].status = "claimed"
Open(p) == Free(p) \/ Claimed(p)
Of(q) == req[q].prop
Working(q, p) == req[q].step \notin {"idle", "claim"} /\ Of(q) = p
Written == {p \in Proposals : prop[p].status # "none"}

Finish(q) == req' = [req EXCEPT ![q] = Idle]

-----------------------------------------------------------------------------
(* Accepting a proposal: actionAcceptZdAutoProposal.                        *)

\* It reads the proposal and builds the lines of the ZD ...
Read(q, p) ==
  /\ At(q, "idle") /\ Open(p)
  /\ req' = [req EXCEPT ![q] = Task("claim", p, prop[p].counted)]
  /\ UNCHANGED <<prop, begun, zds, late, calc, todo>>

\* ... and then claims the proposal, or is told that it is busy.
ClaimBusyToo(q) ==
  /\ At(q, "claim") /\ Open(Of(q))
  /\ prop' = [prop EXCEPT ![Of(q)].status = "claimed"]
  /\ req' = [req EXCEPT ![q].step = "create"]
  /\ UNCHANGED <<begun, zds, late, calc, todo>>

Claim(q) ==
  /\ At(q, "claim") /\ Free(Of(q))
  /\ prop' = [prop EXCEPT ![Of(q)].status = "claimed"]
  /\ req' = [req EXCEPT ![q].step = "create"]
  /\ UNCHANGED <<begun, zds, late, calc, todo>>

Busy(q) ==
  /\ At(q, "claim") /\ ~Free(Of(q))
  /\ Finish(q)
  /\ UNCHANGED <<prop, begun, zds, late, calc, todo>>

\* Subiekt writes the ZD; its answer may be lost.
CreateZd(q) ==
  /\ At(q, "create") /\ Len(zds) < MaxZds
  /\ zds' = Append(zds, Of(q))
  /\ \/ req' = [req EXCEPT ![q] = Task("record", Of(q), 0)]
     \/ Finish(q)
  /\ UNCHANGED <<prop, begun, late, calc, todo>>

\* The caller gives up: nothing was written, or it will be.
UnknownIsRefused(q) ==
  /\ At(q, "create")
  /\ \/ late' = late
     \/ late' = late \cup {Of(q)}
  /\ req' = [req EXCEPT ![q].step = "refused"]
  /\ UNCHANGED <<prop, begun, zds, calc, todo>>

CreateUnknown(q) ==
  /\ At(q, "create")
  /\ \/ late' = late
     \/ late' = late \cup {Of(q)}
  /\ Finish(q)
  /\ UNCHANGED <<prop, begun, zds, calc, todo>>

LateZdLands ==
  /\ Len(zds) < MaxZds
  /\ \E p \in late : late' = late \ {p} /\ zds' = Append(zds, p)
  /\ UNCHANGED <<prop, begun, req, calc, todo>>

\* Subiekt refuses the document: nothing was written for certain.
CreateRefused(q) ==
  /\ At(q, "create")
  /\ req' = [req EXCEPT ![q].step = "refused"]
  /\ UNCHANGED <<prop, begun, zds, late, calc, todo>>

Release(q) ==
  LET p == Of(q)
  IN /\ At(q, "refused")
     /\ prop' = IF Open(p) THEN [prop EXCEPT ![p] = New("open", @.counted)] ELSE prop
     /\ Finish(q)
     /\ UNCHANGED <<begun, zds, late, calc, todo>>

\* acceptPendingAutoProposal: the proposal is accepted if it is still open.
AcceptAny(p) == prop' = [prop EXCEPT ![p] = Decided("accepted")]
Accept(p) == prop' = IF Open(p) THEN [prop EXCEPT ![p] = Decided("accepted")] ELSE prop

Record(q) ==
  /\ At(q, "record")
  /\ Accept(Of(q))
  /\ Finish(q)
  /\ UNCHANGED <<begun, zds, late, calc, todo>>

\* The process dies.
Die(q) ==
  /\ ~At(q, "idle")
  /\ Finish(q)
  /\ UNCHANGED <<prop, begun, zds, late, calc, todo>>

\* A ZD made by hand in the Kreator accepts the proposal that was the latest one when
\* it was read, or the one that a calculation under way yields, claimed or not.
AcceptByHand(p) ==
  /\ Open(p)
  /\ Accept(p)
  /\ UNCHANGED <<begun, zds, late, req, calc, todo>>

Reject(p) ==
  /\ Open(p)
  /\ prop' = [prop EXCEPT ![p] = Decided("rejected")]
  /\ UNCHANGED <<begun, zds, late, req, calc, todo>>

-----------------------------------------------------------------------------
(* A calculation: the nightly run, alone by its advisory lock, and the one *)
(* that people ask for ("Przygotuj teraz", or a refresh of one proposal),  *)
(* one at a time in each process (proposalNowInFlight is a Map of one).    *)

Doing(w, step) == calc[w].step = step

Rest(w) == calc' = [calc EXCEPT ![w] = Resting]

StartNow(i) ==
  /\ Doing(i, "idle")
  /\ calc' = [calc EXCEPT ![i] = Task("write", 0, Len(zds))]
  /\ UNCHANGED <<prop, begun, zds, late, req, todo>>

\* reconcileUnconfirmedZdAutoProposals: claims older than any request ...
StartNight ==
  /\ Doing("night", "idle")
  /\ todo' = {p \in Proposals : Claimed(p) /\ \A q \in Requests : ~Working(q, p)}
  /\ calc' = [calc EXCEPT !["night"] = Task("reconcile", 0, 0)]
  /\ UNCHANGED <<prop, begun, zds, late, req>>

\* ... a ZD of that day with its goods, linked to no proposal, is taken for its ZD;
\* without one it expires after the day that follows the attempt (and the supplier's
\* automatic ordering may be lowered a level, which is left out).
SettleByFinding(p) ==
  /\ Doing("night", "reconcile") /\ p \in todo
  /\ \/ Accept(p)
     \/ prop' = prop
  /\ todo' = todo \ {p}
  /\ UNCHANGED <<begun, zds, late, req, calc>>

Settle(p) ==
  /\ Doing("night", "reconcile") /\ p \in todo
  /\ \/ Accept(p)
     \/ prop' = IF Claimed(p) /\ prop[p].age > GiveUpDays
                THEN [prop EXCEPT ![p] = Decided("expired")] ELSE prop
  /\ todo' = todo \ {p}
  /\ UNCHANGED <<begun, zds, late, req, calc>>

Calculate ==
  /\ Doing("night", "reconcile") /\ todo = {}
  /\ calc' = [calc EXCEPT !["night"] = Task("write", 0, Len(zds))]
  /\ UNCHANGED <<prop, begun, zds, late, req, todo>>

\* maybeCreateAutoProposal: disabled, not due, skipped or failed; at night also if
\* there is nothing to order.  Or the process dies.
NoProposal(w) ==
  /\ Doing(w, "write")
  /\ Rest(w)
  /\ UNCHANGED <<prop, begun, zds, late, req, todo>>

\* Nothing to order: the action expires what is open, after the calculation has ended.
NothingToOrder(i) ==
  /\ Doing(i, "write")
  /\ calc' = [calc EXCEPT ![i] = Task("outdated", 0, 0)]
  /\ UNCHANGED <<prop, begun, zds, late, req, todo>>

ExpiredAll == [p \in Proposals |-> IF Open(p) THEN Decided("expired") ELSE prop[p]]
Expired == [p \in Proposals |-> IF Free(p) THEN Decided("expired") ELSE prop[p]]

ExpirePending(i) ==
  /\ Doing(i, "outdated")
  /\ prop' = Expired
  /\ Rest(i)
  /\ UNCHANGED <<begun, zds, late, req, todo>>

\* The proposal that the calculation was asked for (named here, not where it began)
\* gets new lines in place, ...
Refresh(i, p) ==
  /\ Doing(i, "write") /\ Free(p)
  /\ prop' = [prop EXCEPT ![p].counted = calc[i].counted]
  /\ Rest(i)
  /\ UNCHANGED <<begun, zds, late, req, todo>>

\* ... or a new one replaces it: a transaction that does not see the row of another
\* that is not committed yet.
Begin(w) ==
  /\ Doing(w, "write") /\ begun < MaxProposals
  /\ prop' = Expired
  /\ begun' = begun + 1
  /\ calc' = [calc EXCEPT ![w] = Task("insert", begun + 1, @.counted)]
  /\ UNCHANGED <<zds, late, req, todo>>

Commit(w) ==
  LET p == calc[w].prop
  IN /\ Doing(w, "insert")
     /\ prop' = [prop EXCEPT ![p] = New("open", calc[w].counted)]
     /\ Rest(w)
     /\ UNCHANGED <<begun, zds, late, req, todo>>

\* The process of a calculation dies while it reconciles or before it expires anything;
\* later it might as well have yielded nothing (NoProposal), or is inside a transaction.
NightDies ==
  /\ Doing("night", "reconcile") /\ todo # {}
  /\ Rest("night") /\ todo' = {}
  /\ UNCHANGED <<prop, begun, zds, late, req>>

NowDies(i) ==
  /\ Doing(i, "outdated")
  /\ Rest(i)
  /\ UNCHANGED <<prop, begun, zds, late, req, todo>>

\* Midnight; a nightly run keeps the date it began with.
NextDay ==
  /\ Doing("night", "idle")
  /\ prop' = [p \in Proposals |->
                IF Claimed(p) /\ prop[p].age <= GiveUpDays
                THEN [prop[p] EXCEPT !.age = @ + 1] ELSE prop[p]]
  /\ UNCHANGED <<begun, zds, late, req, calc, todo>>

-----------------------------------------------------------------------------
Create(q) == CreateZd(q) \/ CreateUnknown(q) \/ CreateRefused(q)
Step(q) == Claim(q) \/ Busy(q) \/ Create(q) \/ Release(q) \/ Record(q)

Write(w) == NoProposal(w) \/ Begin(w) \/ Commit(w)
Night == (\E p \in Proposals : Settle(p)) \/ Calculate \/ Write("night")
Now(i) == Write(i) \/ NothingToOrder(i) \/ ExpirePending(i) \/ \E p \in Proposals : Refresh(i, p)

Next ==
  \/ \E q \in Requests : Step(q) \/ Die(q) \/ \E p \in Proposals : Read(q, p)
  \/ LateZdLands
  \/ StartNight \/ Night \/ NightDies
  \/ \E i \in Instances : StartNow(i) \/ Now(i) \/ NowDies(i)
  \/ NextDay \/ \E p \in Proposals : Reject(p) \/ AcceptByHand(p)

Spec == Init /\ [][Next]_vars

\* Requests have timeouts, the nightly run is started every day and goes on, and days
\* pass.
FairSpec ==
  /\ Spec
  /\ \A q \in Requests : WF_vars(Step(q))
  /\ WF_vars(StartNight) /\ WF_vars(Night) /\ SF_vars(NextDay)

-----------------------------------------------------------------------------
From(p) == {d \in 1 .. Len(zds) : zds[d] = p}

\* A proposal is turned into one ZD at most, whoever accepts it, however often, and
\* whatever becomes of the answers of Subiekt (claimZdAutoProposalCreate,
\* releaseZdAutoProposalCreate).
OneZdPerProposal == \A p \in Proposals : \A d, e \in From(p) : d = e

\* A proposal that can be accepted, or replaced as one that nobody has ordered, has
\* no ZD in Subiekt and none that may still come.
OpenIsNotOrdered == \A p \in Proposals : Free(p) => From(p) = {} /\ p \notin late

\* A decision is final: neither a recalculation, a nightly run nor a request that comes
\* late changes it.
DecidedIsFinal ==
  [][\A p \in Written : ~Open(p) => prop'[p] = prop[p]]_vars

\* While a request creates the ZD of a proposal, nothing gives the proposal other
\* lines or lets it expire.
AttemptIsLeftAlone ==
  [][\A q \in Requests, p \in Proposals : Working(q, p) =>
       prop'[p].status # "expired" /\ (Open(p)' => prop'[p].counted = prop[p].counted)]_vars

\* A proposal with an attempt does not stay claimed for ever, provided that nightly
\* runs stop dying.
AttemptIsSettled ==
  <>[][~NightDies]_vars =>
    \A p \in Proposals : Claimed(p) ~> ~Claimed(p)

\* Who finds a proposal busy is told to recalculate it, as that counts the ZD if one
\* was made (zd-estimate.ts:1928): a ZD is created from lines that count every ZD there
\* is of an earlier proposal.
EarlierZdCounted ==
  [][\A q \in Requests : CreateZd(q) => req[q].counted = Len(zds)]_vars
=============================================================================
