--------------------------- MODULE ZdProposalsProofs ---------------------------
(***************************************************************************)
(* Theorems about ZdProposals, for any number of requests, proposals and   *)
(* ZDs: a proposal becomes one ZD at most, what is open has none, and a    *)
(* decision is final.                                                      *)
(***************************************************************************)
EXTENDS ZdProposals, TLAPS

Making(q) == req[q].step \in {"create", "refused"}

\* The requests that create a ZD hold the only claim of their proposal, and there is
\* no ZD of it yet, as there is for those that record it; ZDs are only of proposals that
\* were claimed and not released since.
ClaimInv ==
  /\ \A q, r \in Requests : Making(q) /\ Making(r) /\ req[q].prop = req[r].prop => q = r
  /\ \A q \in Requests : Making(q) => From(req[q].prop) = {} /\ req[q].prop \notin late
  /\ \A p \in Proposals :
       prop[p].status \in {"none", "open"} => From(p) = {} /\ p \notin late
  /\ \A q \in Requests : req[q].step = "record" => From(req[q].prop) # {}
  /\ \A p \in late : From(p) = {}
  /\ OneZdPerProposal

\* A row that is being inserted was never written; a proposal that a nightly run is
\* about to settle is claimed or decided, and no request works on it.
RunInv ==
  /\ \A w \in Runs : calc[w].step = "insert" => calc[w].prop \in 1 .. begun
  /\ \A w \in Runs : calc[w].step = "insert" => prop[calc[w].prop].status = "none"
  /\ \A v, w \in Runs : calc[v].step = "insert" /\ calc[w].step = "insert"
                          /\ calc[v].prop = calc[w].prop => v = w
  /\ \A p \in Proposals : p > begun => prop[p].status = "none"
  /\ \A p \in todo : prop[p].status \notin {"none", "open"}
  /\ \A p \in todo, q \in Requests : ~Working(q, p)

IInv == TypeOK /\ ClaimInv /\ RunInv

USE ZdProposalsAssumption

-----------------------------------------------------------------------------
(* Types.                                                                  *)

LEMMA DecidedType ==
  /\ \A s \in {"none", "open", "claimed", "accepted", "rejected", "expired"},
        n \in 0 .. MaxZds : New(s, n) \in Proposal
  /\ \A s \in {"accepted", "rejected", "expired"} :
       Decided(s) \in Proposal /\ Decided(s).status = s
BY DEF New, Decided, Proposal, GiveUpDays

\* Accepting writes to a proposal that is open and decides it.
LEMMA AcceptFacts ==
  ASSUME TypeOK, NEW p \in Proposals, Accept(p)
  PROVE  /\ prop' \in [Proposals -> Proposal]
         /\ \A r \in Proposals : r # p => prop'[r] = prop[r]
         /\ prop'[p] = prop[p] \/ (Open(p) /\ prop'[p].status = "accepted")
<1>1. CASE Open(p)
  BY <1>1, DecidedType DEF Accept, TypeOK
<1>2. CASE ~Open(p)
  BY <1>2 DEF Accept, TypeOK
<1> QED
  BY <1>1, <1>2

\* What expires is open and not claimed.
LEMMA ExpiredFacts ==
  ASSUME TypeOK, prop' = Expired
  PROVE  /\ prop' \in [Proposals -> Proposal]
         /\ \A p \in Proposals : prop'[p] = prop[p]
                                   \/ (prop[p].status = "open" /\ prop'[p].status = "expired")
<1>1. \A p \in Proposals : Expired[p] = IF Free(p) THEN Decided("expired") ELSE prop[p]
  BY DEF Expired
<1>2. Expired \in [Proposals -> Proposal]
  BY DecidedType DEF Expired, TypeOK
<1> QED
  BY <1>1, <1>2, DecidedType DEF Free

THEOREM TypeInit == Init => TypeOK
BY DEF Init, TypeOK, New, Proposal, Idle, Resting, Task, Request, Run, Proposals, GiveUpDays

-----------------------------------------------------------------------------
(* What most steps have in common.                                         *)

\* The values of the variables alone.
Values ==
  /\ prop \in [Proposals -> Proposal]
  /\ begun \in 0 .. MaxProposals
  /\ zds \in Seq(Proposals) /\ Len(zds) <= MaxZds
  /\ late \subseteq Proposals
  /\ req \in [Requests -> Request] /\ calc \in [Runs -> Run]
  /\ todo \subseteq Proposals

\* No request takes up a proposal, none that is worked on expires, no proposal opens,
\* and nothing is inserted or put up for settling.
Calm ==
  /\ \A q \in Requests : req'[q].step \notin {"idle", "claim"} =>
       /\ req[q].step \notin {"idle", "claim"} /\ req'[q].prop = req[q].prop
       /\ Making(q)' => Making(q)
       /\ prop'[req[q].prop].status \in {"claimed", "accepted", "rejected"}
  /\ \A q \in Requests : req'[q].step # "idle" => req'[q].prop # 0
  /\ \A p \in Proposals : prop'[p].status \in {"none", "open"} =>
       prop[p].status \in {"none", "open"}
  /\ \A p \in Proposals : prop[p].status = "none" => prop'[p].status = "none"
  /\ begun' = begun
  /\ \A w \in Runs : calc'[w].step = "insert" => calc'[w] = calc[w]
  /\ todo' \subseteq todo

LEMMA CalmTypes == ASSUME Values', Calm PROVE TypeOK'
BY DEF Values, TypeOK, Calm

\* No request begins to record a ZD.
NoneRecords ==
  \A q \in Requests : req'[q].step = "record" => req[q].step = "record"

LEMMA CalmClaims ==
  ASSUME IInv, Calm, NoneRecords, UNCHANGED <<zds, late>> PROVE ClaimInv'
<1>1. \A q \in Requests : Making(q)' => Making(q) /\ req'[q].prop = req[q].prop
  BY DEF Calm, Making
<1>2. \A p : From(p)' = From(p)
  BY DEF From
<1>3. \A q \in Requests : req'[q].step = "record" =>
        req[q].step = "record" /\ req'[q].prop = req[q].prop
  BY DEF Calm, NoneRecords
<1> QED
  BY <1>1, <1>2, <1>3 DEF IInv, ClaimInv, Calm, OneZdPerProposal

LEMMA CalmRuns == ASSUME IInv, Calm PROVE RunInv'
<1>1. \A q \in Requests, p \in Proposals : Working(q, p)' => Working(q, p)
  BY DEF Calm, Working, Of
<1>2. todo' \subseteq Proposals
  BY DEF Calm, IInv, TypeOK
<1>3. \A w \in Runs : calc'[w].step = "insert" =>
        calc'[w].prop \in 1 .. begun' /\ prop'[calc'[w].prop].status = "none"
  <2>1. SUFFICES ASSUME NEW w \in Runs, calc'[w].step = "insert"
                 PROVE  calc'[w].prop \in 1 .. begun' /\ prop'[calc'[w].prop].status = "none"
    OBVIOUS
  <2>2. calc'[w] = calc[w] /\ begun' = begun
    BY <2>1 DEF Calm
  <2>3. calc[w].prop \in Proposals /\ prop[calc[w].prop].status = "none"
    BY <2>1, <2>2 DEF IInv, RunInv, TypeOK, Proposals
  <2> QED
    BY <2>1, <2>2, <2>3 DEF Calm, IInv, RunInv
<1>4. \A v, w \in Runs : calc'[v].step = "insert" /\ calc'[w].step = "insert"
                           /\ calc'[v].prop = calc'[w].prop => v = w
  BY DEF Calm, IInv, RunInv
<1>5. \A p \in Proposals : p > begun' => prop'[p].status = "none"
  BY DEF Calm, IInv, RunInv
<1>6. \A p \in todo' : prop'[p].status \notin {"none", "open"}
  BY <1>2 DEF Calm, IInv, RunInv
<1>7. \A p \in todo', q \in Requests : ~Working(q, p)'
  BY <1>1, <1>2 DEF Calm, IInv, RunInv
<1> QED
  BY <1>3, <1>4, <1>5, <1>6, <1>7 DEF RunInv

LEMMA CalmStep ==
  ASSUME IInv, Values', Calm, NoneRecords, UNCHANGED <<zds, late>> PROVE IInv'
BY CalmTypes, CalmClaims, CalmRuns DEF IInv

\* In particular when the proposals stay what they are ...
LEMMA PropStays ==
  ASSUME IInv, UNCHANGED <<prop, begun, zds, late, calc, todo>>, req' \in [Requests -> Request],
         \A q \in Requests : req'[q].step # "idle" =>
           /\ req'[q].prop # 0
           /\ req'[q].step # "claim" =>
                req[q].step \notin {"idle", "claim"} /\ req'[q].prop = req[q].prop
                  /\ (Making(q)' => Making(q))
                  /\ (req'[q].step = "record" => req[q].step = "record")
  PROVE  IInv'
<1>1. Values'
  BY DEF Values, IInv, TypeOK
<1>2. Calm
  BY DEF Calm, IInv, TypeOK, Making
<1>3. NoneRecords
  BY DEF NoneRecords
<1> QED
  BY <1>1, <1>2, <1>3, CalmStep

\* ... and when the requests do.
LEMMA ReqStays ==
  ASSUME IInv, UNCHANGED <<begun, zds, late, req>>, prop' \in [Proposals -> Proposal],
         calc' \in [Runs -> Run], todo' \subseteq todo,
         \A w \in Runs : calc'[w].step = "insert" => calc'[w] = calc[w],
         \A p \in Proposals :
           \/ prop'[p].status = prop[p].status
           \/ /\ prop[p].status \in {"open", "claimed"}
              /\ prop'[p].status \in {"accepted", "rejected"}
           \/ /\ \A q \in Requests : ~Working(q, p)
              /\ prop[p].status # "none" /\ prop'[p].status = "expired"
  PROVE  IInv'
<1>1. Values'
  BY DEF Values, IInv, TypeOK
<1>2. \A q \in Requests : req[q].step \notin {"idle", "claim"} =>
        prop'[req[q].prop].status \in {"claimed", "accepted", "rejected"}
  <2>1. SUFFICES ASSUME NEW q \in Requests, req[q].step \notin {"idle", "claim"}
                 PROVE  prop'[req[q].prop].status \in {"claimed", "accepted", "rejected"}
    OBVIOUS
  <2>2. /\ req[q].prop \in Proposals /\ Working(q, req[q].prop)
        /\ prop[req[q].prop].status \in {"claimed", "accepted", "rejected"}
    BY <2>1 DEF IInv, TypeOK, Working, Of, Request, Proposals
  <2> QED
    BY <2>2
<1>3. Calm
  BY <1>2 DEF Calm, IInv, TypeOK, Making
<1> QED
  BY <1>1, <1>3, CalmStep DEF NoneRecords

-----------------------------------------------------------------------------
(* The steps of a request.                                                 *)

LEMMA FromAppended ==
  ASSUME TypeOK, NEW p \in Proposals, zds' = Append(zds, p)
  PROVE  /\ \A r \in Proposals : r # p => From(r)' = From(r)
         /\ From(p)' # {}
         /\ From(p) = {} => \A d, e \in From(p)' : d = e
<1>1. Len(zds) + 1 \in From(p)'
  BY DEF From, TypeOK
<1> QED
  BY <1>1 DEF From, TypeOK

LEMMA ReadStep == ASSUME IInv, NEW q \in Requests, NEW p \in Proposals, Read(q, p) PROVE IInv'
<1>1. /\ req' = [req EXCEPT ![q] = [step |-> "claim", prop |-> p, counted |-> prop[p].counted]]
      /\ prop[p].counted \in 0 .. MaxZds /\ p \in 1 .. MaxProposals
  BY DEF Read, Task, IInv, TypeOK, Proposal, Proposals
<1>2. req' \in [Requests -> Request]
  BY <1>1 DEF IInv, TypeOK, Request
<1>3. \A r \in Requests : r # q => req'[r] = req[r]
  BY <1>1 DEF IInv, TypeOK
<1>4. req'[q].step = "claim" /\ req'[q].prop # 0
  BY <1>1 DEF IInv, TypeOK
<1>5. UNCHANGED <<prop, begun, zds, late, calc, todo>>
  BY DEF Read
<1>6. \A r \in Requests : req'[r].step # "idle" =>
        /\ req'[r].prop # 0
        /\ req'[r].step # "claim" =>
             req[r].step \notin {"idle", "claim"} /\ req'[r].prop = req[r].prop
               /\ (Making(r)' => Making(r))
               /\ (req'[r].step = "record" => req[r].step = "record")
  BY <1>3, <1>4 DEF IInv, TypeOK, Making
<1> QED
  BY <1>2, <1>5, <1>6, PropStays

LEMMA FinishFacts ==
  ASSUME IInv, NEW q \in Requests, Finish(q)
  PROVE  /\ req' \in [Requests -> Request]
         /\ \A r \in Requests : r # q => req'[r] = req[r]
         /\ req'[q].step = "idle"
BY DEF Finish, Idle, Task, IInv, TypeOK, Request

LEMMA IdleStep ==
  ASSUME IInv, NEW q \in Requests, Finish(q), UNCHANGED <<prop, begun, zds, late, calc, todo>>
  PROVE  IInv'
<1>1. \A r \in Requests : req'[r].step # "idle" => req'[r] = req[r]
  BY FinishFacts
<1> QED
  BY <1>1, FinishFacts, PropStays DEF IInv, TypeOK, Making

LEMMA ClaimStep == ASSUME IInv, NEW q \in Requests, Claim(q) PROVE IInv'
<1> DEFINE p == req[q].prop
<1>1. p \in Proposals /\ prop[p].status = "open" /\ req[q].step = "claim"
  BY DEF Claim, At, Free, Of, IInv, TypeOK, Request, Proposals
<1>2. /\ prop' \in [Proposals -> Proposal] /\ prop'[p].status = "claimed"
      /\ \A r \in Proposals : r # p => prop'[r] = prop[r]
  BY <1>1 DEF Claim, Of, IInv, TypeOK, Proposal
<1>3. /\ req' \in [Requests -> Request]
      /\ req'[q].step = "create" /\ req'[q].prop = p
      /\ \A r \in Requests : r # q => req'[r] = req[r]
  BY <1>1 DEF Claim, IInv, TypeOK, Request
<1>4. UNCHANGED <<begun, zds, late, calc, todo>>
  BY DEF Claim
<1>5. \A r \in Requests : ~Working(r, p)
  BY <1>1 DEF Working, Of, IInv, TypeOK
<1>6. p \notin todo
  BY <1>1 DEF IInv, RunInv
<1>7. TypeOK'
  <2>1. \A r \in Requests : req'[r].step # "idle" => req'[r].prop # 0
    BY <1>1, <1>3 DEF IInv, TypeOK, Proposals
  <2>2. \A r \in Requests : req'[r].step \notin {"idle", "claim"} =>
          prop'[req'[r].prop].status \in {"claimed", "accepted", "rejected"}
    <3>1. SUFFICES ASSUME NEW r \in Requests, req'[r].step \notin {"idle", "claim"}
                   PROVE  prop'[req'[r].prop].status \in {"claimed", "accepted", "rejected"}
      OBVIOUS
    <3>2. CASE r = q
      BY <3>2, <1>2, <1>3
    <3>3. CASE r # q
      <4>1. /\ req'[r] = req[r] /\ req[r].prop \in Proposals /\ req[r].prop # p
            /\ prop[req[r].prop].status \in {"claimed", "accepted", "rejected"}
        BY <3>1, <3>3, <1>3, <1>5 DEF IInv, TypeOK, Working, Of, Request, Proposals
      <4> QED
        BY <4>1, <1>2
    <3> QED
      BY <3>2, <3>3
  <2> QED
    BY <1>2, <1>3, <1>4, <2>1, <2>2 DEF IInv, TypeOK
<1>8. ClaimInv'
  <2>1. \A r \in Requests : Making(r)' => r = q \/ (Making(r) /\ req'[r].prop = req[r].prop)
    BY <1>3 DEF Making
  <2>2. \A r \in Requests : Making(r) => req[r].prop # p
    BY <1>5 DEF Making, Working, Of
  <2>3. From(p) = {} /\ p \notin late
    BY <1>1 DEF IInv, ClaimInv
  <2>4. \A r : From(r)' = From(r)
    BY <1>4 DEF From
  <2>5. \A r \in Proposals : prop'[r].status \in {"none", "open"} => prop[r].status \in {"none", "open"}
    BY <1>2
  <2>6. \A r, t \in Requests :
          Making(r)' /\ Making(t)' /\ req'[r].prop = req'[t].prop => r = t
    BY <2>1, <2>2, <1>3 DEF IInv, ClaimInv
  <2>7. \A r \in Requests : Making(r)' => From(req[r].prop)' = {} /\ req'[r].prop \notin late'
    BY <2>1, <2>3, <2>4, <1>3, <1>4 DEF IInv, ClaimInv
  <2>8. \A r \in Requests : req'[r].step = "record" => req'[r] = req[r]
    BY <1>3
  <2> QED
    BY <2>4, <2>5, <2>6, <2>7, <2>8, <1>4 DEF IInv, ClaimInv, OneZdPerProposal
<1>9. RunInv'
  <2>1. \A r \in Proposals : prop'[r].status = "none" <=> prop[r].status = "none"
    BY <1>1, <1>2
  <2>2. \A r \in Proposals : r \in todo => prop'[r] = prop[r]
    BY <1>2, <1>6
  <2>3. \A s \in Proposals, r \in Requests : s \in todo => ~Working(r, s)'
    BY <1>3, <1>6 DEF Working, Of, IInv, RunInv
  <2>4. \A w \in Runs : calc[w].step = "insert" => calc[w].prop \in Proposals
    BY DEF IInv, RunInv, TypeOK, Proposals
  <2> QED
    BY <2>1, <2>2, <2>3, <2>4, <1>4 DEF IInv, RunInv, TypeOK
<1> QED
  BY <1>7, <1>8, <1>9 DEF IInv

LEMMA CreateZdStep == ASSUME IInv, NEW q \in Requests, CreateZd(q) PROVE IInv'
<1>0. PICK p \in Proposals : p = req[q].prop
  BY DEF CreateZd, At, IInv, TypeOK, Request, Proposals
<1>1. p = req[q].prop /\ req[q].step = "create"
  BY <1>0 DEF CreateZd, At
<1>2. /\ req' \in [Requests -> Request]
      /\ req'[q].step \in {"idle", "record"}
      /\ req'[q].step # "idle" => req'[q].prop = p
      /\ \A r \in Requests : r # q => req'[r] = req[r]
  <2>1. CASE Finish(q)
    BY <2>1, FinishFacts
  <2>2. CASE req' = [req EXCEPT ![q] = Task("record", Of(q), 0)]
    BY <1>1, <2>2 DEF IInv, TypeOK, Request, Task, Of, Proposals
  <2> QED
    BY <2>1, <2>2 DEF CreateZd
<1>3. zds' = Append(zds, p) /\ Len(zds) < MaxZds /\ UNCHANGED <<prop, begun, late, calc, todo>>
  BY <1>1 DEF CreateZd, Of
<1>4. Values'
  BY <1>1, <1>2, <1>3 DEF Values, IInv, TypeOK
<1>5. Calm
  <2>1. \A r \in Requests : req'[r].step # "idle" =>
          /\ req'[r].prop = req[r].prop /\ req[r].step # "idle"
          /\ req'[r].step # "claim" => req[r].step # "claim"
          /\ Making(r)' => Making(r)
    BY <1>1, <1>2 DEF Making
  <2> QED
    BY <1>3, <2>1 DEF Calm, IInv, TypeOK
<1>6. ClaimInv'
  <2>1. From(p) = {} /\ p \notin late /\ prop[p].status \notin {"none", "open"}
    BY <1>1 DEF Making, IInv, ClaimInv, TypeOK
  <2>2. /\ \A r \in Proposals : r # p => From(r)' = From(r)
        /\ From(p)' # {}
        /\ \A d, e \in From(p)' : d = e
    BY <1>1, <1>3, <2>1, FromAppended DEF IInv
  <2>3. \A r \in Requests : Making(r)' =>
          /\ Making(r) /\ req'[r].prop = req[r].prop
          /\ req[r].prop \in Proposals /\ req[r].prop # p
    <3>1. SUFFICES ASSUME NEW r \in Requests, Making(r)'
                   PROVE  /\ Making(r) /\ req'[r].prop = req[r].prop
                          /\ req[r].prop \in Proposals /\ req[r].prop # p
      OBVIOUS
    <3>2. r # q /\ req'[r] = req[r] /\ Making(r) /\ Making(q)
      BY <3>1, <1>1, <1>2 DEF Making
    <3>3. req[r].prop \in Proposals
      BY <3>2 DEF Making, IInv, TypeOK, Request, Proposals
    <3>4. req[r].prop # p
      BY <1>1, <3>2 DEF IInv, ClaimInv
    <3> QED
      BY <3>2, <3>3, <3>4
  <2>4. \A r \in Proposals : prop'[r].status \in {"none", "open"} => From(r)' = {} /\ r \notin late'
    BY <1>3, <2>1, <2>2 DEF IInv, ClaimInv
  <2>5. \A r \in late' : From(r)' = {}
    BY <1>3, <2>1, <2>2 DEF IInv, ClaimInv, TypeOK
  <2>6. OneZdPerProposal'
    BY <2>2 DEF IInv, ClaimInv, OneZdPerProposal, Proposals
  <2>7. \A r \in Requests : Making(r)' => From(req[r].prop)' = {} /\ req'[r].prop \notin late'
    BY <1>3, <2>2, <2>3 DEF IInv, ClaimInv
  <2>8. \A r, t \in Requests :
          Making(r)' /\ Making(t)' /\ req'[r].prop = req'[t].prop => r = t
    BY <2>3 DEF IInv, ClaimInv
  <2>9. \A r \in Requests : req'[r].step = "record" => From(req[r].prop)' # {}
    <3>1. SUFFICES ASSUME NEW r \in Requests, req'[r].step = "record"
                   PROVE  From(req[r].prop)' # {}
      OBVIOUS
    <3>2. PICK t \in Proposals : t = req'[r].prop
      BY <3>1, <1>4, <1>5 DEF Values, Calm, Request, Proposals
    <3>3. CASE t = p
      BY <3>2, <3>3, <2>2
    <3>4. CASE t # p
      <4>1. r # q /\ req'[r] = req[r]
        BY <3>1, <3>2, <3>4, <1>2
      <4>2. From(t) # {}
        BY <3>1, <3>2, <4>1 DEF IInv, ClaimInv
      <4> QED
        BY <3>2, <3>4, <4>2, <2>2
    <3> QED
      BY <3>3, <3>4
  <2> QED
    BY <2>4, <2>5, <2>6, <2>7, <2>8, <2>9 DEF ClaimInv
<1> QED
  BY <1>4, <1>5, <1>6, CalmTypes, CalmRuns DEF IInv

LEMMA CreateUnknownStep ==
  ASSUME IInv, NEW q \in Requests, CreateUnknown(q) PROVE IInv'
<1>0. PICK p \in Proposals : p = req[q].prop
  BY DEF CreateUnknown, At, IInv, TypeOK, Request, Proposals
<1>1. /\ p = req[q].prop /\ Making(q) /\ From(p) = {}
      /\ prop[p].status \notin {"none", "open"}
  BY <1>0 DEF CreateUnknown, At, Making, IInv, ClaimInv, TypeOK
<1>2. /\ late' = late \/ late' = late \cup {p}
      /\ Finish(q) /\ UNCHANGED <<prop, begun, zds, calc, todo>>
  BY <1>1 DEF CreateUnknown, Of
<1>3. \A r \in Requests : req'[r].step # "idle" => r # q /\ req'[r] = req[r]
  BY <1>2, FinishFacts
<1>4. Values'
  BY <1>2, FinishFacts DEF Values, IInv, TypeOK
<1>5. Calm
  BY <1>2, <1>3 DEF Calm, Making, IInv, TypeOK
<1>6. ClaimInv'
  <2>1. \A r : From(r)' = From(r)
    BY <1>2 DEF From
  <2>2. \A r \in Requests : Making(r)' =>
          Making(r) /\ req'[r].prop = req[r].prop /\ req[r].prop # p
    BY <1>1, <1>3 DEF Making, IInv, ClaimInv
  <2>3. \A r \in Requests : req'[r].step = "record" => req'[r] = req[r]
    BY <1>3
  <2> QED
    BY <1>1, <1>2, <2>1, <2>2, <2>3 DEF IInv, ClaimInv, OneZdPerProposal
<1> QED
  BY <1>4, <1>5, <1>6, CalmTypes, CalmRuns DEF IInv

LEMMA LateZdLandsStep == ASSUME IInv, LateZdLands PROVE IInv'
<1>1. PICK p \in late : late' = late \ {p} /\ zds' = Append(zds, p)
  BY DEF LateZdLands
<1>2. p \in Proposals /\ Len(zds) < MaxZds /\ UNCHANGED <<prop, begun, req, calc, todo>>
  BY DEF LateZdLands, IInv, TypeOK
<1>3. Values'
  BY <1>1, <1>2 DEF Values, IInv, TypeOK
<1>4. Calm
  BY <1>2 DEF Calm, Making, IInv, TypeOK
<1>5. ClaimInv'
  <2>1. /\ \A r \in Proposals : r # p => From(r)' = From(r)
        /\ From(p)' # {}
        /\ \A d, e \in From(p)' : d = e
    BY <1>1, <1>2, FromAppended DEF IInv, ClaimInv
  <2>2. \A r \in Requests : Making(r) =>
          req[r].prop \in Proposals /\ req[r].prop # p
    BY <1>1 DEF Making, IInv, ClaimInv, TypeOK, Request, Proposals
  <2>3. \A r \in Requests : Making(r)' => From(req[r].prop)' = {} /\ req'[r].prop \notin late'
    <3>1. SUFFICES ASSUME NEW r \in Requests, Making(r)'
                   PROVE  From(req[r].prop)' = {} /\ req'[r].prop \notin late'
      OBVIOUS
    <3>2. PICK t \in Proposals : t = req[r].prop /\ t # p /\ Making(r) /\ req'[r].prop = t
      BY <3>1, <2>2, <1>2 DEF Making
    <3>3. From(t)' = From(t)
      BY <2>1, <3>2
    <3>4. From(req[r].prop)' = From(t)'
      BY <3>2
    <3> QED
      BY <3>2, <3>3, <3>4, <1>1 DEF IInv, ClaimInv
  <2>4. \A r \in Proposals : prop'[r].status \in {"none", "open"} => From(r)' = {} /\ r \notin late'
    BY <1>1, <1>2, <2>1 DEF IInv, ClaimInv
  <2>5. \A r \in late' : From(r)' = {}
    BY <1>1, <2>1 DEF IInv, ClaimInv, TypeOK
  <2>6. OneZdPerProposal'
    BY <2>1 DEF IInv, ClaimInv, OneZdPerProposal, Proposals
  <2>7. \A r, t \in Requests :
          Making(r)' /\ Making(t)' /\ req'[r].prop = req'[t].prop => r = t
    BY <1>2 DEF IInv, ClaimInv, Making
  <2>8. \A r \in Requests : req'[r].step = "record" => From(req[r].prop)' # {}
    <3>1. SUFFICES ASSUME NEW r \in Requests, req[r].step = "record"
                   PROVE  From(req[r].prop)' # {}
      BY <1>2
    <3>2. PICK t \in Proposals : t = req[r].prop /\ req'[r].prop = t
      BY <3>1, <1>2 DEF IInv, TypeOK, Request, Proposals
    <3>3. From(t) # {}
      BY <3>1, <3>2 DEF IInv, ClaimInv
    <3>4. From(t)' # {}
      BY <3>3, <2>1
    <3> QED
      BY <3>2, <3>4
  <2> QED
    BY <2>3, <2>4, <2>5, <2>6, <2>7, <2>8 DEF ClaimInv
<1> QED
  BY <1>3, <1>4, <1>5, CalmTypes, CalmRuns DEF IInv

LEMMA CreateRefusedStep ==
  ASSUME IInv, NEW q \in Requests, CreateRefused(q) PROVE IInv'
<1>1. /\ req' \in [Requests -> Request]
      /\ \A r \in Requests : r # q => req'[r] = req[r]
      /\ req'[q].step = "refused" /\ req'[q].prop = req[q].prop
      /\ req[q].step = "create"
  BY DEF CreateRefused, At, IInv, TypeOK, Request
<1>2. UNCHANGED <<prop, begun, zds, late, calc, todo>>
  BY DEF CreateRefused
<1> QED
  BY <1>1, <1>2, PropStays DEF IInv, TypeOK, Making

\* Only the request that holds the claim releases it, and nothing was written for it.
LEMMA ReleaseStep == ASSUME IInv, NEW q \in Requests, Release(q) PROVE IInv'
<1>0. PICK p \in Proposals : p = req[q].prop
  BY DEF Release, At, IInv, TypeOK, Request, Proposals
<1>1. /\ p = req[q].prop /\ Making(q) /\ From(p) = {} /\ p \notin late
      /\ Working(q, p) /\ prop[p].status \in {"claimed", "accepted", "rejected"}
  BY <1>0 DEF Release, At, Making, Working, Of, IInv, ClaimInv, TypeOK
<1>2. p \notin todo
  BY <1>1 DEF IInv, RunInv
<1>3. /\ prop' \in [Proposals -> Proposal]
      /\ \A r \in Proposals : r # p => prop'[r] = prop[r]
      /\ prop'[p].status # "none"
  <2>1. CASE Open(p)
    BY <1>1, <2>1 DEF Release, Of, New, IInv, TypeOK, Proposal, GiveUpDays
  <2>2. CASE ~Open(p)
    BY <1>1, <2>2 DEF Release, Of, IInv, TypeOK
  <2> QED
    BY <2>1, <2>2
<1>4. Finish(q) /\ UNCHANGED <<begun, zds, late, calc, todo>>
  BY DEF Release
<1>5. \A r \in Requests : req'[r].step # "idle" => r # q /\ req'[r] = req[r]
  BY <1>4, FinishFacts
<1>6. TypeOK'
  <2>1. \A r \in Requests : req'[r].step \notin {"idle", "claim"} =>
          prop'[req'[r].prop].status \in {"claimed", "accepted", "rejected"}
    <3>1. SUFFICES ASSUME NEW r \in Requests, req'[r].step \notin {"idle", "claim"}
                   PROVE  prop'[req'[r].prop].status \in {"claimed", "accepted", "rejected"}
      OBVIOUS
    <3>2. r # q /\ req'[r] = req[r] /\ req[r].prop \in Proposals
      BY <3>1, <1>5 DEF IInv, TypeOK, Request, Proposals
    <3>3. req[r].prop # p
      BY <3>1, <3>2, <1>1 DEF Making, IInv, ClaimInv, TypeOK, Request
    <3> QED
      BY <3>1, <3>2, <3>3, <1>3 DEF IInv, TypeOK
  <2> QED
    BY <1>3, <1>4, <1>5, <2>1, FinishFacts DEF IInv, TypeOK
<1>7. ClaimInv'
  <2>1. \A r : From(r)' = From(r)
    BY <1>4 DEF From
  <2>2. \A r \in Requests : req'[r].step # "idle" => req'[r] = req[r]
    BY <1>5
  <2>3. \A r \in Proposals : prop'[r].status \in {"none", "open"} => From(r) = {} /\ r \notin late
    BY <1>1, <1>3 DEF IInv, ClaimInv
  <2> QED
    BY <1>4, <2>1, <2>2, <2>3 DEF IInv, ClaimInv, Making, OneZdPerProposal
<1>8. RunInv'
  <2>1. \A r \in Proposals : prop[r].status = "none" => prop'[r].status = "none"
    BY <1>1, <1>3
  <2>2. \A r \in todo : prop'[r] = prop[r]
    BY <1>2, <1>3 DEF IInv, TypeOK
  <2>3. \A s \in todo, r \in Requests : ~Working(r, s)'
    BY <1>5 DEF Working, Of, IInv, RunInv
  <2>4. \A w \in Runs : calc[w].step = "insert" => calc[w].prop \in Proposals
    BY DEF IInv, RunInv, TypeOK, Proposals
  <2> QED
    BY <2>1, <2>2, <2>3, <2>4, <1>4 DEF IInv, RunInv, TypeOK
<1> QED
  BY <1>6, <1>7, <1>8 DEF IInv

LEMMA RecordStep == ASSUME IInv, NEW q \in Requests, Record(q) PROVE IInv'
<1>1. PICK p \in Proposals : p = req[q].prop
  BY DEF Record, At, IInv, TypeOK, Request, Proposals
<1>2. /\ prop' \in [Proposals -> Proposal]
      /\ \A r \in Proposals : r # p => prop'[r] = prop[r]
      /\ prop'[p] = prop[p] \/ (Open(p) /\ prop'[p].status = "accepted")
  BY <1>1, AcceptFacts DEF Record, Of, IInv
<1>3. Finish(q) /\ UNCHANGED <<begun, zds, late, calc, todo>>
  BY DEF Record
<1>4. \A r \in Requests : req'[r].step # "idle" => req'[r] = req[r]
  BY <1>3, FinishFacts
<1>5. Values'
  BY <1>2, <1>3, FinishFacts DEF Values, IInv, TypeOK
<1>6. \A r \in Proposals : prop'[r] = prop[r] \/
        (prop[r].status \in {"open", "claimed"} /\ prop'[r].status = "accepted")
  BY <1>2 DEF Open, Free, Claimed
<1>7. \A r \in Requests : req[r].step \notin {"idle", "claim"} =>
        prop'[req[r].prop].status \in {"claimed", "accepted", "rejected"}
  <2>1. \A r \in Requests : req[r].step \notin {"idle", "claim"} =>
          /\ req[r].prop \in Proposals
          /\ prop[req[r].prop].status \in {"claimed", "accepted", "rejected"}
    BY DEF IInv, TypeOK, Request, Proposals
  <2> QED
    BY <2>1, <1>6
<1>8. Calm
  BY <1>3, <1>4, <1>6, <1>7 DEF Calm, Making, IInv, TypeOK
<1> QED
  BY <1>3, <1>4, <1>5, <1>8, CalmStep DEF NoneRecords

LEMMA DecideStep ==
  ASSUME IInv, NEW p \in Proposals, AcceptByHand(p) \/ Reject(p) PROVE IInv'
<1>1. /\ Open(p) /\ UNCHANGED <<begun, zds, late, req, calc, todo>>
      /\ prop' = [prop EXCEPT ![p] = Decided("accepted")]
           \/ prop' = [prop EXCEPT ![p] = Decided("rejected")]
  BY DEF AcceptByHand, Accept, Reject
<1>2. /\ prop' \in [Proposals -> Proposal]
      /\ \A r \in Proposals : r # p => prop'[r] = prop[r]
      /\ prop'[p].status \in {"accepted", "rejected"}
  BY <1>1, DecidedType DEF IInv, TypeOK
<1>3. prop[p].status \in {"open", "claimed"}
  BY <1>1 DEF Open, Free, Claimed
<1> QED
  BY <1>1, <1>2, <1>3, ReqStays DEF IInv, TypeOK

-----------------------------------------------------------------------------
(* The steps of a calculation.                                             *)

\* What a calculation does before it writes, or without writing, ...
LEMMA CalcStays ==
  ASSUME IInv, UNCHANGED <<prop, begun, zds, late, req>>, NEW w \in Runs,
         NEW t \in Run, t.step # "insert", calc' = [calc EXCEPT ![w] = t],
         todo' \subseteq todo
  PROVE  IInv'
<1>1. /\ calc' \in [Runs -> Run]
      /\ \A v \in Runs : calc'[v].step = "insert" => calc'[v] = calc[v]
  BY DEF IInv, TypeOK
<1>2. prop' \in [Proposals -> Proposal]
  BY DEF IInv, TypeOK
<1> QED
  BY <1>1, <1>2, ReqStays

LEMMA TaskType ==
  ASSUME TypeOK
  PROVE  /\ Resting \in Run /\ Resting.step # "insert"
         /\ \A s \in {"write", "reconcile", "outdated"}, n \in {0, Len(zds)} :
              Task(s, 0, n) \in Run /\ Task(s, 0, n).step # "insert"
<1>1. Len(zds) \in 0 .. MaxZds
  BY DEF TypeOK
<1> QED
  BY <1>1 DEF Resting, Task, Run

LEMMA PlainStep ==
  ASSUME IInv, NEW w \in Runs,
         \/ Calculate \/ NightDies
         \/ StartNow(w) \/ NoProposal(w) \/ NothingToOrder(w) \/ NowDies(w)
  PROVE  IInv'
<1>1. TypeOK
  BY DEF IInv
<1>2. "night" \in Runs
  BY DEF Runs
<1>3. CASE StartNow(w)
  BY <1>1, <1>3, TaskType, CalcStays DEF StartNow
<1>4. CASE Calculate
  BY <1>1, <1>2, <1>4, TaskType, CalcStays DEF Calculate
<1>5. CASE NoProposal(w)
  BY <1>1, <1>5, TaskType, CalcStays DEF NoProposal, Rest
<1>6. CASE NothingToOrder(w)
  BY <1>1, <1>6, TaskType, CalcStays DEF NothingToOrder
<1>7. CASE NightDies
  BY <1>1, <1>2, <1>7, TaskType, CalcStays DEF NightDies, Rest
<1>8. CASE NowDies(w)
  BY <1>1, <1>8, TaskType, CalcStays DEF NowDies, Rest
<1> QED
  BY <1>3, <1>4, <1>5, <1>6, <1>7, <1>8

\* ... what it puts up for settling, ...
LEMMA StartNightStep == ASSUME IInv, StartNight PROVE IInv'
<1>1. /\ calc' \in [Runs -> Run]
      /\ \A w \in Runs : calc'[w].step = "insert" => calc'[w] = calc[w]
      /\ UNCHANGED <<prop, begun, zds, late, req>>
  BY TaskType DEF StartNight, IInv, TypeOK
<1>2. todo' \subseteq Proposals /\ \A p \in todo' : Claimed(p) /\ \A q \in Requests : ~Working(q, p)
  BY DEF StartNight
<1>3. TypeOK'
  BY <1>1, <1>2 DEF IInv, TypeOK
<1>4. ClaimInv'
  <2>1. \A r : From(r)' = From(r)
    BY <1>1 DEF From
  <2> QED
    BY <1>1, <2>1 DEF IInv, ClaimInv, Making, OneZdPerProposal
<1>5. RunInv'
  <2>1. \A p \in todo' : prop'[p].status \notin {"none", "open"}
    BY <1>1, <1>2 DEF Claimed
  <2>2. \A p \in todo', q \in Requests : ~Working(q, p)'
    BY <1>1, <1>2 DEF Working, Of
  <2> QED
    BY <1>1, <2>1, <2>2 DEF IInv, RunInv
<1> QED
  BY <1>3, <1>4, <1>5 DEF IInv

LEMMA SettleStep == ASSUME IInv, NEW p \in Proposals, Settle(p) PROVE IInv'
<1>1. /\ p \in todo /\ todo' \subseteq todo /\ UNCHANGED <<begun, zds, late, req, calc>>
      /\ \A q \in Requests : ~Working(q, p)
      /\ prop[p].status # "none"
  BY DEF Settle, IInv, RunInv
<1>2. /\ prop' \in [Proposals -> Proposal]
      /\ \A r \in Proposals : r # p => prop'[r] = prop[r]
      /\ \/ prop'[p] = prop[p]
         \/ Open(p) /\ prop'[p].status = "accepted"
         \/ prop'[p].status = "expired"
  <2>1. CASE Accept(p)
    BY <2>1, AcceptFacts DEF IInv
  <2>2. CASE prop' = IF Claimed(p) /\ prop[p].age > GiveUpDays
                     THEN [prop EXCEPT ![p] = Decided("expired")] ELSE prop
    <3>1. CASE Claimed(p) /\ prop[p].age > GiveUpDays
      BY <2>2, <3>1, DecidedType DEF IInv, TypeOK
    <3>2. CASE ~(Claimed(p) /\ prop[p].age > GiveUpDays)
      BY <2>2, <3>2 DEF IInv, TypeOK
    <3> QED
      BY <3>1, <3>2
  <2> QED
    BY <2>1, <2>2 DEF Settle
<1>3. \A r \in Proposals :
        \/ prop'[r].status = prop[r].status
        \/ /\ prop[r].status \in {"open", "claimed"}
           /\ prop'[r].status \in {"accepted", "rejected"}
        \/ /\ \A q \in Requests : ~Working(q, r)
           /\ prop[r].status # "none" /\ prop'[r].status = "expired"
  BY <1>1, <1>2 DEF Open, Free, Claimed
<1> QED
  BY <1>1, <1>2, <1>3, ReqStays DEF IInv, TypeOK

\* ... and what it does to the proposals that are open.
LEMMA FreeIsUnworked ==
  ASSUME IInv, NEW p \in Proposals, prop[p].status = "open"
  PROVE  \A q \in Requests : ~Working(q, p)
BY DEF IInv, TypeOK, Working, Of

LEMMA ExpirePendingStep == ASSUME IInv, NEW i \in Runs, ExpirePending(i) PROVE IInv'
<1>1. /\ calc' = [calc EXCEPT ![i] = Resting] /\ prop' = Expired
      /\ UNCHANGED <<begun, zds, late, req, todo>>
  BY DEF ExpirePending, Rest
<1>2. /\ calc' \in [Runs -> Run]
      /\ \A w \in Runs : calc'[w].step = "insert" => calc'[w] = calc[w]
  BY <1>1, TaskType DEF IInv, TypeOK
<1>3. \A p \in Proposals :
        \/ prop'[p].status = prop[p].status
        \/ /\ \A q \in Requests : ~Working(q, p)
           /\ prop[p].status # "none" /\ prop'[p].status = "expired"
  BY <1>1, ExpiredFacts, FreeIsUnworked DEF IInv
<1> QED
  BY <1>1, <1>2, <1>3, ExpiredFacts, ReqStays DEF IInv

LEMMA RefreshStep ==
  ASSUME IInv, NEW i \in Runs, NEW p \in Proposals, Refresh(i, p) PROVE IInv'
<1>1. /\ calc' = [calc EXCEPT ![i] = Resting]
      /\ UNCHANGED <<begun, zds, late, req, todo>>
      /\ prop' = [prop EXCEPT ![p].counted = calc[i].counted]
  BY DEF Refresh, Rest
<1>2. /\ calc' \in [Runs -> Run]
      /\ \A w \in Runs : calc'[w].step = "insert" => calc'[w] = calc[w]
  BY <1>1, TaskType DEF IInv, TypeOK
<1>3. calc[i].counted \in 0 .. MaxZds
  BY DEF IInv, TypeOK, Run
<1>4. /\ prop' \in [Proposals -> Proposal]
      /\ \A r \in Proposals : prop'[r].status = prop[r].status
  BY <1>1, <1>3 DEF IInv, TypeOK, Proposal
<1> QED
  BY <1>1, <1>2, <1>4, ReqStays

LEMMA NextDayStep == ASSUME IInv, NextDay PROVE IInv'
<1>1. UNCHANGED <<begun, zds, late, req, calc, todo>>
  BY DEF NextDay
<1>2. \A p \in Proposals : prop'[p] \in Proposal /\ prop'[p].status = prop[p].status
  <2>1. SUFFICES ASSUME NEW p \in Proposals
                 PROVE  prop'[p] \in Proposal /\ prop'[p].status = prop[p].status
    OBVIOUS
  <2>2. prop[p] \in Proposal
    BY DEF IInv, TypeOK
  <2>3. CASE Claimed(p) /\ prop[p].age <= GiveUpDays
    BY <2>2, <2>3 DEF NextDay, Proposal, GiveUpDays
  <2>4. CASE ~(Claimed(p) /\ prop[p].age <= GiveUpDays)
    BY <2>2, <2>4 DEF NextDay
  <2> QED
    BY <2>3, <2>4
<1>3. prop' \in [Proposals -> Proposal]
  BY <1>2 DEF NextDay
<1> QED
  BY <1>1, <1>2, <1>3, ReqStays DEF IInv, TypeOK

LEMMA BeginStep == ASSUME IInv, NEW w \in Runs, Begin(w) PROVE IInv'
<1>1. /\ begun < MaxProposals /\ begun' = begun + 1 /\ prop' = Expired
      /\ calc' = [calc EXCEPT ![w] = Task("insert", begun + 1, calc[w].counted)]
      /\ UNCHANGED <<zds, late, req, todo>>
  BY DEF Begin
<1>2. begun \in 0 .. MaxProposals /\ calc[w] \in Run
  BY DEF IInv, TypeOK
<1>3. begun' \in Proposals /\ \A p \in Proposals : p \in 1 .. MaxProposals
  BY <1>1, <1>2 DEF Proposals
<1>4. /\ calc' \in [Runs -> Run]
      /\ calc'[w].step = "insert" /\ calc'[w].prop = begun + 1
      /\ \A v \in Runs : v # w => calc'[v] = calc[v]
  BY <1>1, <1>2 DEF IInv, TypeOK, Task, Run
<1>5. /\ prop' \in [Proposals -> Proposal]
      /\ \A p \in Proposals : prop'[p].status = prop[p].status \/
           (prop[p].status = "open" /\ prop'[p].status = "expired")
  BY <1>1, ExpiredFacts DEF IInv
<1>6. TypeOK'
  <2>1. \A q \in Requests : req[q].step \notin {"idle", "claim"} =>
          prop'[req[q].prop].status \in {"claimed", "accepted", "rejected"}
    <3>1. \A q \in Requests : req[q].step \notin {"idle", "claim"} =>
            /\ req[q].prop \in Proposals
            /\ prop[req[q].prop].status \in {"claimed", "accepted", "rejected"}
      BY DEF IInv, TypeOK, Request, Proposals
    <3> QED
      BY <3>1, <1>5
  <2> QED
    BY <1>1, <1>2, <1>4, <1>5, <2>1 DEF IInv, TypeOK
<1>7. ClaimInv'
  <2>1. \A r : From(r)' = From(r)
    BY <1>1 DEF From
  <2>2. \A p \in Proposals : prop'[p].status \in {"none", "open"} => prop[p].status = prop'[p].status
    BY <1>5
  <2> QED
    BY <1>1, <2>1, <2>2 DEF IInv, ClaimInv, Making, OneZdPerProposal
<1>8. RunInv'
  <2>1. \A v \in Runs : v # w /\ calc[v].step = "insert" =>
          calc[v].prop \in Proposals /\ calc[v].prop \in 1 .. begun
    BY DEF IInv, RunInv, TypeOK, Proposals
  <2>2. \A p \in Proposals : prop[p].status = "none" => prop'[p].status = "none"
    BY <1>5
  <2>3. prop[begun + 1].status = "none"
    BY <1>1, <1>2, <1>3 DEF IInv, RunInv
  <2>4. \A v \in Runs : calc'[v].step = "insert" =>
          calc'[v].prop \in 1 .. begun' /\ prop'[calc'[v].prop].status = "none"
    BY <1>1, <1>2, <1>3, <1>4, <2>1, <2>2, <2>3 DEF IInv, RunInv
  <2>5. \A v, u \in Runs : calc'[v].step = "insert" /\ calc'[u].step = "insert"
                             /\ calc'[v].prop = calc'[u].prop => v = u
    BY <1>2, <1>4, <2>1 DEF IInv, RunInv
  <2>6. \A p \in Proposals : p > begun' => prop'[p].status = "none"
    BY <1>1, <1>2, <1>3, <2>2 DEF IInv, RunInv
  <2>7. \A p \in todo : prop'[p].status \notin {"none", "open"}
    BY <1>5 DEF IInv, RunInv, TypeOK
  <2>8. \A p \in todo, q \in Requests : ~Working(q, p)'
    BY <1>1 DEF Working, Of, IInv, RunInv
  <2> QED
    BY <1>1, <2>4, <2>5, <2>6, <2>7, <2>8 DEF RunInv
<1> QED
  BY <1>6, <1>7, <1>8 DEF IInv

LEMMA CommitStep == ASSUME IInv, NEW w \in Runs, Commit(w) PROVE IInv'
<1>0. PICK p \in Proposals : p = calc[w].prop
  BY DEF Commit, Doing, IInv, RunInv, TypeOK, Proposals
<1>1. /\ p = calc[w].prop /\ calc[w].step = "insert" /\ prop[p].status = "none"
      /\ prop' = [prop EXCEPT ![p] = New("open", calc[w].counted)]
      /\ calc' = [calc EXCEPT ![w] = Resting]
      /\ UNCHANGED <<begun, zds, late, req, todo>>
  BY <1>0 DEF Commit, Doing, Rest, IInv, RunInv
<1>2. /\ prop' \in [Proposals -> Proposal] /\ prop'[p].status = "open"
      /\ \A r \in Proposals : r # p => prop'[r] = prop[r]
  <2>1. calc[w].counted \in 0 .. MaxZds
    BY DEF IInv, TypeOK, Run
  <2>2. New("open", calc[w].counted) \in Proposal /\ New("open", calc[w].counted).status = "open"
    BY <2>1 DEF New, Proposal, GiveUpDays
  <2> QED
    BY <1>1, <2>2 DEF IInv, TypeOK
<1>3. /\ calc' \in [Runs -> Run] /\ calc'[w].step # "insert"
      /\ \A v \in Runs : v # w => calc'[v] = calc[v]
  BY <1>1, TaskType DEF IInv, TypeOK
<1>4. \A q \in Requests : req[q].step \notin {"idle", "claim"} =>
        req[q].prop \in Proposals /\ req[q].prop # p
  <2>1. \A q \in Requests : req[q].step \notin {"idle", "claim"} =>
          /\ req[q].prop \in Proposals
          /\ prop[req[q].prop].status \in {"claimed", "accepted", "rejected"}
    BY DEF IInv, TypeOK, Request, Proposals
  <2> QED
    BY <2>1, <1>1
<1>5. TypeOK'
  BY <1>1, <1>2, <1>3, <1>4 DEF IInv, TypeOK
<1>6. ClaimInv'
  <2>1. \A r : From(r)' = From(r)
    BY <1>1 DEF From
  <2>2. \A r \in Proposals : prop'[r].status \in {"none", "open"} =>
          prop[r].status \in {"none", "open"}
    BY <1>1, <1>2
  <2> QED
    BY <1>1, <2>1, <2>2 DEF IInv, ClaimInv, Making, OneZdPerProposal
<1>7. RunInv'
  <2>1. \A v \in Runs : calc'[v].step = "insert" =>
          v # w /\ calc'[v] = calc[v] /\ calc[v].prop \in Proposals /\ calc[v].prop # p
    BY <1>1, <1>3 DEF IInv, RunInv, TypeOK, Proposals
  <2>2. p \in 1 .. begun /\ p \notin todo
    BY <1>1 DEF IInv, RunInv
  <2>3. \A r \in Proposals : r > begun => prop'[r].status = "none"
    BY <1>2, <2>2 DEF IInv, RunInv, TypeOK, Proposals
  <2>4. \A r \in todo : prop'[r].status \notin {"none", "open"}
    BY <1>2, <2>2 DEF IInv, RunInv, TypeOK
  <2>5. \A r \in todo, q \in Requests : ~Working(q, r)'
    BY <1>1 DEF Working, Of, IInv, RunInv
  <2>6. \A v \in Runs : calc'[v].step = "insert" =>
          calc'[v].prop \in 1 .. begun /\ prop'[calc'[v].prop].status = "none"
    BY <1>2, <2>1 DEF IInv, RunInv
  <2>7. \A v, u \in Runs : calc'[v].step = "insert" /\ calc'[u].step = "insert"
                             /\ calc'[v].prop = calc'[u].prop => v = u
    BY <2>1 DEF IInv, RunInv
  <2> QED
    BY <1>1, <2>3, <2>4, <2>5, <2>6, <2>7 DEF RunInv
<1> QED
  BY <1>5, <1>6, <1>7 DEF IInv

-----------------------------------------------------------------------------
(* The inductive invariant.                                                *)

LEMMA IInvInit == Init => IInv
<1> SUFFICES ASSUME Init PROVE IInv
  OBVIOUS
<1>1. TypeOK
  BY TypeInit
<1>2. \A p : From(p) = {}
  BY DEF Init, From
<1>3. \A q \in Requests : req[q].step = "idle"
  BY DEF Init, Idle, Task
<1>4. \A w \in Runs : calc[w].step = "idle"
  BY DEF Init, Resting, Task
<1>5. ClaimInv
  BY <1>2, <1>3 DEF Init, ClaimInv, Making, OneZdPerProposal
<1>6. \A p \in Proposals : prop[p].status = "none"
  BY DEF Init, New
<1>7. RunInv
  BY <1>4, <1>6 DEF Init, RunInv
<1> QED
  BY <1>1, <1>5, <1>7 DEF IInv

LEMMA IInvStep == IInv /\ [Next]_vars => IInv'
<1> SUFFICES ASSUME IInv, [Next]_vars PROVE IInv'
  OBVIOUS
<1>1. ASSUME NEW q \in Requests, Step(q) PROVE IInv'
  <2>1. CASE Claim(q)
    BY <2>1, ClaimStep
  <2>2. CASE Busy(q)
    BY <2>2, IdleStep DEF Busy
  <2>3. CASE Create(q)
    BY <2>3, CreateZdStep, CreateUnknownStep, CreateRefusedStep DEF Create
  <2>4. CASE Release(q)
    BY <2>4, ReleaseStep
  <2>5. CASE Record(q)
    BY <2>5, RecordStep
  <2> QED
    BY <1>1, <2>1, <2>2, <2>3, <2>4, <2>5 DEF Step
<1>2. ASSUME NEW q \in Requests, Die(q) PROVE IInv'
  BY <1>2, IdleStep DEF Die
<1>3. ASSUME NEW q \in Requests, NEW p \in Proposals, Read(q, p) PROVE IInv'
  BY <1>3, ReadStep
<1>4. CASE LateZdLands
  BY <1>4, LateZdLandsStep
<1>5. "night" \in Runs /\ Instances \subseteq Runs
  BY DEF Runs
<1>6. ASSUME NEW w \in Runs, Write(w) PROVE IInv'
  BY <1>6, PlainStep, BeginStep, CommitStep DEF Write
<1>7. CASE StartNight
  BY <1>7, StartNightStep
<1>8. CASE Night
  BY <1>5, <1>6, <1>8, SettleStep, PlainStep DEF Night
<1>9. ASSUME NEW i \in Instances, StartNow(i) \/ Now(i) \/ NowDies(i) PROVE IInv'
  BY <1>5, <1>6, <1>9, PlainStep, ExpirePendingStep, RefreshStep DEF Now
<1>10. CASE NightDies
  BY <1>5, <1>10, PlainStep
<1>11. CASE NextDay
  BY <1>11, NextDayStep
<1>12. ASSUME NEW p \in Proposals, Reject(p) \/ AcceptByHand(p) PROVE IInv'
  BY <1>12, DecideStep
<1>13. CASE UNCHANGED vars
  <2>1. UNCHANGED <<prop, begun, zds, late, req, calc, todo>>
    BY <1>13 DEF vars
  <2> QED
    BY <2>1, PropStays DEF IInv, TypeOK, Making
<1> QED
  BY <1>1, <1>2, <1>3, <1>4, <1>7, <1>8, <1>9, <1>10, <1>11, <1>12, <1>13 DEF Next

LEMMA IInvHolds == Spec => []IInv
<1> QED
  BY IInvInit, IInvStep, PTL DEF Spec

\* Every row is well formed, and a request works only on a proposal that it has claimed
\* and that nobody has let expire since.
THEOREM TypeCorrect == Spec => []TypeOK
<1>1. IInv => TypeOK
  BY DEF IInv
<1> QED
  BY <1>1, IInvHolds, PTL

\* However requests, nightly runs, recalculations and lost answers are interleaved, a
\* proposal becomes one ZD at most.
THEOREM OneZd == Spec => []OneZdPerProposal
<1>1. IInv => OneZdPerProposal
  BY DEF IInv, ClaimInv
<1> QED
  BY <1>1, IInvHolds, PTL

\* A proposal that is open and not claimed has no ZD, nor one on its way.
THEOREM OpenIsUnordered == Spec => []OpenIsNotOrdered
<1>1. IInv => OpenIsNotOrdered
  BY DEF IInv, ClaimInv, OpenIsNotOrdered, Free
<1> QED
  BY <1>1, IInvHolds, PTL

-----------------------------------------------------------------------------
(* What may become of a proposal that is claimed or decided.               *)

Closing(p) ==
  \/ prop'[p] = prop[p]
  \/ /\ Claimed(p)
     /\ \/ prop'[p].status \in {"open", "claimed"} /\ prop'[p].counted = prop[p].counted
        \/ prop'[p].status \in {"accepted", "rejected"}
        \/ prop'[p].status = "expired" /\ p \in todo

LEMMA ClosingStep ==
  ASSUME IInv, [Next]_vars, NEW p \in Written, ~Free(p)
  PROVE  Closing(p)
<1>1. /\ p \in Proposals /\ p # 0 /\ prop[p].status \notin {"none", "open"}
      /\ prop \in [Proposals -> Proposal] /\ prop[p] \in Proposal
  BY DEF Written, Free, Proposals, IInv, TypeOK
<1>2. ASSUME prop' = Expired PROVE Closing(p)
  BY <1>1, <1>2, ExpiredFacts DEF Closing, IInv
<1>3. ASSUME NEW r \in Proposals, Accept(r) PROVE Closing(p)
  BY <1>1, <1>3, AcceptFacts DEF Closing, IInv, Open, Free
<1>4. ASSUME NEW q \in Requests, Claim(q) PROVE Closing(p)
  BY <1>1, <1>4 DEF Closing, Claim, Free
<1>5. ASSUME NEW q \in Requests, Release(q) PROVE Closing(p)
  <2>1. CASE Open(Of(q)) /\ Of(q) = p
    BY <1>1, <1>5, <2>1 DEF Closing, Release, Open, New, Free, Claimed
  <2>2. CASE ~(Open(Of(q)) /\ Of(q) = p)
    BY <1>1, <1>5, <2>2 DEF Closing, Release
  <2> QED
    BY <2>1, <2>2
<1>6. ASSUME NEW q \in Requests, Record(q) PROVE Closing(p)
  <2>1. Of(q) \in Proposals
    BY <1>6 DEF Record, At, Of, IInv, TypeOK, Request, Proposals
  <2> QED
    BY <1>3, <1>6, <2>1 DEF Record
<1>7. ASSUME NEW r \in Proposals, Reject(r) PROVE Closing(p)
  BY <1>1, <1>7, DecidedType DEF Closing, Reject, Open, Free
<1>8. ASSUME NEW r \in Proposals, Settle(r) PROVE Closing(p)
  BY <1>1, <1>3, <1>8, DecidedType DEF Closing, Settle
<1>9. ASSUME NEW i \in Instances, NEW r \in Proposals, Refresh(i, r) PROVE Closing(p)
  BY <1>1, <1>9 DEF Closing, Refresh, Free
<1>10. ASSUME NEW w \in Runs, Commit(w) PROVE Closing(p)
  BY <1>1, <1>10 DEF Closing, Commit, Doing, IInv, RunInv
<1>11. CASE NextDay
  <2>1. CASE Claimed(p) /\ prop[p].age <= GiveUpDays
    BY <1>1, <1>11, <2>1 DEF Closing, NextDay, Claimed, Proposal
  <2>2. CASE ~(Claimed(p) /\ prop[p].age <= GiveUpDays)
    BY <1>1, <1>11, <2>2 DEF Closing, NextDay
  <2> QED
    BY <2>1, <2>2
<1>12. ASSUME prop' = prop PROVE Closing(p)
  BY <1>12 DEF Closing
<1>13. ASSUME NEW q \in Requests, Step(q) \/ Die(q) \/ \E r \in Proposals : Read(q, r)
       PROVE  Closing(p)
  BY <1>4, <1>5, <1>6, <1>12, <1>13
     DEF Step, Create, Busy, CreateZd, CreateUnknown, CreateRefused, Die, Read
<1>14. ASSUME NEW w \in Runs, Write(w) PROVE Closing(p)
  BY <1>2, <1>10, <1>12, <1>14 DEF Write, NoProposal, Begin
<1>15. CASE Night
  BY <1>8, <1>12, <1>14, <1>15 DEF Night, Runs, Calculate
<1>18. ASSUME NEW i \in Instances, StartNow(i) \/ Now(i) \/ NowDies(i) PROVE Closing(p)
  BY <1>2, <1>9, <1>12, <1>14, <1>18
     DEF Now, Runs, StartNow, NothingToOrder, ExpirePending, NowDies
<1>16. CASE LateZdLands \/ StartNight \/ NightDies
  BY <1>12, <1>16 DEF LateZdLands, StartNight, NightDies
<1>17. ASSUME NEW r \in Proposals, AcceptByHand(r) PROVE Closing(p)
  BY <1>3, <1>17 DEF AcceptByHand
<1> QED
  BY <1>7, <1>11, <1>12, <1>13, <1>15, <1>16, <1>17, <1>18 DEF Next, vars

\* Accepted, rejected and expired proposals stay what they are.
THEOREM DecisionsAreFinal == Spec => DecidedIsFinal
<1>1. IInv /\ [Next]_vars =>
        [\A p \in Written : ~Open(p) => prop'[p] = prop[p]]_vars
  BY ClosingStep DEF Closing, Open
<1> QED
  BY <1>1, IInvHolds, PTL DEF Spec, DecidedIsFinal

\* While a request creates the ZD of a proposal, the proposal keeps its lines and does
\* not expire.
THEOREM AttemptsAreLeftAlone == Spec => AttemptIsLeftAlone
<1>1. ASSUME IInv, [Next]_vars, NEW q \in Requests, NEW p \in Proposals, Working(q, p)
      PROVE  prop'[p].status # "expired" /\ (Open(p)' => prop'[p].counted = prop[p].counted)
  <2>1. /\ prop[p].status \in {"claimed", "accepted", "rejected"} /\ p \notin todo
        /\ p \in Written /\ ~Free(p)
    BY <1>1 DEF Working, Of, IInv, TypeOK, RunInv, Written, Free
  <2>2. Closing(p)
    BY <1>1, <2>1, ClosingStep
  <2> QED
    BY <2>1, <2>2 DEF Closing, Open, Free, Claimed
<1>2. IInv /\ [Next]_vars =>
        [\A q \in Requests, p \in Proposals : Working(q, p) =>
           prop'[p].status # "expired" /\ (Open(p)' => prop'[p].counted = prop[p].counted)]_vars
  BY <1>1
<1> QED
  BY <1>2, IInvHolds, PTL DEF Spec, AttemptIsLeftAlone
=============================================================================
