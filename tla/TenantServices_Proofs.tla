------------------------- MODULE TenantServices_Proofs -------------------------
(***************************************************************************)
(* Proofs about the services: the agent runtime decides no stored approval *)
(* twice nor runs what the gateway held (VerdictsAccounted and             *)
(* RunsAreHonest), a tenant that paid in time is not locked out, nor a     *)
(* suspended one served for long (SuspensionJustified), a request of a     *)
(* peer is accepted once (AcceptedOnce), the IP allowlist is followed      *)
(* (AllowlistFollowed), and side by side each service is what it is alone. *)
(***************************************************************************)
EXTENDS TenantServices, Spending_Proofs

-----------------------------------------------------------------------------
(* The agent runtime.                                                      *)

Pending(status) == IF status = "PENDING" THEN 1 ELSE 0

\* What is still pending was filed and has no verdict.
PendingAccounted ==
    \A a \in ApprovalIds :
        acked[a] + Pending(approvalRow[a]) + Pending(approvalItem[a]) <= filed[a]

\* A run is executed, and answered with an error, only between the preflight that
\* allows it and its result.
RunsStepHonestly ==
    \A r \in Runs :
        /\ run[r] \in {"new", "preflight"} => r \notin executed \cup erred
        /\ run[r] = "mcp" => gateway[r] = "allowed"
        /\ run[r] = "save" => r \in executed \cup unheard \cup erred

ApprovalTypes ==
    /\ approvalRow \in [ApprovalIds -> Verdicts \cup {"none", "PENDING"}]
    /\ approvalItem \in [ApprovalIds -> Verdicts \cup {"none", "PENDING"}]
    /\ deciding \in [Deciders -> {NoDecide} \cup
          [step : {"memory"}, id : ApprovalIds, verdict : Verdicts]]
    /\ filed \in [ApprovalIds -> Nat] /\ acked \in [ApprovalIds -> Nat]

ApprovalInv == ApprovalTypes /\ PendingAccounted

RunTypes ==
    /\ run \in [Runs -> Outcomes \cup {"new", "preflight", "mcp", "file", "save"}]
    /\ gateway \in [Runs -> {"none", "allowed", "held", "refused"}]
    /\ executed \subseteq Runs /\ unheard \subseteq Runs /\ erred \subseteq Runs
    /\ memories \subseteq Runs

RunInv == RunTypes /\ RunsStepHonestly /\ RunsAreHonest

LEMMA RuntimeInitInv == RuntimeInit => ApprovalInv /\ RunInv
  BY DEF RuntimeInit, ApprovalInv, ApprovalTypes, PendingAccounted, Pending,
         RunInv, RunTypes, RunsStepHonestly, RunsAreHonest

\* An approval is stored: once, or twice if the answer of the INSERT is lost.
LEMMA FileKeepsApprovals ==
    ASSUME ApprovalInv, NEW r \in Runs, FileApproval(r)
    PROVE  ApprovalInv'
  BY RuntimeAssumption
  DEF FileApproval, ApprovalInv, ApprovalTypes, PendingAccounted, Pending, Verdicts

LEMMA DecideKeepsApprovals ==
    ASSUME ApprovalInv, NEW d \in Deciders, NEW a \in ApprovalIds, NEW v \in Verdicts, Decide(d, a, v)
    PROVE  ApprovalInv'
  BY DEF Decide, Ack, ApprovalInv, ApprovalTypes, PendingAccounted, Pending, Verdicts

LEMMA DecideItemKeepsApprovals ==
    ASSUME ApprovalInv, NEW d \in Deciders, DecideItem(d)
    PROVE  ApprovalInv'
  BY DEF DecideItem, Ack, NoDecide, ApprovalInv, ApprovalTypes, PendingAccounted, Pending, Verdicts

LEMMA RuntimeStepKeepsApprovals == ApprovalInv /\ [RuntimeNext]_runtimeVars => ApprovalInv'
<1> SUFFICES ASSUME ApprovalInv, [RuntimeNext]_runtimeVars PROVE ApprovalInv'
  OBVIOUS
<1>1. ASSUME NEW r \in Runs, StartRun(r) \/ Preflight(r) \/ CallTool(r) \/ SaveMemory(r)
      PROVE  ApprovalInv'
  BY <1>1 DEF StartRun, Preflight, CallTool, SaveMemory, approvalVars, gatewayVars,
              ApprovalInv, ApprovalTypes, PendingAccounted
<1>2. CASE RestartRuntime
  BY <1>2 DEF RestartRuntime, ApprovalInv, ApprovalTypes, PendingAccounted, Pending, Verdicts
<1>3. CASE UNCHANGED runtimeVars
  BY <1>3 DEF runtimeVars, ApprovalInv, ApprovalTypes, PendingAccounted
<1> QED
  BY <1>1, <1>2, <1>3, FileKeepsApprovals, DecideKeepsApprovals, DecideItemKeepsApprovals
  DEF RuntimeNext

\* No stored approval is decided twice, over lost answers and restarts
\* (ApprovalManager.approve_request and reject_request).
THEOREM VerdictsAreAccounted == RuntimeSpec => []VerdictsAccounted
<1>1. ApprovalInv => VerdictsAccounted
  BY DEF ApprovalInv, ApprovalTypes, PendingAccounted, Pending, VerdictsAccounted
<1> QED
  BY <1>1, RuntimeInitInv, RuntimeStepKeepsApprovals, PTL DEF RuntimeSpec

LEMMA RunStepKeepsRuns ==
    ASSUME RunInv, NEW r \in Runs,
           StartRun(r) \/ Preflight(r) \/ CallTool(r) \/ SaveMemory(r) \/ FileApproval(r)
    PROVE  RunInv'
<1> USE DEF Advance, gatewayVars, RunInv, RunTypes, RunsStepHonestly, RunsAreHonest, Outcomes
<1>1. CASE StartRun(r)
  BY <1>1 DEF StartRun
<1>2. CASE Preflight(r)
  BY <1>2 DEF Preflight, AfterPreflight
<1>3. CASE CallTool(r)
  BY <1>3 DEF CallTool
<1>4. CASE SaveMemory(r)
  BY <1>4 DEF SaveMemory
<1>5. CASE FileApproval(r)
  BY <1>5 DEF FileApproval
<1> QED
  BY <1>1, <1>2, <1>3, <1>4, <1>5

LEMMA RuntimeStepKeepsRuns == RunInv /\ [RuntimeNext]_runtimeVars => RunInv'
<1> SUFFICES ASSUME RunInv, [RuntimeNext]_runtimeVars PROVE RunInv'
  OBVIOUS
<1> USE DEF RunInv, RunTypes, RunsStepHonestly, RunsAreHonest
<1>1. ASSUME NEW d \in Deciders,
             DecideItem(d) \/ \E a \in ApprovalIds, v \in Verdicts : Decide(d, a, v)
      PROVE  RunInv'
  BY <1>1 DEF Decide, DecideItem, gatewayVars
<1>2. CASE RestartRuntime
  BY <1>2 DEF RestartRuntime, gatewayVars, Outcomes
<1>3. CASE UNCHANGED runtimeVars
  BY <1>3 DEF runtimeVars
<1> QED
  BY <1>1, <1>2, <1>3, RunStepKeepsRuns DEF RuntimeNext

\* The run executes nothing the gateway held or refused, and what it reports as done
\* was executed, went unanswered, or was answered with the MCP server's error
\* (graph.py, gateway_client.py).
THEOREM RunsStayHonest == RuntimeSpec => []RunsAreHonest
<1>1. RunInv => RunsAreHonest
  BY DEF RunInv
<1> QED
  BY <1>1, RuntimeInitInv, RuntimeStepKeepsRuns, PTL DEF RuntimeSpec

-----------------------------------------------------------------------------
(* The life of a tenant.                                                   *)

\* A tenant that paid in time is no longer what a sweep looks for.
PaidIsSafe ==
    paidInTime => /\ tenant.status # "trialing" /\ sweeping = {}
                  /\ tenant.active \/ suspended

\* The histories are 0 for what the row says, and what was read from it is no older
\* than the resolver's age, or than the time since the copy was made.
RowIsNow == /\ tenant.active => offFor = 0
            /\ planFor[tenant.plan] = 0
ReadsAreRecent ==
    \A r \in Resolvers : resolve[r].step = "setex" =>
        offFor <= resolve[r].age /\ planFor[resolve[r].plan] <= resolve[r].age
CopyIsRecent ==
    copy # NoCopy => /\ offFor <= LongestUse - copy.ttl
                     /\ planFor[copy.plan] <= LongestUse - copy.ttl

TenantInv == TenantTypes /\ PaidIsSafe /\ RowIsNow /\ ReadsAreRecent /\ CopyIsRecent

LEMMA TenantInitInv == TenantInit => TenantInv
<1> SUFFICES ASSUME TenantInit PROVE TenantInv
  OBVIOUS
<1> USE LifecycleAssumption DEF TenantInit, NoCopy, NoResolve, LongestUse
<1>1. tenant \in [active : BOOLEAN, status : Statuses, plan : Plans]
  BY DEF Statuses
<1>2. planFor \in [Plans -> 0..(LongestUse + 1)] /\ offFor \in 0..(LongestUse + 1)
  OBVIOUS
<1>3. TenantTypes
  BY <1>1, <1>2 DEF TenantTypes
<1>4. PaidIsSafe /\ RowIsNow /\ ReadsAreRecent /\ CopyIsRecent
  BY DEF PaidIsSafe, RowIsNow, ReadsAreRecent, CopyIsRecent
<1> QED
  BY <1>3, <1>4 DEF TenantInv

\* A step that writes the row and leaves the cache alone.
LEMMA WriteKeepsInv ==
    ASSUME TenantInv, NEW row \in [active : BOOLEAN, status : Statuses, plan : Plans], Write(row),
           row.active => tenant.active,
           UNCHANGED <<trialOver, copy, resolve>>,
           sweeping' \subseteq Sweepers, deleting' \subseteq Operators,
           suspended' \in BOOLEAN, paidInTime' \in BOOLEAN, PaidIsSafe'
    PROVE  TenantInv'
<1> USE LifecycleAssumption DEF TenantInv, TenantTypes, NoCopy, NoResolve, LongestUse, Write
<1>1. TenantTypes'
  OBVIOUS
<1>2. offFor' <= offFor /\ \A p \in Plans : planFor'[p] <= planFor[p]
  OBVIOUS
<1>3. RowIsNow'
  BY DEF RowIsNow
<1>4. ReadsAreRecent'
  BY <1>2 DEF ReadsAreRecent
<1>5. CopyIsRecent'
  BY <1>2 DEF CopyIsRecent
<1> QED
  BY <1>1, <1>3, <1>4, <1>5

LEMMA SweepKeepsInv ==
    ASSUME TenantInv, NEW s \in Sweepers, SweepSelect(s) \/ SweepUpdate(s) \/ SweepStops(s)
    PROVE  TenantInv'
<1>1. CASE SweepUpdate(s)
  <2> DEFINE row == [tenant EXCEPT !.active = FALSE, !.status = "trial_expired"]
  <2>1. row \in [active : BOOLEAN, status : Statuses, plan : Plans] /\ ~row.active
    BY DEF TenantInv, TenantTypes, Statuses
  <2>2. ~paidInTime'
    BY <1>1 DEF SweepUpdate, TenantInv, PaidIsSafe, TenantTypes
  <2>3. Write(row) /\ UNCHANGED <<trialOver, copy, resolve, deleting, suspended, paidInTime>>
    BY <1>1 DEF SweepUpdate
  <2>4. sweeping' \subseteq Sweepers
    BY <1>1 DEF SweepUpdate, TenantInv, TenantTypes
  <2> HIDE DEF row
  <2> QED
    BY <2>1, <2>2, <2>3, <2>4, WriteKeepsInv DEF PaidIsSafe, TenantInv, TenantTypes
<1>2. CASE SweepSelect(s) \/ SweepStops(s)
  BY <1>2 DEF SweepSelect, SweepStops, Expired, TenantInv, TenantTypes, PaidIsSafe, RowIsNow,
              ReadsAreRecent, CopyIsRecent
<1> QED
  BY <1>1, <1>2

LEMMA StripeKeepsInv ==
    ASSUME TenantInv, PaymentFailed \/ SubscriptionDeleted \/ \E p \in Plans : Completed(p)
    PROVE  TenantInv'
<1> USE LifecycleAssumption DEF TenantInv, TenantTypes, Statuses, PaidIsSafe
<1>1. ASSUME NEW p \in Plans, Completed(p) PROVE TenantInv'
  <2> DEFINE row == [tenant EXCEPT !.status = "active", !.plan = p]
  <2>1. /\ row \in [active : BOOLEAN, status : Statuses, plan : Plans]
        /\ row.active = tenant.active /\ row.status = "active"
    OBVIOUS
  <2>2. Write(row) /\ UNCHANGED <<trialOver, sweeping, copy, resolve, deleting, suspended>>
    BY <1>1 DEF Completed
  <2>3. paidInTime' = (paidInTime \/ (tenant.active /\ sweeping = {}))
    BY <1>1 DEF Completed
  <2>4. tenant' = row
    BY <2>2 DEF Write
  <2> HIDE DEF row
  <2>5. PaidIsSafe'
    BY <2>1, <2>2, <2>3, <2>4
  <2> QED
    BY <2>1, <2>2, <2>3, <2>5, WriteKeepsInv
<1>2. CASE PaymentFailed
  <2> DEFINE row == [tenant EXCEPT !.status = "past_due"]
  <2>1. /\ row \in [active : BOOLEAN, status : Statuses, plan : Plans]
        /\ row.active = tenant.active /\ row.status = "past_due"
    OBVIOUS
  <2>2. Write(row) /\ UNCHANGED <<trialOver, sweeping, copy, resolve, deleting, suspended, paidInTime>>
    BY <1>2 DEF PaymentFailed
  <2>3. tenant' = row
    BY <2>2 DEF Write
  <2> HIDE DEF row
  <2> QED
    BY <2>1, <2>2, <2>3, WriteKeepsInv
<1>3. CASE SubscriptionDeleted
  <2> DEFINE row == [tenant EXCEPT !.status = "cancelled", !.plan = FirstPlan]
  <2>1. /\ row \in [active : BOOLEAN, status : Statuses, plan : Plans]
        /\ row.active = tenant.active /\ row.status = "cancelled"
    OBVIOUS
  <2>2. Write(row) /\ UNCHANGED <<trialOver, sweeping, copy, resolve, deleting, suspended, paidInTime>>
    BY <1>3 DEF SubscriptionDeleted
  <2>3. tenant' = row
    BY <2>2 DEF Write
  <2> HIDE DEF row
  <2> QED
    BY <2>1, <2>2, <2>3, WriteKeepsInv
<1> QED
  BY <1>1, <1>2, <1>3

LEMMA OperatorKeepsInv ==
    ASSUME TenantInv, NEW o \in Operators,
           Suspend(o) \/ DeleteCopy(o) \/ \E p \in Plans : SetPlan(o, p)
    PROVE  TenantInv'
<1> USE DEF TenantInv, TenantTypes, PaidIsSafe
<1>1. CASE Suspend(o)
  <2> DEFINE row == [tenant EXCEPT !.active = FALSE]
  <2>1. /\ row \in [active : BOOLEAN, status : Statuses, plan : Plans]
        /\ ~row.active /\ row.status = tenant.status
    OBVIOUS
  <2>2. /\ Write(row) /\ UNCHANGED <<trialOver, sweeping, copy, resolve, paidInTime>>
        /\ suspended' = TRUE /\ deleting' \subseteq Operators
    BY <1>1 DEF Suspend
  <2>3. tenant' = row
    BY <2>2 DEF Write
  <2> HIDE DEF row
  <2> QED
    BY <2>1, <2>2, <2>3, WriteKeepsInv
<1>2. ASSUME NEW p \in Plans, SetPlan(o, p) PROVE TenantInv'
  <2> DEFINE row == [tenant EXCEPT !.plan = p]
  <2>1. /\ row \in [active : BOOLEAN, status : Statuses, plan : Plans]
        /\ row.active = tenant.active /\ row.status = tenant.status
    OBVIOUS
  <2>2. /\ Write(row) /\ UNCHANGED <<trialOver, sweeping, copy, resolve, suspended, paidInTime>>
        /\ deleting' \subseteq Operators
    BY <1>2 DEF SetPlan
  <2>3. tenant' = row
    BY <2>2 DEF Write
  <2> HIDE DEF row
  <2> QED
    BY <2>1, <2>2, <2>3, WriteKeepsInv
<1>3. CASE DeleteCopy(o)
  BY <1>3 DEF DeleteCopy, RowIsNow, ReadsAreRecent, CopyIsRecent
<1> QED
  BY <1>1, <1>2, <1>3

LEMMA ResolverKeepsInv ==
    ASSUME TenantInv, NEW r \in Resolvers,
           NotCached(r) \/ SelectTenant(r) \/ CopyTenant(r) \/ ResolveFails(r)
    PROVE  TenantInv'
<1> USE LifecycleAssumption
    DEF TenantInv, TenantTypes, PaidIsSafe, RowIsNow, NoCopy, NoResolve, LongestUse
<1>1. CASE NotCached(r) \/ ResolveFails(r)
  BY <1>1 DEF NotCached, ResolveFails, ReadsAreRecent, CopyIsRecent
<1>2. CASE SelectTenant(r)
  BY <1>2 DEF SelectTenant, ReadsAreRecent, CopyIsRecent
<1>3. CASE CopyTenant(r)
  BY <1>3 DEF CopyTenant, ReadsAreRecent, CopyIsRecent
<1> QED
  BY <1>1, <1>2, <1>3

LEMMA TickKeepsInv ==
    ASSUME TenantInv, TenantTick
    PROVE  TenantInv'
<1> USE LifecycleAssumption
    DEF TenantInv, TenantTypes, TenantTick, PaidIsSafe, RowIsNow, NoCopy, NoResolve, LongestUse, Aged
<1>1. offFor' <= offFor + 1 /\ \A p \in Plans : planFor'[p] <= planFor[p] + 1
  OBVIOUS
<1>2. TenantTypes'
  OBVIOUS
<1>3. ReadsAreRecent'
  BY <1>1 DEF ReadsAreRecent
<1>4. CopyIsRecent'
  BY <1>1 DEF CopyIsRecent
<1> QED
  BY <1>2, <1>3, <1>4

LEMMA TenantStepKeepsInv == TenantInv /\ [TenantNext]_tenantVars => TenantInv'
<1> SUFFICES ASSUME TenantInv, [TenantNext]_tenantVars PROVE TenantInv'
  OBVIOUS
<1> USE DEF TenantInv, TenantTypes, PaidIsSafe, RowIsNow, ReadsAreRecent, CopyIsRecent
<1>1. CASE TrialEnds
  BY <1>1 DEF TrialEnds
<1>2. CASE UNCHANGED tenantVars
  BY <1>2 DEF tenantVars
<1> QED
  BY <1>1, <1>2, SweepKeepsInv, StripeKeepsInv, OperatorKeepsInv, ResolverKeepsInv, TickKeepsInv
  DEF TenantNext

\* Only an administrator locks out a tenant that paid before a sweep selected it, and
\* a stale copy serves no longer than its lifetime and one request
\* (enforceTrialExpiry, the Stripe webhook, resolveTenant).
THEOREM SuspensionIsJustified == TenantSpec => []SuspensionJustified
<1>1. TenantInv => SuspensionJustified
  BY LifecycleAssumption
  DEF TenantInv, TenantTypes, PaidIsSafe, CopyIsRecent, SuspensionJustified, PayersStay,
      ServedBriefly, NoCopy, LongestUse
<1> QED
  BY <1>1, TenantInitInv, TenantStepKeepsInv, PTL DEF TenantSpec

(***************************************************************************)
(* Messages between agents.                                                *)
(***************************************************************************)

\* A delivery that took the key of r, and one whose request was also found fresh.
Keyed(d, r) ==
    delivery[d].step \in {"fresh", "signature", "policy", "mcp"} /\ delivery[d].request = r
Live(d, r) ==
    delivery[d].step \in {"signature", "policy", "mcp"} /\ delivery[d].request = r

\* r is too old to be found fresh.
Over(r) == stamp[r] # Undated /\ clock > stamp[r] + Freshness

\* The key of r lives at least as long as r is fresh.
KeyCovers(r) ==
    replayKey[r] # 0 => stamp[r] \in 1..LastTime /\ replayKey[r] >= stamp[r] + Freshness

\* What went past the key took it.
KeyTaken(r) == (accepted[r] # 0 \/ \E d \in Deliveries : Keyed(d, r)) => replayKey[r] # 0

\* A second delivery past the key came after r was over; it is refused.
OneLive(r) ==
    \A d, e \in Deliveries :
        d # e /\ Keyed(d, r) /\ Keyed(e, r) => Over(r) /\ ~(Live(d, r) /\ Live(e, r))

\* So does one that comes after r was accepted.
AcceptedIsOver(r) ==
    accepted[r] # 0 => /\ accepted[r] = 1
                       /\ \A d \in Deliveries : Keyed(d, r) => Over(r) /\ ~Live(d, r)

RequestInv(r) == KeyCovers(r) /\ KeyTaken(r) /\ OneLive(r) /\ AcceptedIsOver(r)

PeerInv ==
    /\ PeerTypes
    /\ \A d \in Deliveries : delivery[d] # NoDelivery => stamp[delivery[d].request] # 0
    /\ \A r \in Requests : r \notin early => RequestInv(r)

USE PeerAssumption DEF NoDelivery, Undated

-----------------------------------------------------------------------------

LEMMA PeerInitInv == PeerInit => PeerInv
<1> SUFFICES ASSUME PeerInit PROVE PeerInv
  OBVIOUS
<1>1. PeerTypes
  <2>1. clock \in 1..LastTime
    BY DEF PeerInit
  <2>2. stamp \in [Requests -> {Undated} \cup 0..LastTime]
    BY DEF PeerInit
  <2>3. replayKey \in [Requests -> 0..(LastTime + KeyTTL)]
    BY DEF PeerInit
  <2>4. delivery \in [Deliveries -> {NoDelivery} \cup
          [step : {"key", "fresh", "signature", "policy", "mcp"}, request : Requests]]
    BY DEF PeerInit
  <2>5. accepted \in [Requests -> Nat]
    BY DEF PeerInit
  <2> QED
    BY <2>1, <2>2, <2>3, <2>4, <2>5 DEF PeerInit, PeerTypes
<1>2. \A r \in Requests : RequestInv(r)
  BY DEF PeerInit, RequestInv, KeyCovers, KeyTaken, OneLive, AcceptedIsOver, Keyed, Live
<1> QED
  BY <1>1, <1>2 DEF PeerInit, PeerInv

\* A step that starts no delivery, takes no key and accepts nothing.
LEMMA QuietKeepsRequest ==
    ASSUME PeerTypes, NEW r \in Requests, RequestInv(r),
           clock' \in Nat, clock' >= clock,
           stamp'[r] = stamp[r] \/ replayKey[r] = 0,
           UNCHANGED <<replayKey, accepted>>,
           \A d \in Deliveries : Keyed(d, r)' => Keyed(d, r),
           \A d \in Deliveries : Live(d, r)' => Live(d, r) \/ (Keyed(d, r) /\ ~Over(r)')
    PROVE  RequestInv(r)'
<1> USE DEF PeerTypes
<1>1. KeyCovers(r)' /\ KeyTaken(r)'
  BY DEF RequestInv, KeyCovers, KeyTaken
<1>2. ASSUME replayKey[r] = 0
      PROVE  RequestInv(r)'
  BY <1>1, <1>2 DEF RequestInv, KeyTaken, OneLive, AcceptedIsOver
<1>3. ASSUME replayKey[r] # 0
      PROVE  OneLive(r)' /\ AcceptedIsOver(r)'
  <2>1. Over(r) => Over(r)'
    BY <1>3 DEF Over, RequestInv, KeyCovers
  <2>2. OneLive(r)'
    BY <2>1 DEF RequestInv, OneLive
  <2>3. AcceptedIsOver(r)'
    BY <2>1 DEF RequestInv, AcceptedIsOver
  <2> QED
    BY <2>2, <2>3
<1> QED
  BY <1>1, <1>2, <1>3 DEF RequestInv

\* A delivery's step is one of its own: the others and their requests stay.
LEMMA MoveOf ==
    ASSUME PeerTypes, NEW d \in Deliveries, delivery[d] # NoDelivery,
           NEW step \in {"key", "fresh", "signature", "policy", "mcp"},
           Move(d, step) \/ Refuse(d)
    PROVE  /\ delivery' \in [Deliveries -> {NoDelivery} \cup
                 [step : {"key", "fresh", "signature", "policy", "mcp"}, request : Requests]]
           /\ \A e \in Deliveries : e # d => delivery'[e] = delivery[e]
           /\ \/ delivery'[d] = NoDelivery
              \/ delivery'[d].step = step /\ delivery'[d].request = delivery[d].request
           /\ delivery[d].request \in Requests
  BY DEF PeerTypes, Move, Refuse

LEMMA TakeKeyKeepsInv ==
    ASSUME PeerInv, NEW d \in Deliveries, TakeKey(d)
    PROVE  PeerInv'
<1> USE DEF PeerInv, PeerTypes
<1> DEFINE k == delivery[d].request
<1>1. delivery[d] # NoDelivery /\ delivery[d].step = "key" /\ k \in Requests
  BY DEF TakeKey, At
<1>2. UNCHANGED <<clock, stamp, peerActive, permitted, accepted>>
  BY DEF TakeKey
<1>3. CASE replayKey[k] >= clock
  <2>1. Refuse(d) /\ UNCHANGED <<replayKey, early>>
    BY <1>3 DEF TakeKey
  <2>2. PeerTypes' /\ \A e \in Deliveries : delivery'[e] # NoDelivery => delivery'[e] = delivery[e]
    BY <1>1, <1>2, <2>1, MoveOf DEF Refuse
  <2>3. ASSUME NEW r \in Requests, r \notin early PROVE RequestInv(r)'
    BY <1>2, <2>1, <2>2, <2>3, QuietKeepsRequest DEF Keyed, Live
  <2> QED
    BY <1>2, <2>1, <2>2, <2>3
<1>4. CASE ~(replayKey[k] >= clock)
  <2>1. /\ replayKey' = [replayKey EXCEPT ![k] = clock + KeyTTL]
        /\ early' = IF clock < stamp[k] \/ stamp[k] = Undated THEN early \cup {k} ELSE early
        /\ Move(d, "fresh")
    BY <1>4 DEF TakeKey
  <2>2. /\ PeerTypes'
        /\ \A e \in Deliveries : e # d => delivery'[e] = delivery[e]
        /\ delivery'[d].step = "fresh" /\ delivery'[d].request = k
    BY <1>1, <1>2, <2>1, MoveOf DEF Move
  <2>3. \A e \in Deliveries : delivery'[e] # NoDelivery => stamp'[delivery'[e].request] # 0
    BY <1>1, <1>2, <2>2
  <2>4. ASSUME NEW r \in Requests, r \notin early' PROVE RequestInv(r)'
    <3>1. r \notin early /\ RequestInv(r)
      BY <2>1, <2>4
    <3>2. CASE r # k
      BY <1>1, <1>2, <2>1, <2>2, <3>1, <3>2
      DEF RequestInv, KeyCovers, KeyTaken, OneLive, AcceptedIsOver, Keyed, Live, Over
    <3>3. CASE r = k
      <4>1. stamp[r] \in 1..LastTime /\ stamp[r] <= clock
        BY <1>1, <2>1, <2>4, <3>3
      <4>2. KeyCovers(r)'
        BY <1>2, <2>1, <3>3, <4>1 DEF KeyCovers
      <4>3. KeyTaken(r)'
        BY <2>1, <3>3 DEF KeyTaken
      <4>4. replayKey[r] # 0 => Over(r)'
        BY <1>1, <1>2, <1>4, <3>1, <3>3, <4>1 DEF RequestInv, KeyCovers, Over
      <4>5. \A e \in Deliveries : /\ e # d => (Keyed(e, r)' <=> Keyed(e, r)) /\ (Live(e, r)' <=> Live(e, r))
                                  /\ e = d => ~Live(e, r)'
        BY <2>2, <3>3 DEF Keyed, Live
      <4>6. OneLive(r)'
        <5>1. SUFFICES ASSUME NEW e \in Deliveries, NEW f \in Deliveries, e # f,
                              Keyed(e, r)', Keyed(f, r)'
                       PROVE  Over(r)' /\ ~(Live(e, r)' /\ Live(f, r)')
          BY <3>3 DEF OneLive
        <5>2. replayKey[r] # 0
          BY <3>1, <3>3, <4>5, <5>1 DEF RequestInv, KeyTaken
        <5>3. CASE e = d \/ f = d
          BY <4>4, <4>5, <5>2, <5>3
        <5>4. CASE e # d /\ f # d
          BY <3>1, <3>3, <4>4, <4>5, <5>1, <5>2, <5>4 DEF RequestInv, OneLive
        <5> QED
          BY <5>3, <5>4
      <4>7. AcceptedIsOver(r)'
        <5>1. SUFFICES ASSUME accepted[r] # 0
                       PROVE  /\ accepted[r] = 1
                              /\ \A e \in Deliveries : Keyed(e, r)' => Over(r)' /\ ~Live(e, r)'
          BY <1>2, <3>3 DEF AcceptedIsOver
        <5>2. replayKey[r] # 0
          BY <3>1, <3>3, <5>1 DEF RequestInv, KeyTaken
        <5> QED
          BY <3>1, <3>3, <4>4, <4>5, <5>1, <5>2 DEF RequestInv, AcceptedIsOver
      <4> QED
        BY <4>2, <4>3, <4>6, <4>7 DEF RequestInv
    <3> QED
      BY <3>2, <3>3
  <2> QED
    BY <2>2, <2>3, <2>4
<1> QED
  BY <1>3, <1>4

\* Between the key and /mcp a delivery moves on only while its request is not over.
LEMMA CheckKeepsInv ==
    ASSUME PeerInv, NEW d \in Deliveries,
           CheckFresh(d) \/ CheckSignature(d) \/ CheckMethod(d) \/ DeliveryFails(d)
    PROVE  PeerInv'
<1> USE DEF PeerInv, PeerTypes
<1>1. /\ delivery[d] # NoDelivery /\ delivery[d].request \in Requests
      /\ UNCHANGED <<clock, stamp, peerActive, permitted, replayKey, accepted, early>>
  BY DEF CheckFresh, CheckSignature, CheckMethod, DeliveryFails, At
<1>2. \/ Refuse(d)
      \/ delivery[d].step = "fresh" /\ Move(d, "signature") /\ Fresh(stamp[delivery[d].request])
      \/ delivery[d].step = "signature" /\ Move(d, "policy")
      \/ delivery[d].step = "policy" /\ Move(d, "mcp")
  BY DEF CheckFresh, CheckSignature, CheckMethod, DeliveryFails, At
<1>3. PeerTypes'
  BY <1>1, <1>2, MoveOf
<1>4. \A e \in Deliveries : e # d => delivery'[e] = delivery[e]
  BY <1>1, <1>2, MoveOf
<1>5. \/ delivery'[d] = NoDelivery
      \/ /\ delivery'[d].request = delivery[d].request
         /\ delivery[d].step \in {"fresh", "signature", "policy"}
         /\ delivery[d].step = "fresh" => Fresh(stamp[delivery[d].request])
  BY <1>1, <1>2, MoveOf
<1>6. ASSUME NEW r \in Requests, r \notin early PROVE RequestInv(r)'
  <2>1. \A e \in Deliveries : Keyed(e, r)' => Keyed(e, r)
    BY <1>4, <1>5 DEF Keyed
  <2>2. \A e \in Deliveries : Live(e, r)' => Live(e, r) \/ (Keyed(e, r) /\ ~Over(r)')
    BY <1>1, <1>4, <1>5 DEF Live, Keyed, Over, Fresh
  <2> QED
    BY <1>1, <1>6, <2>1, <2>2, QuietKeepsRequest
<1> QED
  BY <1>1, <1>3, <1>4, <1>5, <1>6

LEMMA CallMcpKeepsInv ==
    ASSUME PeerInv, NEW d \in Deliveries, CallMcp(d)
    PROVE  PeerInv'
<1> USE DEF PeerInv, PeerTypes
<1> DEFINE k == delivery[d].request
<1>1. /\ delivery[d] # NoDelivery /\ k \in Requests /\ Live(d, k) /\ Keyed(d, k)
      /\ accepted' = [accepted EXCEPT ![k] = @ + 1] /\ Refuse(d)
      /\ UNCHANGED <<clock, stamp, peerActive, permitted, replayKey, early>>
  BY DEF CallMcp, At, Live, Keyed
<1>2. /\ PeerTypes'
      /\ \A e \in Deliveries : e # d => delivery'[e] = delivery[e]
      /\ delivery'[d] = NoDelivery
  BY <1>1, MoveOf DEF Refuse
<1>3. ASSUME NEW r \in Requests, r \notin early PROVE RequestInv(r)'
  <2>1. RequestInv(r)
    BY <1>3
  <2>2. \A e \in Deliveries : /\ Keyed(e, r)' => Keyed(e, r) /\ e # d
                              /\ Live(e, r)' => Live(e, r) /\ e # d
    BY <1>2 DEF Keyed, Live
  <2>3. KeyCovers(r)' /\ KeyTaken(r)'
    BY <1>1, <2>1, <2>2 DEF RequestInv, KeyCovers, KeyTaken
  <2>4. OneLive(r)'
    BY <1>1, <2>1, <2>2 DEF RequestInv, OneLive, Over
  <2>5. CASE r # k
    BY <1>1, <2>1, <2>2, <2>3, <2>4, <2>5 DEF RequestInv, AcceptedIsOver, Over
  <2>6. CASE r = k
    <3>1. accepted'[r] = 1
      BY <1>1, <2>1, <2>6 DEF RequestInv, AcceptedIsOver
    <3>2. \A e \in Deliveries : Keyed(e, r)' => Over(r)' /\ ~Live(e, r)'
      BY <1>1, <2>1, <2>2, <2>6 DEF RequestInv, OneLive, Over
    <3> QED
      BY <2>3, <2>4, <3>1, <3>2 DEF RequestInv, AcceptedIsOver
  <2> QED
    BY <2>5, <2>6
<1> QED
  BY <1>1, <1>2, <1>3

\* Steps of the network, the registrations and the clock.
LEMMA OutsideKeepsInv ==
    ASSUME PeerInv,
           \/ \E r \in Requests, s \in {Undated} \cup 1..LastTime : SendRequest(r, s)
           \/ \E t \in Tenants : RegisterPeer(t) \/ RemovePeer(t)
           \/ \E d \in Deliveries, r \in Requests : CheckPeer(d, r)
           \/ ClockTick
           \/ UNCHANGED peerVars
    PROVE  PeerInv'
<1> USE DEF PeerInv, PeerTypes
<1>1. PeerTypes' /\ UNCHANGED <<replayKey, accepted, early>> /\ clock' >= clock
  BY DEF SendRequest, RegisterPeer, RemovePeer, CheckPeer, ClockTick, peerVars
<1>2. /\ \A r \in Requests : stamp'[r] = stamp[r] \/ stamp[r] = 0
      /\ \A e \in Deliveries : delivery'[e] # NoDelivery => stamp'[delivery'[e].request] # 0
  BY DEF SendRequest, RegisterPeer, RemovePeer, CheckPeer, ClockTick, peerVars
<1>3. ASSUME NEW r \in Requests, r \notin early PROVE RequestInv(r)'
  <2>1. \A e \in Deliveries : (Keyed(e, r)' => Keyed(e, r)) /\ (Live(e, r)' => Live(e, r))
    BY DEF SendRequest, RegisterPeer, RemovePeer, CheckPeer, ClockTick, peerVars, Keyed, Live
  <2>2. stamp'[r] = stamp[r] \/ replayKey[r] = 0
    BY <1>2, <1>3 DEF RequestInv, KeyCovers
  <2> QED
    BY <1>1, <1>3, <2>1, <2>2, QuietKeepsRequest
<1> QED
  BY <1>1, <1>2, <1>3

LEMMA PeerStepKeepsInv == PeerInv /\ [PeerNext]_peerVars => PeerInv'
  BY OutsideKeepsInv, TakeKeyKeepsInv, CheckKeepsInv, CallMcpKeepsInv
  DEF PeerNext, DeliveryStep

\* However often the network delivers a request, it reaches /mcp once, unless the
\* peer's clock was ahead or the request had no date (verifyA2ARequest).
THEOREM RequestsAreAcceptedOnce == PeerSpec => []AcceptedOnce
<1>1. PeerInv => AcceptedOnce
  BY DEF PeerInv, PeerTypes, AcceptedOnce, RequestInv, AcceptedIsOver
<1> QED
  BY <1>1, PeerInitInv, PeerStepKeepsInv, PTL DEF PeerSpec

HIDE PeerAssumption DEF NoDelivery, Undated

(***************************************************************************)
(* The IP allowlist.                                                       *)
(***************************************************************************)

\* A power of two is positive: it counts the subsets of a set.
LEMMA PowerPositive == ASSUME NEW k \in Nat PROVE 2^k \in Nat /\ 2^k > 0
<1> DEFINE S == 1..k
<1>1. IsFiniteSet(S) /\ Cardinality(S) = k
  BY FS_Interval
<1>2. IsFiniteSet(SUBSET S) /\ Cardinality(SUBSET S) = 2^k
  BY <1>1, FS_SUBSET
<1>3. SUBSET S # {}
  OBVIOUS
<1>4. Cardinality(SUBSET S) \in Nat /\ Cardinality(SUBSET S) # 0
  BY <1>2, <1>3, FS_CardinalityType, FS_EmptySet
<1> QED
  BY <1>2, <1>4

\* Dropping the remainder compares like the quotient.
LEMMA QuotientOf ==
    ASSUME NEW a \in Nat, NEW p \in Nat, p > 0
    PROVE  /\ a \div p \in Nat /\ a % p \in 0..(p - 1)
           /\ a - (a % p) = p * (a \div p)
  OBVIOUS

LEMMA MultiplesDiffer ==
    ASSUME NEW p \in Nat, p > 0, NEW m \in Nat, NEW n \in Nat, p * m = p * n
    PROVE  m = n
  OBVIOUS

LEMMA SameQuotient ==
    ASSUME NEW a \in Nat, NEW b \in Nat, NEW p \in Nat, p > 0
    PROVE  a - (a % p) = b - (b % p) <=> a \div p = b \div p
  BY QuotientOf, MultiplesDiffer

\* What the code's mask matches: with bits to compare, what CIDR notation means;
\* of /0, the one address that is the range itself.
LEMMA MatchMeans ==
    ASSUME NEW e \in Entries, NEW a \in Addresses
    PROVE  /\ InCidr(a, e) => Covers(e, a)
           /\ e.bits # 0 /\ Covers(e, a) => InCidr(a, e)
<1>1. Width \in Nat /\ Width > 0
  BY AllowlistAssumption
<1>2. 2^Width \in Nat /\ 2^Width > 0
  BY <1>1, PowerPositive
<1>3. /\ e.range \in 0..(2^Width - 1) /\ e.bits \in 0..Width
  BY AllowlistAssumption
<1>4. a \in Nat /\ e.range \in Nat /\ a < 2^Width /\ e.range < 2^Width
  BY <1>2, <1>3 DEF Addresses
<1>5. CASE e.bits # 0
  <2> DEFINE k == Width - e.bits
  <2>1. k \in Nat /\ Shift(e.bits) = k
    BY <1>1, <1>3, <1>5 DEF Shift
  <2>2. 2^k \in Nat /\ 2^k > 0
    BY <2>1, PowerPositive
  <2> HIDE DEF k
  <2>3. InCidr(a, e) <=> a - (a % 2^k) = e.range - (e.range % 2^k)
    BY <2>1 DEF InCidr, Masked
  <2>4. Covers(e, a) <=> a \div 2^k = e.range \div 2^k
    BY DEF Covers, k
  <2> QED
    BY <1>4, <2>2, <2>3, <2>4, SameQuotient
<1>6. CASE e.bits = 0
  <2>1. Shift(e.bits) = 0
    BY <1>1, <1>6 DEF Shift
  <2>2. 2^0 = 1
    OBVIOUS
  <2>3. Masked(a, e.bits) = a /\ Masked(e.range, e.bits) = e.range
    BY <1>4, <2>1, <2>2 DEF Masked
  <2>4. InCidr(a, e) => a = e.range
    BY <2>3 DEF InCidr
  <2> QED
    BY <1>6, <2>4 DEF Covers
<1> QED
  BY <1>5, <1>6

\* So what the code lets pass the entries let in, and what it refuses they keep out.
LEMMA AnswerMeans ==
    ASSUME NEW E \in SUBSET Entries, NEW a \in Addresses
    PROVE  /\ Passes(a, E) => Opens(E, a)
           /\ ~Passes(a, E) => Closes(E, a)
  BY MatchMeans DEF Passes, Opens, Closes

-----------------------------------------------------------------------------
(* Lists age no faster than the addresses' histories.                      *)

\* The answer list gives of a was right at most n ticks ago.
AnswerAge(list, a, n) == IF Passes(a, list) THEN opened[a] <= n ELSE closed[a] <= n

\* The same of the histories after a step.
AgeNext(list, a, n) == IF Passes(a, list) THEN opened'[a] <= n ELSE closed'[a] <= n

EntriesAreNow ==
    \A a \in Addresses :
        /\ Opens(Listed, a) => opened[a] = 0
        /\ Closes(Listed, a) => closed[a] = 0
ReadsAge ==
    \A h \in Lookups : lookup[h].step = "cache" =>
        \A a \in Addresses : AnswerAge(lookup[h].list, a, lookup[h].age)
CacheAges ==
    listCache # NoList =>
        \A a \in Addresses :
            AnswerAge(listCache.list, a, MaxDelay + CacheTTL - listCache.ttl)

IpInv == IpTypes /\ EntriesAreNow /\ ReadsAge /\ CacheAges /\ CacheFollowsEntries

CachedLists == [ttl : 1..CacheTTL, list : SUBSET Entries, late : BOOLEAN]
ReadLists   == [step : {"cache"}, list : SUBSET Entries, age : 0..MaxDelay]

LEMMA AllowlistNumbers ==
    /\ CacheTTL \in Nat /\ CacheTTL >= 1 /\ MaxDelay \in Nat
    /\ Stalest = CacheTTL + MaxDelay /\ Stalest \in Nat
<1>1. CacheTTL \in Nat /\ CacheTTL # 0 /\ MaxDelay \in Nat
  BY AllowlistAssumption
<1> QED
  BY <1>1 DEF Stalest

LEMMA IpInitInv == IpInit => IpInv
<1> SUFFICES ASSUME IpInit PROVE IpInv
  OBVIOUS
<1>1. Listed = {}
  BY DEF IpInit, Listed
<1>2. EntriesAreNow
  BY <1>1 DEF IpInit, EntriesAreNow, Closes
<1>3. IpTypes
  <2>1. 0 \in 0..(Stalest + 1) /\ Stalest + 1 \in 0..(Stalest + 1)
    BY AllowlistNumbers
  <2> QED
    BY <2>1 DEF IpInit, IpTypes
<1>4. ReadsAge /\ CacheAges /\ CacheFollowsEntries
  BY DEF IpInit, ReadsAge, CacheAges, CacheFollowsEntries, NoLookup
<1> QED
  BY <1>2, <1>3, <1>4 DEF IpInv

\* What a lookup that read a list holds.
LEMMA ReadList ==
    ASSUME IpTypes, NEW h \in Lookups, lookup[h].step = "cache"
    PROVE  lookup[h] \in ReadLists
  BY DEF IpTypes, ReadLists, NoLookup

LEMMA CachedList ==
    ASSUME IpTypes, listCache # NoList
    PROVE  listCache \in CachedLists
  BY DEF IpTypes, CachedLists

\* A lookup reads the list that is active now, forgets it, or misses the cache.
LEMMA LookupKeepsInv ==
    ASSUME IpInv, NEW h \in Lookups, Miss(h) \/ SelectList(h) \/ LookupFails(h)
    PROVE  IpInv'
<1>1. UNCHANGED <<entry, listCache, changing, dropped, opened, closed>>
  BY DEF Miss, SelectList, LookupFails
<1> DEFINE read == [step |-> "cache", list |-> Listed, age |-> 0]
<1>2. Listed \in SUBSET Entries
  BY DEF Listed
<1>3. PICK b \in {NoLookup, [step |-> "select"], read} : lookup' = [lookup EXCEPT ![h] = b]
  BY DEF Miss, SelectList, LookupFails
<1>4. read \in ReadLists
  BY <1>2, AllowlistNumbers DEF ReadLists
<1>5. b.step = "cache" => b = read
  BY <1>3 DEF NoLookup
<1>6. b \in {NoLookup} \cup [step : {"select"}] \cup ReadLists
  BY <1>3, <1>4
<1> HIDE DEF read
<1>7. IpTypes'
  BY <1>1, <1>3, <1>6 DEF IpInv, IpTypes, ReadLists
<1>8. Listed' = Listed
  BY <1>1 DEF Listed
<1>9. EntriesAreNow' /\ CacheAges' /\ CacheFollowsEntries'
  BY <1>1, <1>8 DEF IpInv, EntriesAreNow, CacheAges, CacheFollowsEntries, AnswerAge
<1>10. ASSUME NEW a \in Addresses
       PROVE  AnswerAge(Listed, a, 0)
  BY <1>2, AnswerMeans DEF IpInv, EntriesAreNow, AnswerAge
<1>11. ReadsAge'
  <2> SUFFICES ASSUME NEW g \in Lookups, lookup'[g].step = "cache", NEW a \in Addresses
               PROVE  AnswerAge(lookup'[g].list, a, lookup'[g].age)
    BY <1>1 DEF ReadsAge, AnswerAge
  <2>1. CASE g = h
    <3>1. lookup'[g] = read
      BY <1>3, <1>5, <2>1 DEF IpInv, IpTypes
    <3>2. lookup'[g].list = Listed /\ lookup'[g].age = 0
      BY <3>1 DEF read
    <3> QED
      BY <1>10, <3>2
  <2>2. CASE g # h
    <3>1. lookup'[g] = lookup[g]
      BY <1>3, <2>2 DEF IpInv, IpTypes
    <3> QED
      BY <3>1 DEF IpInv, ReadsAge
  <2> QED
    BY <2>1, <2>2
<1> QED
  BY <1>7, <1>9, <1>11 DEF IpInv

\* A list read at most MaxDelay ticks ago is cached for CacheTTL more.
LEMMA FillKeepsInv ==
    ASSUME IpInv, NEW h \in Lookups, Fill(h)
    PROVE  IpInv'
<1>1. UNCHANGED <<entry, changing, dropped, opened, closed>>
      /\ lookup[h].step = "cache"
      /\ lookup' = [lookup EXCEPT ![h] = NoLookup]
  BY DEF Fill
<1>2. lookup[h] \in ReadLists
  BY <1>1, ReadList DEF IpInv
<1>3. PICK late \in BOOLEAN :
         /\ late <=> lookup[h].list # Listed
         /\ listCache' = [ttl |-> CacheTTL, list |-> lookup[h].list, late |-> late]
  BY DEF Fill
<1> DEFINE c == [ttl |-> CacheTTL, list |-> lookup[h].list, late |-> late]
<1>4. lookup[h].list \in SUBSET Entries /\ lookup[h].age \in 0..MaxDelay
  BY <1>2 DEF ReadLists
<1>5. c \in CachedLists
  BY <1>4, AllowlistNumbers DEF CachedLists
<1>6. IpTypes'
  <2>1. listCache' \in {NoList} \cup CachedLists
    BY <1>3, <1>5
  <2>2. lookup' \in [Lookups -> {NoLookup} \cup [step : {"select"}] \cup ReadLists]
    BY <1>1 DEF IpInv, IpTypes, ReadLists
  <2> QED
    BY <1>1, <2>1, <2>2 DEF IpInv, IpTypes, CachedLists, ReadLists
<1>7. EntriesAreNow' /\ Listed' = Listed
  BY <1>1 DEF IpInv, EntriesAreNow, Listed
<1>8. ReadsAge'
  <2>1. \A g \in Lookups : lookup'[g] = lookup[g] \/ lookup'[g] = NoLookup
    BY <1>1 DEF IpInv, IpTypes
  <2>2. NoLookup.step # "cache"
    BY DEF NoLookup
  <2> QED
    BY <1>1, <2>1, <2>2 DEF IpInv, ReadsAge, AnswerAge
<1>9. CacheAges'
  <2> SUFFICES ASSUME NEW a \in Addresses
               PROVE  AnswerAge(lookup[h].list, a, MaxDelay + CacheTTL - CacheTTL)
    BY <1>1, <1>3 DEF CacheAges, AnswerAge
  <2>1. AnswerAge(lookup[h].list, a, lookup[h].age)
    BY <1>1 DEF IpInv, ReadsAge
  <2>2. opened[a] \in Nat /\ closed[a] \in Nat
    BY AllowlistNumbers DEF IpInv, IpTypes
  <2>3. lookup[h].age <= MaxDelay + CacheTTL - CacheTTL /\ lookup[h].age \in Nat
    BY <1>4, AllowlistNumbers
  <2> QED
    BY <2>1, <2>2, <2>3, AllowlistNumbers DEF AnswerAge
<1>10. CacheFollowsEntries'
  BY <1>1, <1>3, <1>7, Zenon DEF CacheFollowsEntries
<1> QED
  BY <1>6, <1>7, <1>8, <1>9, <1>10 DEF IpInv

\* A change restarts the histories of what the entries now let in and keep out.
LEMMA ChangeKeepsInv ==
    ASSUME IpInv, NEW m \in Admins, NEW e \in Entries, AddEntry(m, e) \/ RemoveEntry(m, e)
    PROVE  IpInv'
<1>1. UNCHANGED <<listCache, lookup, dropped>> /\ changing' = changing \cup {m}
  BY DEF AddEntry, RemoveEntry
<1>2. PICK s \in {"active", "removed"} : SetEntry(e, s)
  BY DEF AddEntry, RemoveEntry
<1>3. entry' = [entry EXCEPT ![e] = s]
  BY <1>2 DEF SetEntry
<1>4. Listed' = {d \in Entries : IF d = e THEN s = "active" ELSE entry[d] = "active"}
  BY <1>3 DEF IpInv, IpTypes, Listed
<1>5. /\ opened' = [a \in Addresses |-> IF Opens(Listed', a) THEN 0 ELSE opened[a]]
      /\ closed' = [a \in Addresses |-> IF Closes(Listed', a) THEN 0 ELSE closed[a]]
  BY <1>2, <1>4 DEF SetEntry
<1>6. opened \in [Addresses -> 0..(Stalest + 1)] /\ closed \in [Addresses -> 0..(Stalest + 1)]
  BY DEF IpInv, IpTypes
<1>7. /\ opened' \in [Addresses -> 0..(Stalest + 1)] /\ closed' \in [Addresses -> 0..(Stalest + 1)]
      /\ \A a \in Addresses : opened'[a] <= opened[a] /\ closed'[a] <= closed[a]
  BY <1>5, <1>6, AllowlistNumbers
<1>8. IpTypes'
  BY <1>1, <1>3, <1>7 DEF IpInv, IpTypes
<1>9. EntriesAreNow'
  BY <1>5 DEF EntriesAreNow, Opens, Closes
<1>10. ASSUME NEW E, NEW a \in Addresses, NEW n \in Nat, AnswerAge(E, a, n)
       PROVE  AgeNext(E, a, n)
  BY <1>6, <1>7, <1>10, AllowlistNumbers DEF AnswerAge, AgeNext
<1>11. ReadsAge'
  <2> SUFFICES ASSUME NEW h \in Lookups, lookup[h].step = "cache", NEW a \in Addresses
               PROVE  AgeNext(lookup[h].list, a, lookup[h].age)
    BY <1>1 DEF ReadsAge, AnswerAge, AgeNext
  <2>1. lookup[h].age \in Nat
    BY ReadList, AllowlistNumbers DEF IpInv, ReadLists
  <2> QED
    BY <1>1, <1>10, <2>1 DEF IpInv, ReadsAge
<1>12. CacheAges'
  <2> SUFFICES ASSUME listCache # NoList, NEW a \in Addresses
               PROVE  AgeNext(listCache.list, a, MaxDelay + CacheTTL - listCache.ttl)
    BY <1>1 DEF CacheAges, AnswerAge, AgeNext
  <2>1. MaxDelay + CacheTTL - listCache.ttl \in Nat
    BY CachedList, AllowlistNumbers DEF IpInv, CachedLists
  <2> QED
    BY <1>1, <1>10, <2>1 DEF IpInv, CacheAges
<1>13. CacheFollowsEntries'
  BY <1>1 DEF CacheFollowsEntries
<1> QED
  BY <1>8, <1>9, <1>11, <1>12, <1>13 DEF IpInv

\* redis.del, or its loss, which the history remembers while a list is cached.
LEMMA ClearKeepsInv ==
    ASSUME IpInv, NEW m \in Admins, ClearList(m) \/ ClearLost(m)
    PROVE  IpInv'
<1>1. /\ UNCHANGED <<entry, lookup, opened, closed>> /\ changing' \subseteq changing
      /\ listCache' = NoList \/ listCache' = listCache
      /\ dropped' \in BOOLEAN
  BY DEF ClearList, ClearLost
<1>2. IpTypes'
  BY <1>1 DEF IpInv, IpTypes
<1>3. Listed' = Listed
  BY <1>1 DEF Listed
<1>4. EntriesAreNow' /\ ReadsAge' /\ CacheAges'
  BY <1>1, <1>3 DEF IpInv, EntriesAreNow, ReadsAge, CacheAges, AnswerAge
<1>5. CacheFollowsEntries'
  <2>1. CASE ClearList(m)
    BY <2>1 DEF ClearList, CacheFollowsEntries
  <2>2. CASE ClearLost(m)
    <3>1. dropped' = (listCache # NoList) /\ listCache' = listCache
      BY <2>2 DEF ClearLost
    <3> QED
      BY <3>1, Zenon DEF CacheFollowsEntries
  <2> QED
    BY <2>1, <2>2
<1> QED
  BY <1>2, <1>4, <1>5 DEF IpInv

\* A tick: histories, lists read and the cached one all grow older by one.
LEMMA TickKeepsIpInv ==
    ASSUME IpInv, IpTick
    PROVE  IpInv'
<1>1. /\ UNCHANGED <<entry, changing>>
      /\ Listed' = Listed
      /\ opened' = [a \in Addresses |-> IF Opens(Listed, a) THEN 0 ELSE Older(opened[a])]
      /\ closed' = [a \in Addresses |-> IF Closes(Listed, a) THEN 0 ELSE Older(closed[a])]
  BY DEF IpTick, Listed
<1>2. opened \in [Addresses -> 0..(Stalest + 1)] /\ closed \in [Addresses -> 0..(Stalest + 1)]
  BY DEF IpInv, IpTypes
<1>3. \A n \in 0..(Stalest + 1) : Older(n) \in 0..(Stalest + 1) /\ Older(n) <= n + 1
  BY AllowlistNumbers DEF Older
<1>4. /\ opened' \in [Addresses -> 0..(Stalest + 1)] /\ closed' \in [Addresses -> 0..(Stalest + 1)]
      /\ \A a \in Addresses : opened'[a] <= opened[a] + 1 /\ closed'[a] <= closed[a] + 1
  BY <1>1, <1>2, <1>3, AllowlistNumbers
<1>5. EntriesAreNow'
  BY <1>1 DEF EntriesAreNow, Opens, Closes
<1>6. ASSUME NEW E, NEW a \in Addresses, NEW n \in Nat, AnswerAge(E, a, n)
      PROVE  AgeNext(E, a, n + 1)
  BY <1>2, <1>4, <1>6, AllowlistNumbers DEF AnswerAge, AgeNext
<1>7. ASSUME NEW h \in Lookups
      PROVE  \/ lookup[h].step # "cache" /\ lookup'[h] = lookup[h]
             \/ /\ lookup[h] \in ReadLists /\ lookup'[h] \in ReadLists
                /\ lookup'[h].list = lookup[h].list
                /\ lookup'[h].age = lookup[h].age + 1
  <2>1. CASE lookup[h].step # "cache"
    BY <2>1 DEF IpTick
  <2>2. CASE lookup[h].step = "cache"
    <3>1. lookup[h] \in ReadLists /\ lookup[h].age < MaxDelay
      BY <2>2, ReadList DEF IpInv, IpTick
    <3>2. lookup'[h] = [lookup[h] EXCEPT !.age = @ + 1]
      BY <2>2 DEF IpTick
    <3>3. lookup[h].age + 1 \in 0..MaxDelay
      BY <3>1, AllowlistNumbers DEF ReadLists
    <3> QED
      BY <3>1, <3>2, <3>3 DEF ReadLists
  <2> QED
    BY <2>1, <2>2
<1>8. ReadsAge'
  <2> SUFFICES ASSUME NEW h \in Lookups, lookup'[h].step = "cache", NEW a \in Addresses
               PROVE  AgeNext(lookup'[h].list, a, lookup'[h].age)
    BY DEF ReadsAge, AnswerAge, AgeNext
  <2>1. /\ lookup[h] \in ReadLists
        /\ lookup'[h].list = lookup[h].list /\ lookup'[h].age = lookup[h].age + 1
    BY <1>7
  <2>2. lookup[h].age \in Nat /\ lookup[h].step = "cache"
    BY <2>1, AllowlistNumbers DEF ReadLists
  <2> QED
    BY <1>6, <2>1, <2>2 DEF IpInv, ReadsAge
<1>9. listCache' # NoList =>
          /\ listCache # NoList /\ listCache.ttl > 1
          /\ listCache' = [listCache EXCEPT !.ttl = @ - 1]
          /\ listCache' \in CachedLists
          /\ listCache'.ttl = listCache.ttl - 1 /\ listCache'.list = listCache.list
          /\ listCache.ttl \in 1..CacheTTL
  <2> SUFFICES ASSUME listCache' # NoList
               PROVE  /\ listCache # NoList /\ listCache.ttl > 1
                      /\ listCache' = [listCache EXCEPT !.ttl = @ - 1]
                      /\ listCache' \in CachedLists
                      /\ listCache'.ttl = listCache.ttl - 1 /\ listCache'.list = listCache.list
                      /\ listCache.ttl \in 1..CacheTTL
    OBVIOUS
  <2>1. ~(listCache.ttl <= 1) /\ listCache' = [listCache EXCEPT !.ttl = @ - 1]
    BY DEF IpTick
  <2>2. listCache # NoList
    BY <2>1 DEF NoList
  <2>3. listCache \in CachedLists
    BY <2>2, CachedList DEF IpInv
  <2>4. listCache.ttl \in 1..CacheTTL
    BY <2>3 DEF CachedLists
  <2>5. listCache.ttl - 1 \in 1..CacheTTL /\ listCache.ttl > 1
    BY <2>1, <2>4, AllowlistNumbers
  <2> QED
    BY <2>1, <2>2, <2>3, <2>4, <2>5 DEF CachedLists
<1>10. CacheAges'
  <2> SUFFICES ASSUME listCache' # NoList, NEW a \in Addresses
               PROVE  AgeNext(listCache'.list, a, MaxDelay + CacheTTL - listCache'.ttl)
    BY DEF CacheAges, AnswerAge, AgeNext
  <2>1. AnswerAge(listCache.list, a, MaxDelay + CacheTTL - listCache.ttl)
    BY <1>9 DEF IpInv, CacheAges
  <2>2. /\ MaxDelay + CacheTTL - listCache.ttl \in Nat
        /\ MaxDelay + CacheTTL - listCache'.ttl = MaxDelay + CacheTTL - listCache.ttl + 1
    BY <1>9, AllowlistNumbers
  <2> QED
    BY <1>6, <1>9, <2>1, <2>2
<1>11. CacheFollowsEntries'
  <2> SUFFICES ASSUME listCache' # NoList, listCache'.list # Listed
               PROVE  changing # {} \/ dropped' \/ listCache'.late
    BY <1>1 DEF CacheFollowsEntries
  <2>1. changing # {} \/ dropped \/ listCache.late
    BY <1>9 DEF IpInv, CacheFollowsEntries
  <2>2. dropped => dropped'
    BY <1>9 DEF IpTick
  <2>3. listCache'.late = listCache.late
    <3>1. listCache \in CachedLists /\ listCache' = [listCache EXCEPT !.ttl = @ - 1]
      BY <1>9, CachedList DEF IpInv
    <3> QED
      BY <3>1 DEF CachedLists
  <2> QED
    BY <2>1, <2>2, <2>3, Zenon
<1>12. IpTypes'
  <2>1. lookup' \in [Lookups -> {NoLookup} \cup [step : {"select"}] \cup ReadLists]
    <3>1. lookup' = [h \in Lookups |-> lookup'[h]]
      BY DEF IpTick
    <3>2. \A h \in Lookups : lookup'[h] \in {NoLookup} \cup [step : {"select"}] \cup ReadLists
      BY <1>7 DEF IpInv, IpTypes, ReadLists
    <3> QED
      BY <3>1, <3>2
  <2>2. listCache' \in {NoList} \cup CachedLists
    BY <1>9
  <2>3. dropped' \in BOOLEAN
    BY DEF IpTick
  <2> QED
    BY <1>1, <1>4, <2>1, <2>2, <2>3 DEF IpInv, IpTypes, ReadLists, CachedLists
<1> QED
  BY <1>5, <1>8, <1>10, <1>11, <1>12 DEF IpInv

LEMMA IpStepKeepsInv == IpInv /\ [IpNext]_ipVars => IpInv'
<1> SUFFICES ASSUME IpInv, [IpNext]_ipVars PROVE IpInv'
  OBVIOUS
<1>1. ASSUME UNCHANGED ipVars
      PROVE  IpInv'
  <2>1. Listed' = Listed
    BY <1>1 DEF ipVars, Listed
  <2> QED
    BY <1>1, <2>1 DEF ipVars, IpInv, IpTypes, EntriesAreNow, ReadsAge, CacheAges, AnswerAge,
       CacheFollowsEntries
<1> QED
  BY <1>1, LookupKeepsInv, FillKeepsInv, ChangeKeepsInv, ClearKeepsInv, TickKeepsIpInv DEF IpNext

\* security/ip-allowlist.ts: an address is admitted or refused as the entries, read
\* as CIDR notation, said within the cache's lifetime and a lookup's delay, and the
\* cache strays from the entries only for a reason that is known.
THEOREM AllowlistIsFollowed == IpSpec => []AllowlistFollowed
<1>1. IpInv => AllowlistFollowed
  <2> SUFFICES ASSUME IpInv PROVE AllowlistFollowed
    OBVIOUS
  <2>1. ASSUME NEW E, NEW a \in Addresses, NEW n \in 0..Stalest, AnswerAge(E, a, n)
        PROVE  Judged(E, a)
    BY <2>1, AllowlistNumbers DEF IpInv, IpTypes, AnswerAge, Judged
  <2>2. ASSUME NEW h \in Lookups, lookup[h].step = "cache"
        PROVE  lookup[h].age \in 0..Stalest
    BY <2>2, ReadList, AllowlistNumbers DEF IpInv, ReadLists
  <2>3. listCache # NoList => MaxDelay + CacheTTL - listCache.ttl \in 0..Stalest
    BY CachedList, AllowlistNumbers DEF IpInv, CachedLists
  <2>4. AnswersFollowEntries
    BY <2>1, <2>2, <2>3 DEF IpInv, ReadsAge, CacheAges, AnswersFollowEntries
  <2> QED
    BY <2>4 DEF IpInv, AllowlistFollowed
<1> QED
  BY <1>1, IpInitInv, IpStepKeepsInv, PTL DEF IpSpec

-----------------------------------------------------------------------------
(* Side by side.                                                           *)

\* Whichever service moves, each of them behaves as its own module says, so what is
\* proved of a service alone holds of all of them together.
THEOREM ServicesAreTheirOwn ==
    ServicesSpec => /\ TenantSpec /\ BillSpec /\ PlanSpec /\ SpendSpec
                    /\ PeerSpec /\ IpSpec /\ RuntimeSpec
<1>1. ServicesInit => /\ TenantInit /\ BillInit /\ PlanInit /\ SpendInit
                      /\ PeerInit /\ IpInit /\ RuntimeInit
  BY DEF ServicesInit
<1>2. [ServicesNext]_servicesVars =>
          /\ [TenantNext]_tenantVars /\ [BillNext]_billVars /\ [PlanNext]_planVars
          /\ [SpendNext]_spendVars /\ [PeerNext]_peerVars /\ [IpNext]_ipVars
          /\ [RuntimeNext]_runtimeVars
  BY DEF ServicesNext, servicesVars
<1> QED
  BY <1>1, <1>2, PTL
  DEF ServicesSpec, TenantSpec, BillSpec, PlanSpec, SpendSpec, PeerSpec, IpSpec, RuntimeSpec

\* The types of the services' modules are part of what was proved inductive of each,
\* so all of them hold however the services are interleaved.
THEOREM ServicesAreTyped == ServicesSpec => []ServiceTypes
<1>1. ApprovalInv /\ RunInv => RuntimeTypes
  BY DEF ApprovalInv, ApprovalTypes, RunInv, RunTypes, RuntimeTypes
<1>2. /\ TenantInv => TenantTypes
      /\ BillInv => BillTypes
      /\ PlanInv => PlanTypes
      /\ SpendInv => SpendTypes
      /\ PeerInv => PeerTypes
      /\ IpInv => IpTypes
  BY DEF TenantInv, BillInv, PlanInv, SpendInv, PeerInv, IpInv
<1>3. /\ TenantSpec => []TenantInv
      /\ BillSpec => []BillInv
      /\ PlanSpec => []PlanInv
  BY TenantInitInv, TenantStepKeepsInv, BillInitInv, BillStepKeepsInv,
     PlanInitInv, PlanStepKeepsInv, PTL
  DEF TenantSpec, BillSpec, PlanSpec
<1>4. /\ SpendSpec => []SpendInv
      /\ PeerSpec => []PeerInv
      /\ IpSpec => []IpInv
  BY SpendInitInv, SpendStepKeepsInv, PeerInitInv, PeerStepKeepsInv,
     IpInitInv, IpStepKeepsInv, PTL
  DEF SpendSpec, PeerSpec, IpSpec
<1>5. RuntimeSpec => [](ApprovalInv /\ RunInv)
  BY RuntimeInitInv, RuntimeStepKeepsApprovals, RuntimeStepKeepsRuns, PTL DEF RuntimeSpec
<1>6. (TenantTypes /\ BillTypes /\ PlanTypes /\ SpendTypes
        /\ PeerTypes /\ IpTypes /\ RuntimeTypes) => ServiceTypes
  BY DEF ServiceTypes
<1> QED
  BY <1>1, <1>2, <1>3, <1>4, <1>5, <1>6, ServicesAreTheirOwn, PTL

\* However the services are interleaved, each keeps what its module promises: this
\* is the specification that the runs check.
THEOREM ServicesKeepPromises ==
    ServicesSpec =>
        [](/\ SuspensionJustified /\ ChargesAccounted /\ OvershootBounded
           /\ DailySpendBounded /\ AcceptedOnce /\ AllowlistFollowed
           /\ VerdictsAccounted /\ RunsAreHonest)
  BY ServicesAreTheirOwn, SuspensionIsJustified, ChargesAreAccounted, OvershootIsBounded,
     DailySpendIsBounded, RequestsAreAcceptedOnce, AllowlistIsFollowed,
     VerdictsAreAccounted, RunsStayHonest, PTL
=============================================================================
