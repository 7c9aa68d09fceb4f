---------------------------- MODULE HitlApproval ----------------------------
(***************************************************************************)
(* Human-in-the-loop approvals of the TypeScript gateway: hitl/approval.ts *)
(* (create, poll, approve, deny), hitl/timeout-cron.ts (the 60 s sweep),   *)
(* the Slack button handler of features/f13-f20-features.ts and the admin  *)
(* decide route of admin/admin.ts.                                         *)
(*                                                                         *)
(* An approval lives in two stores: a Redis entry for fast polling and the *)
(* hitl_approvals row.  A handler awaits between any two accesses, so each *)
(* access to a store is an action of its own and requests interleave.      *)
(* One tick of `now` is an arbitrary amount of time; Window stands for the *)
(* 15 minutes of a pending approval.                                       *)
(***************************************************************************)
EXTENDS Integers, FiniteSets

CONSTANTS
    Approvals,      \* approval ids (random UUIDs)
    Requests,       \* HTTP requests to the approval routes, each served once
    Tenants,
    Actors,         \* callers: records [role, tenant]
    OwnerOf,        \* OwnerOf[a]: the tenant whose agent asked for approval a
    AdminDecisions, \* decisions an administrator submits to the decide route
    Window,         \* lifetime of a pending approval (15 min)
    DecidedTTL,     \* lifetime of the Redis entry of a decided one (1 h)
    SweepPeriod,    \* setInterval of the timeout sweep (60 s)
    MaxTime         \* bound on the clock

Final    == {"approved", "denied", "timeout"}
Decision == {"pending"} \cup Final
Roles    == {"local_admin", "super_admin", "security_analyst", "viewer"}
NONE     == "none"

ASSUME HitlAssumption ==
    /\ Actors \subseteq [role : Roles, tenant : Tenants]
    /\ OwnerOf \in [Approvals -> Tenants]
    /\ AdminDecisions \subseteq Final
    /\ Window \in Nat /\ DecidedTTL \in Nat /\ SweepPeriod \in Nat
    /\ MaxTime \in Nat

VARIABLES
    now,        \* wall clock shared by gateway, Redis and PostgreSQL
    sweepBase,  \* when the sweep interval was last armed: boot or last sweep
    stage,      \* progress of createApproval: new, timed, cached, inserted, lost
    tool,       \* tool the approval is about
    created,    \* `now` of createApproval; expires_at = created + Window
    sweepable,  \* history: since when the sweep had no excuse to leave the row: the last
                \* of its expiry, its INSERT, a restart and a sweep that failed
    decision,   \* hitl_approvals.decision, NONE while there is no row
    cache,      \* Redis hitl:<id>: [decision, until, persistent]
    pc, job, seen,  \* per request: next step, what it asks, what it read
    recorded,   \* history: every decision the row has held
    executed,   \* history: requests whose tool call the upstream ran
    audit       \* audit_log rows: <<request, "ALLOW" or "DENY">>

clockVars   == <<now, sweepBase>>
createVars  == <<stage, tool, created, sweepable>>
requestVars == <<pc, job, seen>>
logVars     == <<executed, audit>>
vars == <<clockVars, createVars, decision, cache, requestVars, recorded, logVars>>

-----------------------------------------------------------------------------
(* Helpers of the handlers.                                                *)

Later(x, y) == IF x < y THEN y ELSE x

ExpiresAt(a) == created[a] + Window
\* Mutant of Expired: one tick late
ExpiredLate(a) == ExpiresAt(a) + 1 < now
Expired(a)   == ExpiresAt(a) < now

NoEntry == [decision |-> NONE, until |-> 0, persistent |-> FALSE]

\* redis.get answers with the entry until its TTL has run out (Tick drops it);
\* an entry written without a TTL stays.
Live(a) == cache[a].decision # NONE

\* canApprove and canDecideTenantApproval
MayDecide(actor, a) ==
    /\ actor.role \in {"local_admin", "super_admin", "security_analyst"}
    /\ actor.tenant = OwnerOf[a]

\* What getApprovalStatus returns at this moment, before its timeout check.
Polled(a) == IF Live(a) THEN cache[a].decision ELSE decision[a]

\* Mutants of AfterRead: the route forgets the caller's role; the decision goes
\* to Redis and never to the row
AfterReadAnyRole(j, d) == IF j.kind # "status" /\ d = "pending" THEN "resolveDb" ELSE "done"
AfterReadRedisOnly(j, d) ==
    IF j.kind # "status" /\ MayDecide(j.actor, j.appr) /\ d = "pending"
    THEN "cacheRead" ELSE "done"

\* After getApprovalStatus answered d: a poll is done; the approve and deny
\* routes check the caller (403) and the decision (409 Already ...).
AfterRead(j, d) ==
    IF j.kind # "status" /\ MayDecide(j.actor, j.appr) /\ d = "pending"
    THEN "resolveDb" ELSE "done"

\* An UPDATE of the decision column; it changes nothing when there is no row.
SetDecision(a, d) ==
    IF decision[a] = NONE
    THEN UNCHANGED <<decision, recorded>>
    ELSE /\ decision' = [decision EXCEPT ![a] = d]
         /\ recorded' = [recorded EXCEPT ![a] = @ \cup {d}]

\* A poll needs no role: its actor is not looked at.
Job  == [kind : {"approve", "deny"}, appr : Approvals, actor : Actors]
            \cup [kind : {"status"}, appr : Approvals]
NoJob == [kind |-> NONE]
Seen == [src : {NONE, "cache", "db"}, at : Nat]
NotSeen == [src |-> NONE, at |-> 0]
Pcs  == {"idle", "dbRead", "timeoutCache", "timeoutDb", "resolveDb", "cacheRead",
         "cacheWrite", "forward", "logAllow", "logDeny", "done", "failed"}
InFlight == Pcs \ {"idle", "done", "failed"}

\* Request r goes on to step `next`; one that ends forgets its local variables.
Goto(r, j, s, next) ==
    /\ pc' = [pc EXCEPT ![r] = next]
    /\ job' = [job EXCEPT ![r] = IF next \in InFlight THEN j ELSE NoJob]
    /\ seen' = [seen EXCEPT ![r] = IF next \in InFlight THEN s ELSE NotSeen]

-----------------------------------------------------------------------------
Init ==
    /\ now = 0 /\ sweepBase = 0
    /\ stage = [a \in Approvals |-> "new"]
    /\ tool \in [Approvals -> {"delete_workspace_file", "other"}]
    /\ created = [a \in Approvals |-> 0]
    /\ sweepable = [a \in Approvals |-> 0]
    /\ decision = [a \in Approvals |-> NONE]
    /\ cache = [a \in Approvals |-> NoEntry]
    /\ pc = [r \in Requests |-> "idle"]
    /\ job = [r \in Requests |-> NoJob]
    /\ seen = [r \in Requests |-> NotSeen]
    /\ recorded = [a \in Approvals |-> {}]
    /\ executed = {}
    /\ audit = {}

\* createApproval: `now` is read and fixes expires_at.  The bound on the clock
\* lets every approval that is asked for outlive its window.
CreateStart(a) ==
    /\ stage[a] = "new"
    /\ now + Window < MaxTime
    /\ stage' = [stage EXCEPT ![a] = "timed"]
    /\ created' = [created EXCEPT ![a] = now]
    /\ UNCHANGED <<clockVars, tool, sweepable, decision, cache, requestVars, recorded, logVars>>

\* SETEX hitl:<id> 900: the TTL runs from this moment, not from `created`.
CreateCache(a) ==
    /\ stage[a] = "timed"
    /\ stage' = [stage EXCEPT ![a] = "cached"]
    /\ cache' = [cache EXCEPT ![a] =
                    [decision |-> "pending", until |-> now + Window, persistent |-> FALSE]]
    /\ UNCHANGED <<clockVars, tool, created, sweepable, decision, requestVars, recorded, logVars>>

\* The INSERT; approvers are notified and the agent gets 202 after it, so
\* nobody knows the id before.
CreateRow(a) ==
    /\ stage[a] = "cached"
    /\ stage' = [stage EXCEPT ![a] = "inserted"]
    /\ sweepable' = [sweepable EXCEPT ![a] = Later(ExpiresAt(a), now)]
    /\ decision' = [decision EXCEPT ![a] = "pending"]
    /\ recorded' = [recorded EXCEPT ![a] = @ \cup {"pending"}]
    /\ UNCHANGED <<clockVars, tool, created, cache, requestVars, logVars>>

\* The INSERT fails: the agent gets a 500 and the id is never disclosed.
CreateFails(a) ==
    /\ stage[a] = "cached"
    /\ stage' = [stage EXCEPT ![a] = "lost"]
    /\ UNCHANGED <<clockVars, tool, created, sweepable, decision, cache, requestVars, recorded, logVars>>

-----------------------------------------------------------------------------
(* getApprovalStatus, shared by the poll, approve and deny routes.         *)

\* redis.get.  A hit that is pending past expiresAt takes the timeout branch.
ReadCache(r, j) ==
    LET a == j.appr IN
    /\ pc[r] = "idle"
    /\ stage[a] = "inserted"
    /\ IF Live(a)
       THEN Goto(r, j, [src |-> "cache", at |-> now],
                 IF Expired(a) /\ cache[a].decision = "pending"
                 THEN "timeoutCache" ELSE AfterRead(j, cache[a].decision))
       ELSE Goto(r, j, NotSeen, "dbRead")
    /\ UNCHANGED <<clockVars, createVars, decision, cache, recorded, logVars>>

\* redis.set without a TTL
WriteTimeoutCache(r) ==
    LET a == job[r].appr IN
    /\ pc[r] = "timeoutCache"
    /\ cache' = [cache EXCEPT ![a] =
                    [decision |-> "timeout", until |-> 0, persistent |-> TRUE]]
    /\ Goto(r, job[r], seen[r], "timeoutDb")
    /\ UNCHANGED <<clockVars, createVars, decision, recorded, logVars>>

\* UPDATE ... SET decision='timeout', whatever the row holds by now
WriteTimeoutDb(r) ==
    /\ pc[r] = "timeoutDb"
    /\ SetDecision(job[r].appr, "timeout")
    /\ Goto(r, job[r], seen[r], AfterRead(job[r], "timeout"))
    /\ UNCHANGED <<clockVars, createVars, cache, logVars>>

\* Fallback to the row, whose expires_at is not looked at
ReadDb(r) ==
    /\ pc[r] = "dbRead"
    /\ Goto(r, job[r], [src |-> "db", at |-> now], AfterRead(job[r], decision[job[r].appr]))
    /\ UNCHANGED <<clockVars, createVars, decision, cache, recorded, logVars>>

-----------------------------------------------------------------------------
(* resolveApproval, then what approve and deny do after it.                *)

\* Mutant of Verdict: the name of the route is stored
VerdictRoute(r) == job[r].kind
Verdict(r) == IF job[r].kind = "approve" THEN "approved" ELSE "denied"

\* Only delete_workspace_file is forwarded; any other approved tool is
\* "approval_recorded_only".  A denial goes on to its audit row.
AfterResolve(r) ==
    IF job[r].kind = "deny" THEN "logDeny"
    ELSE IF tool[job[r].appr] = "delete_workspace_file" THEN "forward"
    ELSE "done"

ResolveDb(r) ==
    /\ pc[r] = "resolveDb"
    /\ SetDecision(job[r].appr, Verdict(r))
    /\ Goto(r, job[r], seen[r], "cacheRead")
    /\ UNCHANGED <<clockVars, createVars, cache, logVars>>

ResolveReadCache(r) ==
    /\ pc[r] = "cacheRead"
    /\ Goto(r, job[r], seen[r], IF Live(job[r].appr) THEN "cacheWrite" ELSE AfterResolve(r))
    /\ UNCHANGED <<clockVars, createVars, decision, cache, recorded, logVars>>

\* SETEX hitl:<id> 3600
ResolveWriteCache(r) ==
    LET a == job[r].appr IN
    /\ pc[r] = "cacheWrite"
    /\ cache' = [cache EXCEPT ![a] =
                    [decision |-> Verdict(r), until |-> now + DecidedTTL, persistent |-> FALSE]]
    /\ Goto(r, job[r], seen[r], AfterResolve(r))
    /\ UNCHANGED <<clockVars, createVars, decision, recorded, logVars>>

\* Mutant of Forward: the audit row is forgotten
ForwardUnlogged(r) ==
    /\ pc[r] = "forward"
    /\ Goto(r, job[r], seen[r], "done")
    /\ executed' = executed \cup {r}
    /\ UNCHANGED <<clockVars, createVars, decision, cache, recorded, audit>>

\* forwardApprovedMcpTool: the upstream runs the tool and answers, answers with
\* an error, or the call throws (30 s timeout, no URL) and the route fails with
\* 500; a call that throws may have run.
Forward(r) ==
    /\ pc[r] = "forward"
    /\ \E next \in {"logAllow", "logDeny", "failed"} :
          /\ Goto(r, job[r], seen[r], next)
          /\ \/ executed' = executed \cup {r}
             \/ next # "logAllow" /\ UNCHANGED executed
    /\ UNCHANGED <<clockVars, createVars, decision, cache, recorded, audit>>

\* logApprovedExecution and logHitlDenied
WriteAudit(r) ==
    /\ pc[r] \in {"logAllow", "logDeny"}
    /\ audit' = audit \cup {<<r, IF pc[r] = "logAllow" THEN "ALLOW" ELSE "DENY">>}
    /\ Goto(r, job[r], seen[r], "done")
    /\ UNCHANGED <<clockVars, createVars, decision, cache, recorded, executed>>

\* A store call of the request throws: the route answers 500 and stops there.
RequestFails(r) ==
    /\ pc[r] \in InFlight
    /\ Goto(r, job[r], seen[r], "failed")
    /\ UNCHANGED <<clockVars, createVars, decision, cache, recorded, logVars>>

-----------------------------------------------------------------------------
(* Writers that go round getApprovalStatus.                                *)

\* The signed Slack button: one UPDATE, no look at the row or the Redis entry
SlackInteract(a, d) ==
    /\ stage[a] = "inserted"
    /\ SetDecision(a, d)
    /\ UNCHANGED <<clockVars, createVars, cache, requestVars, logVars>>

\* The administrator's decide route: the same UPDATE
AdminDecide(a, d) ==
    /\ stage[a] = "inserted"
    /\ SetDecision(a, d)
    /\ UNCHANGED <<clockVars, createVars, cache, requestVars, logVars>>

\* Mutants of Overdue: WHERE without the expiry; pending taken to be NULL, as in
\* the dashboards' pending counts
OverdueAny  == {a \in Approvals : decision[a] = "pending"}
OverdueNull == {a \in Approvals : stage[a] = "inserted" /\ decision[a] = NONE /\ Expired(a)}
Overdue == {a \in Approvals : decision[a] = "pending" /\ Expired(a)}

\* sweepHitlTimeouts: one UPDATE over all overdue rows; Redis is not touched
Sweep ==
    /\ decision' = [a \in Approvals |-> IF a \in Overdue THEN "timeout" ELSE decision[a]]
    /\ recorded' = [a \in Approvals |->
                       recorded[a] \cup (IF a \in Overdue THEN {"timeout"} ELSE {})]
    /\ sweepBase' = now
    /\ UNCHANGED <<now, createVars, cache, requestVars, logVars>>

\* The UPDATE of a sweep fails and is only logged; the next one is a period away.
SweepFails ==
    /\ sweepBase' = now
    /\ sweepable' = [a \in Approvals |-> Later(sweepable[a], now)]
    /\ UNCHANGED <<now, stage, tool, created, decision, cache, requestVars, recorded, logVars>>

\* Time passes and Redis drops what has expired; the interval timer is on time
\* while the gateway runs.
Tick ==
    /\ now < MaxTime
    /\ now < sweepBase + SweepPeriod
    /\ now' = now + 1
    /\ cache' = [a \in Approvals |->
                    IF ~cache[a].persistent /\ cache[a].until <= now + 1 THEN NoEntry
                    ELSE cache[a]]
    /\ UNCHANGED <<sweepBase, createVars, decision, requestVars,
                   recorded, logVars>>

\* The gateway process restarts: requests and half-made approvals are gone,
\* both stores stay, the interval is armed anew.
Restart ==
    /\ sweepBase' = now
    /\ sweepable' = [a \in Approvals |-> Later(sweepable[a], now)]
    /\ stage' = [a \in Approvals |-> IF stage[a] \in {"timed", "cached"} THEN "lost"
                                     ELSE stage[a]]
    /\ pc' = [r \in Requests |-> IF pc[r] \in InFlight THEN "failed" ELSE pc[r]]
    /\ job' = [r \in Requests |-> NoJob]
    /\ seen' = [r \in Requests |-> NotSeen]
    /\ UNCHANGED <<now, tool, created, decision, cache, recorded, logVars>>

-----------------------------------------------------------------------------
Create(a) == CreateStart(a) \/ CreateCache(a) \/ CreateRow(a) \/ CreateFails(a)

Step(r) ==
    \/ WriteTimeoutCache(r) \/ WriteTimeoutDb(r) \/ ReadDb(r)
    \/ ResolveDb(r) \/ ResolveReadCache(r) \/ ResolveWriteCache(r)
    \/ Forward(r) \/ WriteAudit(r)

Next ==
    \/ \E a \in Approvals : Create(a)
    \/ \E r \in Requests : \E j \in Job : ReadCache(r, j)
    \/ \E r \in Requests : Step(r) \/ RequestFails(r)
    \/ \E a \in Approvals, d \in {"approved", "denied"} : SlackInteract(a, d)
    \/ \E a \in Approvals, d \in AdminDecisions : AdminDecide(a, d)
    \/ Sweep \/ SweepFails
    \/ Tick
    \/ Restart

Spec == Init /\ [][Next]_vars

\* setInterval keeps firing, the database does not fail every sweep and time
\* passes; nobody is obliged to poll, to decide or to restart anything.
FairSpec == Spec /\ WF_vars(Sweep) /\ WF_vars(Tick)

-----------------------------------------------------------------------------
(* Properties.                                                             *)

TypeOK ==
    /\ now \in Nat /\ sweepBase \in Nat
    /\ stage \in [Approvals -> {"new", "timed", "cached", "inserted", "lost"}]
    /\ tool \in [Approvals -> {"delete_workspace_file", "other"}]
    /\ created \in [Approvals -> Nat]
    /\ sweepable \in [Approvals -> Nat]
    /\ decision \in [Approvals -> Decision \cup {NONE}]
    /\ cache \in [Approvals ->
                    [decision : Decision \cup {NONE}, until : Nat, persistent : BOOLEAN]]
    /\ pc \in [Requests -> Pcs]
    /\ job \in [Requests -> Job \cup {NoJob}]
    /\ seen \in [Requests -> Seen]
    /\ recorded \in [Approvals -> SUBSET Decision]
    /\ executed \subseteq Requests
    /\ audit \subseteq Requests \X {"ALLOW", "DENY"}

\* Requests that passed the "Already <decision>" check of approve or deny.
Accepted == {r \in Requests : pc[r] \in {"resolveDb", "cacheRead", "cacheWrite",
                                          "forward", "logAllow", "logDeny"}}

\* A decision is accepted late by at most one sweep period: through the Redis
\* entry never after expires_at, through the row (whose expires_at the route
\* ignores) only until the first sweep due after the row expired, was inserted,
\* the gateway restarted, or a sweep failed, whichever is last.
AcceptedInWindow ==
    \A r \in Accepted :
        LET a == job[r].appr IN
        IF seen[r].src = "cache"
        THEN seen[r].at <= ExpiresAt(a)
        ELSE seen[r].at <= sweepable[a] + SweepPeriod

\* Neither the poll's timeout branch nor the sweep records a timeout while the
\* approval window is open, and the row only holds what a writer recorded.
TimeoutOnlyAfterWindow ==
    \A a \in Approvals : "timeout" \in recorded[a] \/ cache[a].decision = "timeout"
                            => Expired(a)

\* An agent polling Redis is never told approved or denied before the row has
\* recorded that decision, whatever crashed between the two writes.
CacheDecisionWasRecorded ==
    \A a \in Approvals :
        cache[a].decision \in {"approved", "denied"} => cache[a].decision \in recorded[a]

\* The upstream runs a tool on behalf of an approval only for an approve
\* request of an approver of the owning tenant, after the row said approved.
ExecutionWasApproved ==
    [][\A r \in executed' \ executed :
          /\ job[r].kind = "approve"
          /\ MayDecide(job[r].actor, job[r].appr)
          /\ "approved" \in recorded[job[r].appr]]_vars

\* An execution is on its way to the audit log, in it, or its request failed.
ExecutionsAccounted ==
    \A r \in executed :
        \/ pc[r] \in {"logAllow", "logDeny", "failed"}
        \/ \E v \in {"ALLOW", "DENY"} : <<r, v>> \in audit

\* The handlers implement the service agents rely on, read through whichever store
\* a poll would read: what a poll answers never goes back from a decision to
\* pending although it comes now from one store and now from the other, a verdict
\* is answered only once it is on record, a timeout only after the window, and
\* tools run only on a recorded approval.
Promise == INSTANCE ApprovalPromise WITH
    answer <- [a \in Approvals |-> IF stage[a] = "inserted" THEN Polled(a) ELSE NONE],
    closed <- {a \in Approvals : stage[a] = "inserted" /\ Expired(a)},
    ran    <- executed

KeepsPromise == Promise!Spec

\* Every approval whose row exists is decided in the end, by a human or by the
\* sweep, and stays decided.
EventuallyDecided ==
    \A a \in Approvals : (stage[a] = "inserted") ~> [](decision[a] \in Final)

\* approval.ts:485: a dashboard approval of a row that is already decided is
\* refused with 409 "Already <decision>".
DecidedRefusesApproval ==
    [][\A r \in Requests :
          (pc[r] # "resolveDb" /\ pc'[r] = "resolveDb")
             => decision[job'[r].appr] = "pending"]_vars
=============================================================================
