---------------------------- MODULE TenantLifecycle ----------------------------
(***************************************************************************)
(* One row of tenants and its one-minute copy in Redis.  The trial sweep   *)
(* (tenant/trial.ts), Stripe's events (billing/billing.ts) and             *)
(* administrators (admin/admin.ts, tenant/tenant.ts) write the row, each   *)
(* its own columns; resolveTenant (tenant/tenant.ts) reads it through the  *)
(* cache, which only administrators delete.                                *)
(***************************************************************************)
EXTENDS Integers

CONSTANTS
    Sweepers,   \* concurrent enforceTrialExpiry: one per gateway process
    Resolvers,  \* concurrent resolveTenant
    Operators,  \* concurrent administrators
    Plans,      \* the plans a tenant may have
    FirstPlan,  \* the plan it is created with, and cancelled to
    ResolveTTL, \* ticks a cached tenant lives
    ResolveDelay \* ticks from resolveTenant's SELECT to its SETEX

ASSUME LifecycleAssumption ==
    /\ FirstPlan \in Plans
    /\ ResolveTTL \in Nat \ {0} /\ ResolveDelay \in Nat

Statuses   == {"trialing", "active", "past_due", "cancelled", "trial_expired"}
NoCopy     == [ttl |-> 0]
NoResolve  == [step |-> "idle"]
LongestUse == ResolveTTL + ResolveDelay

VARIABLES
    tenant,     \* the row: [active, status, plan]
    trialOver,  \* trial_ends_at < NOW()
    sweeping,   \* sweepers that selected the tenant and have not updated it
    copy,       \* the cached tenant: [ttl, plan]
    resolve,    \* per resolver: [step, plan, age]
    deleting,   \* operators between their UPDATE and redis.del
    suspended,  \* history: an administrator suspended the tenant
    paidInTime, \* history: a checkout completed before the tenant was swept
    offFor,     \* history: ticks since the tenant was active
    planFor     \* history, per plan: ticks since it was the tenant's plan

tenantVars == <<tenant, trialOver, sweeping, copy, resolve, deleting,
                suspended, paidInTime, offFor, planFor>>

TenantInit ==
    /\ tenant = [active |-> TRUE, status |-> "trialing", plan |-> FirstPlan]
    /\ trialOver = FALSE
    /\ sweeping = {}
    /\ copy = NoCopy
    /\ resolve = [r \in Resolvers |-> NoResolve]
    /\ deleting = {}
    /\ suspended = FALSE /\ paidInTime = FALSE
    /\ offFor = 0
    /\ planFor = [p \in Plans |-> IF p = FirstPlan THEN 0 ELSE LongestUse + 1]

Write(row) ==
    /\ tenant' = row
    /\ offFor' = IF row.active THEN 0 ELSE offFor
    /\ planFor' = [planFor EXCEPT ![row.plan] = 0]

-----------------------------------------------------------------------------
(* The trial sweep.                                                        *)

TrialEnds ==
    /\ ~trialOver
    /\ trialOver' = TRUE
    /\ UNCHANGED <<tenant, sweeping, copy, resolve, deleting, suspended, paidInTime, offFor, planFor>>

\* Mutant of Expired: the subscription is not looked at
ExpiredWhateverPaid == trialOver /\ tenant.active
Expired == trialOver /\ tenant.status = "trialing" /\ tenant.active

SweepSelect(s) ==
    /\ s \notin sweeping
    /\ Expired
    /\ sweeping' = sweeping \cup {s}
    /\ UNCHANGED <<tenant, trialOver, copy, resolve, deleting, suspended, paidInTime, offFor, planFor>>

\* UPDATE by id: what happened since the SELECT is overwritten.
SweepUpdate(s) ==
    /\ s \in sweeping
    /\ sweeping' = sweeping \ {s}
    /\ Write([tenant EXCEPT !.active = FALSE, !.status = "trial_expired"])
    /\ UNCHANGED <<trialOver, copy, resolve, deleting, suspended, paidInTime>>

\* The UPDATE is not carried out, or the sweep ended at another tenant's.
SweepStops(s) ==
    /\ s \in sweeping
    /\ sweeping' = sweeping \ {s}
    /\ UNCHANGED <<tenant, trialOver, copy, resolve, deleting, suspended, paidInTime, offFor, planFor>>

-----------------------------------------------------------------------------
(* Stripe's events come late, in any order and more than once.             *)

Completed(p) ==
    /\ Write([tenant EXCEPT !.status = "active", !.plan = p])
    /\ paidInTime' = (paidInTime \/ (tenant.active /\ sweeping = {}))
    /\ UNCHANGED <<trialOver, sweeping, copy, resolve, deleting, suspended>>

PaymentFailed ==
    /\ Write([tenant EXCEPT !.status = "past_due"])
    /\ UNCHANGED <<trialOver, sweeping, copy, resolve, deleting, suspended, paidInTime>>

SubscriptionDeleted ==
    /\ Write([tenant EXCEPT !.status = "cancelled", !.plan = FirstPlan])
    /\ UNCHANGED <<trialOver, sweeping, copy, resolve, deleting, suspended, paidInTime>>

-----------------------------------------------------------------------------
(* Administrators.  POST .../unsuspend changes nothing: its UPDATE names a *)
(* second parameter that it is not given.                                  *)

Suspend(o) ==
    /\ o \notin deleting
    /\ deleting' = deleting \cup {o}
    /\ Write([tenant EXCEPT !.active = FALSE])
    /\ suspended' = TRUE
    /\ UNCHANGED <<trialOver, sweeping, copy, resolve, paidInTime>>

SetPlan(o, p) ==
    /\ o \notin deleting
    /\ deleting' = deleting \cup {o}
    /\ Write([tenant EXCEPT !.plan = p])
    /\ UNCHANGED <<trialOver, sweeping, copy, resolve, suspended, paidInTime>>

\* redis.del, which may fail or never come
DeleteCopy(o) ==
    /\ o \in deleting
    /\ deleting' = deleting \ {o}
    /\ copy' \in {NoCopy, copy}
    /\ UNCHANGED <<tenant, trialOver, sweeping, resolve, suspended, paidInTime, offFor, planFor>>

-----------------------------------------------------------------------------
(* resolveTenant: a hit changes nothing.                                   *)

NotCached(r) ==
    /\ resolve[r] = NoResolve
    /\ copy = NoCopy
    /\ resolve' = [resolve EXCEPT ![r] = [step |-> "select"]]
    /\ UNCHANGED <<tenant, trialOver, sweeping, copy, deleting, suspended, paidInTime, offFor, planFor>>

\* No active row: the request is refused.
SelectTenant(r) ==
    /\ resolve[r].step = "select"
    /\ resolve' = [resolve EXCEPT ![r] =
          IF tenant.active THEN [step |-> "setex", plan |-> tenant.plan, age |-> 0] ELSE NoResolve]
    /\ UNCHANGED <<tenant, trialOver, sweeping, copy, deleting, suspended, paidInTime, offFor, planFor>>

\* SETEX
CopyTenant(r) ==
    /\ resolve[r].step = "setex"
    /\ copy' = [ttl |-> ResolveTTL, plan |-> resolve[r].plan]
    /\ resolve' = [resolve EXCEPT ![r] = NoResolve]
    /\ UNCHANGED <<tenant, trialOver, sweeping, deleting, suspended, paidInTime, offFor, planFor>>

\* A query fails: the request is refused.
ResolveFails(r) ==
    /\ resolve[r] # NoResolve
    /\ resolve' = [resolve EXCEPT ![r] = NoResolve]
    /\ UNCHANGED <<tenant, trialOver, sweeping, copy, deleting, suspended, paidInTime, offFor, planFor>>

Aged(n) == IF n <= LongestUse THEN n + 1 ELSE n

\* A tick.  A resolver has at most ResolveDelay of them between SELECT and SETEX.
TenantTick ==
    /\ \A r \in Resolvers : resolve[r].step = "setex" => resolve[r].age < ResolveDelay
    /\ resolve' = [r \in Resolvers |->
          IF resolve[r].step = "setex" THEN [resolve[r] EXCEPT !.age = @ + 1] ELSE resolve[r]]
    /\ copy' = IF copy.ttl <= 1 THEN NoCopy ELSE [copy EXCEPT !.ttl = @ - 1]
    /\ offFor' = IF tenant.active THEN 0 ELSE Aged(offFor)
    /\ planFor' = [p \in Plans |-> IF tenant.plan = p THEN 0 ELSE Aged(planFor[p])]
    /\ UNCHANGED <<tenant, trialOver, sweeping, deleting, suspended, paidInTime>>

TenantNext ==
    \/ TrialEnds
    \/ \E s \in Sweepers : SweepSelect(s) \/ SweepUpdate(s) \/ SweepStops(s)
    \/ \E p \in Plans : Completed(p)
    \/ PaymentFailed
    \/ SubscriptionDeleted
    \/ \E o \in Operators : Suspend(o) \/ DeleteCopy(o) \/ \E p \in Plans : SetPlan(o, p)
    \/ \E r \in Resolvers : NotCached(r) \/ SelectTenant(r) \/ CopyTenant(r) \/ ResolveFails(r)
    \/ TenantTick

TenantSpec == TenantInit /\ [][TenantNext]_tenantVars

-----------------------------------------------------------------------------
(* Properties.                                                             *)

TenantTypes ==
    /\ tenant \in [active : BOOLEAN, status : Statuses, plan : Plans]
    /\ trialOver \in BOOLEAN
    /\ sweeping \subseteq Sweepers /\ deleting \subseteq Operators
    /\ copy \in {NoCopy} \cup [ttl : 1..ResolveTTL, plan : Plans]
    /\ resolve \in [Resolvers -> {NoResolve} \cup [step : {"select"}]
          \cup [step : {"setex"}, plan : Plans, age : 0..ResolveDelay]]
    /\ suspended \in BOOLEAN /\ paidInTime \in BOOLEAN
    /\ offFor \in 0..(LongestUse + 1)
    /\ planFor \in [Plans -> 0..(LongestUse + 1)]

\* A tenant whose checkout completed before the sweep selected it is never locked
\* out by the end of its trial, whatever late or repeated events follow; only an
\* administrator can.  (One that completes while a sweep holds the tenant, or
\* after it, stays locked out: no event sets active.)
PayersStay == paidInTime /\ ~suspended => tenant.active

\* A tenant is served from the cache at most LongestUse ticks after it became
\* inactive, and with a plan it had within the last LongestUse ticks: a del can be
\* lost or undone by a SELECT made before it, and the sweep and Stripe do none.
ServedBriefly ==
    copy # NoCopy => offFor <= LongestUse /\ planFor[copy.plan] <= LongestUse

SuspensionJustified == PayersStay /\ ServedBriefly
=============================================================================
