--------------------------- MODULE GatewayPipeline ---------------------------
(***************************************************************************)
(* The request pipelines of proxy/server.ts after authentication:          *)
(* POST /mcp, which forwards a tool call to the upstream server, and       *)
(* POST /api/agent/tool-call, which answers whether an agent may run its   *)
(* own tool.  They share the counters of one tenant, agent and tool: the   *)
(* monthly meter (tenant/tenant.ts), the budget counted from audit_log,    *)
(* the tool rate limit (features/f11-rate-limiting.ts) and the replay keys.*)
(*                                                                         *)
(* Every access to shared state is a step.  Checks that keep no state (IP, *)
(* geo, inspection, DLP, UCP rules, risk class, anomaly scores) answer     *)
(* nondeterministically and are folded into the step before them.          *)
(* Approvals, violations and the hash chain, which a request feeds and     *)
(* does not read, are in HitlApproval, TokenAuth and HashChain.            *)
(***************************************************************************)
EXTENDS Integers, FiniteSets

CONSTANTS
    Handlers,    \* requests served at the same time
    Keys,        \* replay identities: agent, tool, request id and arguments
    Configs,     \* deployments: see Config
    UsageLimit,  \* tenants.api_calls_limit
    BudgetLimit, \* agent_budgets.monthly_call_limit
    RateMax,     \* tool_rate_limits.max_calls
    RateWindow,  \* tool_rate_limits.window_seconds
    ReplayTTL,   \* EX of a replay key (300 s)
    MaxCalls     \* bound on the requests of the month

Config == [failClosed : BOOLEAN,  \* FAIL_MODE=fail_closed
           starter    : BOOLEAN,  \* plan with a hard call limit
           overageColumn : BOOLEAN,  \* usage_overage.recorded_at exists; the
                                  \* repository's migrations do not create it
           onExceed   : {"block", "require_hitl", "throttle"}]

ASSUME PipelineAssumption ==
    /\ IsFiniteSet(Handlers) /\ Handlers # {}
    /\ Configs \subseteq Config
    /\ UsageLimit \in Nat /\ BudgetLimit \in Nat /\ RateMax \in Nat
    /\ RateWindow \in Nat \ {0} /\ ReplayTTL \in Nat \ {0} /\ MaxCalls \in Nat

VARIABLES
    config,     \* the deployment, fixed
    policy,     \* an active policy of the agent allows the tool (no discovery method)
    usage,      \* Redis usage:<tenant>:<month>
    allowRows,  \* audit_log rows of the agent this month, by decision
    denyRows,
    rateCount,  \* Redis tool_rl:<tenant>:<agent>:<tool>, 0 for no key
    rateTTL,    \* its TTL, NoExpiry before EXPIRE
    replay,     \* Redis replay:<hash>: remaining TTL, 0 for no key
    pc,         \* per handler
    call,       \* per handler: [endpoint, key], NoCall when idle
    \* History:
    metered,    \* requests the meter let through
    admitted,   \* requests let through because the budget was not used up
    unlogged,   \* requests past the budget check that ended without an audit row
    erasedAllow, \* rows of the agent this month that were deleted, by decision
    erasedDeny,
    ratePassed, \* requests the rate limit passed in the current life of its key
    leaked,     \* a handler died between INCR and EXPIRE of that key
    granted,    \* replay key -> requests passed in its current life
    answered,   \* ALLOW answers sent
    permitted   \* handlers whose agent had the policy at some point of the request

countVars   == <<usage, metered>>
eraseVars   == <<erasedAllow, erasedDeny>>
auditVars   == <<allowRows, denyRows, eraseVars>>
budgetVars  == <<admitted, unlogged>>
rateVars    == <<rateCount, rateTTL, ratePassed, leaked>>
replayVars  == <<replay, granted>>
handlerVars == <<pc, call, permitted>>
vars == <<config, policy, countVars, auditVars, budgetVars, rateVars, replayVars,
          handlerVars, answered>>

-----------------------------------------------------------------------------
NoExpiry  == -1
Endpoints == {"mcp", "preflight"}
NoCall    == [endpoint |-> "none"]
Call      == [endpoint : Endpoints, key : Keys]

Pcs == {"idle", "budget", "rate", "expire", "screen", "policy", "replay", "forward",
        "allow", "deny", "refuse", "reply"}

\* Handlers past the budget check that have not logged their outcome.
Pending == {"rate", "expire", "screen", "policy", "replay", "forward", "allow", "deny"}

\* Mutant of Dec: counts below zero
DecAlways(n) == n - 1
Dec(n) == IF n > 0 THEN n - 1 ELSE n

\* Handler h goes on to `next`; at "idle" the request has been answered.
Goto(h, next) ==
    /\ pc' = [pc EXCEPT ![h] = next]
    /\ call' = [call EXCEPT ![h] = IF next = "idle" THEN NoCall ELSE @]
    /\ permitted' = IF next = "idle" THEN permitted \ {h} ELSE permitted

Init ==
    /\ config \in Configs
    /\ policy \in BOOLEAN
    /\ usage = 0 /\ metered = 0
    /\ allowRows = 0 /\ denyRows = 0 /\ erasedAllow = 0 /\ erasedDeny = 0
    /\ admitted = 0 /\ unlogged = 0
    /\ rateCount = 0 /\ rateTTL = NoExpiry /\ ratePassed = 0 /\ leaked = FALSE
    /\ replay = [k \in Keys |-> 0]
    /\ granted = [k \in Keys |-> 0]
    /\ pc = [h \in Handlers |-> "idle"]
    /\ call = [h \in Handlers |-> NoCall]
    /\ permitted = {}
    /\ answered = 0

-----------------------------------------------------------------------------
(* The steps of a request.                                                 *)

\* checkAndMeterUsage: INCR, then the plan's limit, a hard one for starter
\* (403 without an audit row).  On other plans the overage is to be recorded; that
\* upsert names the column recorded_at, and where the table has none it throws
\* and the call is answered 403 too.  The IP and geo checks follow.
Meter(h, c) ==
    LET over == /\ usage + 1 > UsageLimit
                /\ config.starter \/ ~config.overageColumn IN
    /\ pc[h] = "idle"
    /\ usage < MaxCalls
    /\ usage' = usage + 1
    /\ metered' = IF over THEN metered ELSE metered + 1
    /\ IF over THEN UNCHANGED handlerVars
       ELSE \E next \in {"budget", "refuse"} :
               /\ pc' = [pc EXCEPT ![h] = next]
               /\ call' = [call EXCEPT ![h] = c]
               /\ permitted' = IF policy THEN permitted \cup {h} ELSE permitted
    /\ UNCHANGED <<config, policy, auditVars, budgetVars, rateVars, replayVars, answered>>

\* Mutant of Budget: the request in flight is not counted
BudgetOneBehind(h) ==
    LET within == allowRows + denyRows <= BudgetLimit IN
    /\ pc[h] = "budget"
    /\ admitted' = IF within THEN admitted + 1 ELSE admitted
    /\ Goto(h, IF within THEN "rate" ELSE "refuse")
    /\ UNCHANGED <<config, policy, countVars, auditVars, unlogged, rateVars, replayVars, answered>>

\* The budget query counts the audit rows that are there; the request itself has
\* none yet, hence + 1.  Over the limit: block (429), require_hitl (an approval is
\* created and 202 answered, without an audit row) or throttle (go on).  A failed
\* query is a 503 (Fail).
Budget(h) ==
    LET within == allowRows + denyRows + 1 <= BudgetLimit IN
    /\ pc[h] = "budget"
    /\ admitted' = IF within THEN admitted + 1 ELSE admitted
    /\ Goto(h, IF within THEN "rate"
               ELSE CASE config.onExceed = "block"        -> "refuse"
                      [] config.onExceed = "require_hitl" -> "idle"
                      [] config.onExceed = "throttle"     -> "rate")
    /\ UNCHANGED <<config, policy, countVars, auditVars, unlogged, rateVars, replayVars, answered>>

AfterRate(n) == IF n > RateMax THEN "deny" ELSE "screen"
PassedRate(n) == ratePassed' = IF AfterRate(n) = "deny" THEN ratePassed ELSE ratePassed + 1

\* Mutant of RateIncr: nobody sets the window
RateIncrNoExpire(h) ==
    /\ pc[h] = "rate"
    /\ rateCount' = rateCount + 1
    /\ Goto(h, AfterRate(rateCount + 1)) /\ PassedRate(rateCount + 1)
    /\ UNCHANGED <<config, policy, countVars, auditVars, budgetVars, rateTTL, leaked,
                   replayVars, answered>>

\* checkToolRateLimit: INCR; without a rule, or when the rule query fails, the
\* request passes uncounted.
RateIncr(h) ==
    LET n == rateCount + 1 IN
    /\ pc[h] = "rate"
    /\ \/ /\ rateCount' = n
          /\ IF n = 1 THEN Goto(h, "expire") /\ UNCHANGED ratePassed
             ELSE Goto(h, AfterRate(n)) /\ PassedRate(n)
       \/ Goto(h, "screen") /\ UNCHANGED <<rateCount, ratePassed>>
    /\ UNCHANGED <<config, policy, countVars, auditVars, budgetVars, rateTTL, leaked,
                   replayVars, answered>>

\* EXPIRE by the request whose INCR answered 1
RateExpire(h) ==
    /\ pc[h] = "expire"
    /\ rateTTL' = RateWindow
    /\ Goto(h, AfterRate(1)) /\ PassedRate(1)
    /\ UNCHANGED <<config, policy, countVars, auditVars, budgetVars, rateCount, leaked,
                   replayVars, answered>>

\* /mcp: inspection, DLP, UCP shield and risk class deny the request, park it as
\* a pending approval (audited as DENY too) or let it go on to the upstream.  A
\* call that requires approval goes on when the feature flag is off or its query
\* fails.
ScreenMcp(h) ==
    /\ pc[h] = "screen" /\ call[h].endpoint = "mcp"
    /\ \E next \in {"deny", "forward"} : Goto(h, next)
    /\ UNCHANGED <<config, policy, countVars, auditVars, budgetVars, rateVars, replayVars, answered>>

\* Preflight: the same without the UCP shield; the policy comes next.
ScreenPreflight(h) ==
    /\ pc[h] = "screen" /\ call[h].endpoint = "preflight"
    /\ \E next \in {"deny", "policy"} : Goto(h, next)
    /\ UNCHANGED <<config, policy, countVars, auditVars, budgetVars, rateVars, replayVars, answered>>

\* checkPolicy and the two anomaly detectors, on the preflight path only
CheckPolicy(h) ==
    /\ pc[h] = "policy"
    /\ \E next \in {"deny"} \cup IF policy THEN {"replay"} ELSE {} : Goto(h, next)
    /\ UNCHANGED <<config, policy, countVars, auditVars, budgetVars, rateVars, replayVars, answered>>

\* Mutant of Replay: SET without NX
ReplayNoNX(h) ==
    LET k == call[h].key IN
    /\ pc[h] = "replay"
    /\ replay' = [replay EXCEPT ![k] = ReplayTTL]
    /\ granted' = [granted EXCEPT ![k] = @ + 1]
    /\ Goto(h, "allow")
    /\ UNCHANGED <<config, policy, countVars, auditVars, budgetVars, rateVars, answered>>

\* SET replay:<hash> NX EX 300
Replay(h) ==
    LET k == call[h].key IN
    /\ pc[h] = "replay"
    /\ IF replay[k] = 0
       THEN /\ replay' = [replay EXCEPT ![k] = ReplayTTL]
            /\ granted' = [granted EXCEPT ![k] = @ + 1]
            /\ Goto(h, "allow")
       ELSE Goto(h, "deny") /\ UNCHANGED replayVars
    /\ UNCHANGED <<config, policy, countVars, auditVars, budgetVars, rateVars, answered>>

\* forwardToMCP: the upstream answers or reports an error; when the call throws
\* the request fails (Fail).
Forward(h) ==
    /\ pc[h] = "forward"
    /\ \E next \in {"allow", "deny"} : Goto(h, next)
    /\ UNCHANGED <<config, policy, countVars, auditVars, budgetVars, rateVars, replayVars, answered>>

\* logAudit's INSERT
WriteAudit(h) ==
    /\ pc[h] \in {"allow", "deny", "refuse"}
    /\ IF pc[h] = "allow"
       THEN allowRows' = allowRows + 1 /\ UNCHANGED denyRows
       ELSE denyRows' = denyRows + 1 /\ UNCHANGED allowRows
    /\ Goto(h, IF pc[h] = "allow" THEN "reply" ELSE "idle")
    /\ UNCHANGED <<config, policy, countVars, eraseVars, budgetVars, rateVars, replayVars, answered>>

\* Mutant of AuditFails: FAIL_MODE is not looked at
AuditFailsAlways(h) ==
    /\ pc[h] \in {"allow", "deny", "refuse"}
    /\ unlogged' = IF pc[h] = "refuse" THEN unlogged ELSE unlogged + 1
    /\ Goto(h, IF pc[h] = "allow" THEN "reply" ELSE "idle")
    /\ UNCHANGED <<config, policy, countVars, auditVars, admitted, rateVars, replayVars, answered>>

\* The INSERT fails and is only logged; with fail_closed the process exits
\* instead (Crash).
AuditFails(h) ==
    /\ pc[h] \in {"allow", "deny", "refuse"}
    /\ ~config.failClosed
    /\ unlogged' = IF pc[h] = "refuse" THEN unlogged ELSE unlogged + 1
    /\ Goto(h, IF pc[h] = "allow" THEN "reply" ELSE "idle")
    /\ UNCHANGED <<config, policy, countVars, auditVars, admitted, rateVars, replayVars, answered>>

\* After the usage tracking the ALLOW (or the upstream's response) is sent.
Answer(h) ==
    /\ pc[h] = "reply"
    /\ answered' = answered + 1
    /\ Goto(h, "idle")
    /\ UNCHANGED <<config, policy, countVars, auditVars, budgetVars, rateVars, replayVars>>

\* A store call or the upstream throws: the request ends with an error and
\* what it did to the counters stays.
Fail(h) ==
    /\ pc[h] \in Pcs \ {"idle", "allow", "deny", "refuse"}
    /\ unlogged' = IF pc[h] \in Pending THEN unlogged + 1 ELSE unlogged
    /\ leaked' = (leaked \/ pc[h] = "expire")
    /\ Goto(h, "idle")
    /\ UNCHANGED <<config, policy, countVars, auditVars, admitted, rateCount, rateTTL, ratePassed,
                   replayVars, answered>>

-----------------------------------------------------------------------------
\* The process dies, or exits because an audit INSERT failed under fail_closed.
Crash ==
    /\ unlogged' = unlogged + Cardinality({h \in Handlers : pc[h] \in Pending})
    /\ leaked' = (leaked \/ \E h \in Handlers : pc[h] = "expire")
    /\ pc' = [h \in Handlers |-> "idle"]
    /\ call' = [h \in Handlers |-> NoCall]
    /\ permitted' = {}
    /\ UNCHANGED <<config, policy, countVars, auditVars, admitted, rateCount, rateTTL, ratePassed,
                   replayVars, answered>>

\* Audit rows of the running month are deleted: by the daily retention, whose
\* shortest age is 7 days, or by the erasure of an agent's data, which takes all.
EraseAudit ==
    /\ \E a \in 0..allowRows, d \in 0..denyRows :
          /\ a + d > 0
          /\ allowRows' = allowRows - a /\ erasedAllow' = erasedAllow + a
          /\ denyRows' = denyRows - d   /\ erasedDeny' = erasedDeny + d
    /\ UNCHANGED <<config, policy, countVars, budgetVars, rateVars, replayVars, handlerVars,
                   answered>>

\* Policies are edited while requests run.
EditPolicy ==
    /\ policy' = ~policy
    /\ permitted' = IF policy' THEN {h \in Handlers : pc[h] # "idle"} ELSE permitted
    /\ UNCHANGED <<config, countVars, auditVars, budgetVars, rateVars, replayVars, pc, call,
                   answered>>

\* Time passes for the TTLs.
Tick ==
    /\ rateTTL' = IF rateTTL = 1 THEN NoExpiry ELSE Dec(rateTTL)
    /\ rateCount' = IF rateTTL = 1 THEN 0 ELSE rateCount
    /\ ratePassed' = IF rateTTL = 1 THEN 0 ELSE ratePassed
    /\ replay' = [k \in Keys |-> Dec(replay[k])]
    /\ granted' = [k \in Keys |-> IF replay[k] <= 1 THEN 0 ELSE granted[k]]
    /\ UNCHANGED <<config, policy, countVars, auditVars, budgetVars, leaked, handlerVars, answered>>

Step(h) ==
    \/ Budget(h) \/ RateIncr(h) \/ RateExpire(h) \/ ScreenMcp(h) \/ ScreenPreflight(h)
    \/ CheckPolicy(h) \/ Replay(h) \/ Forward(h) \/ WriteAudit(h) \/ AuditFails(h) \/ Answer(h)

Next ==
    \/ \E h \in Handlers : (\E c \in Call : Meter(h, c)) \/ Step(h) \/ Fail(h)
    \/ Crash
    \/ EraseAudit
    \/ EditPolicy
    \/ Tick

Spec == Init /\ [][Next]_vars

\* Handlers run on and time passes.
FairSpec == Spec /\ WF_vars(Tick) /\ \A h \in Handlers : WF_vars(Step(h))

-----------------------------------------------------------------------------
(* Properties.                                                             *)

TypeOK ==
    /\ config \in Configs /\ policy \in BOOLEAN
    /\ usage \in Nat /\ metered \in Nat /\ allowRows \in Nat /\ denyRows \in Nat
    /\ admitted \in Nat /\ unlogged \in Nat /\ erasedAllow \in Nat /\ erasedDeny \in Nat
    /\ rateCount \in Nat /\ rateTTL \in Nat \cup {NoExpiry} /\ ratePassed \in Nat
    /\ leaked \in BOOLEAN
    /\ replay \in [Keys -> Nat] /\ granted \in [Keys -> Nat]
    /\ pc \in [Handlers -> Pcs]
    /\ call \in [Handlers -> Call \cup {NoCall}]
    /\ permitted \subseteq Handlers
    /\ answered \in Nat

\* Where the meter refuses calls over the limit, requests racing on the INCR get no
\* more than the monthly calls past it.
MeterLimitIsHard == config.starter \/ ~config.overageColumn => metered <= UsageLimit

\* The budget is checked before the request's own audit row exists, so racing
\* requests overshoot it, but by no more than the other handlers, the requests
\* that ended without a row (crash, error, lost INSERT) and the rows of the month
\* that retention or an erasure deleted: each of those re-opens the budget by one.
BudgetOvershootBounded ==
    admitted <= BudgetLimit + (Cardinality(Handlers) - 1) + unlogged + erasedAllow + erasedDeny

\* In one life of the counter key at most max_calls of the requests it counted pass;
\* those of a tool without a rule, or whose rule query failed, pass uncounted.
RateLimitHolds == ratePassed <= RateMax

\* The monthly limit, the budget and the tool rate limit bound what gets past
\* them however requests interleave, fail and crash: the first exactly, the last
\* exactly for the requests it counts, and the budget up to the overshoot of its
\* check-then-act and of counting rows that can be lost or deleted.
LimitsHold == MeterLimitIsHard /\ BudgetOvershootBounded /\ RateLimitHolds

\* A tool over its limit becomes usable again, unless a handler died between
\* INCR and EXPIRE: then the key has no TTL and nothing ever removes it.
RateLimitRecovers == (rateCount > RateMax) ~> (rateCount = 0 \/ leaked)

\* Duplicates of a preflight request, sent together or again after a crash, get
\* at most one ALLOW in a replay window.
DuplicateAllowedOnce == \A k \in Keys : granted[k] <= 1

\* With fail_closed no agent is told ALLOW, and no upstream response delivered,
\* that the audit log does not hold or held until its row was deleted.
AnsweredIsAudited == config.failClosed => answered <= allowRows + erasedAllow

\* A preflight ALLOW rests on a policy that was in force during the request,
\* also when policies are edited while it runs.
PreflightWasPermitted ==
    \A h \in Handlers :
        pc[h] \in {"allow", "reply"} /\ call[h].endpoint = "preflight" => h \in permitted

\* No answer of ALLOW that the log never held or no policy permitted.
AnswersJustified == AnsweredIsAudited /\ PreflightWasPermitted

\* tenant.ts:96 "enterprise/growth: log overage for billing, don't block": a call
\* of such a plan gets past the meter, over the limit or not.
OverageIsNotBlocked ==
    [][usage' > usage /\ ~config.starter => metered' > metered]_vars

\* server.ts:363 "Main MCP proxy - all 10 layers", of which README.md:51 names
\* "RBAC Policy": a tool call reaches the upstream only if the agent had a
\* policy that allows the tool.
ForwardWasPermitted == \A h \in Handlers : pc[h] = "forward" => h \in permitted
=============================================================================
