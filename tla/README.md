# Verification of the Hypher AI gateway

TLA+ models of the parts of this repository in which order, concurrency and
partial failure decide whether the system is correct, the TLC configurations
that model-check them, and TLAPS proofs. Source paths are relative to the
repository; the gateway's TypeScript is under `src/`, the Python agent runtime
under `agent_runtime/`.

Contents: 1 inventory, 2 modules and their correspondence to the code, 3 runs,
bounds and fairness, 4 proofs, 5 disagreements between code and documentation,
6 what is not modelled, 7 what could come next.

## 1. Inventory

The gateway is one Node.js process (Fastify) with a PostgreSQL pool and a Redis
client. A handler runs to its next `await` without interruption; between two
awaits any other handler, timer or process may run. Nothing in the code takes a
lock and almost nothing is a transaction (and the `BEGIN`/`COMMIT` that exist are
sent to the pool, not to one client), so every access to a store is a step of its
own. Several gateway processes may share both stores (`helm/`).

### Human-in-the-loop approvals
`src/hitl/approval.ts`, `src/hitl/timeout-cron.ts`, `src/features/f13-f20-features.ts` (Slack), `src/admin/admin.ts`
- State: Redis `hitl:<id>` (JSON with decision and expiry, TTL 900 s, 3600 s once
  decided, none after the poll's timeout branch), row of `hitl_approvals`.
- Operations: `createApproval` (called by both pipelines), status poll, approve,
  deny, sweep every 60 s, signed Slack button, administrator's decide route;
  an approved `delete_workspace_file` is forwarded to the upstream and audited.
- Hard: six writers, two stores, no order between them; timeouts against late
  answers; a failed write between the two stores; a restart in the middle.
- Correct if: a decision the agent is told was recorded; the tool runs only for
  an approval of a decider of the owning tenant; nothing times out early or is
  accepted much too late; every approval is decided in the end; executions are
  audited.

### Bearer token verification and quarantine
`src/auth/oauth.ts`, `src/security/quarantine.ts`, `src/cron/scheduler.ts`, `src/features/future-features.ts`, `src/dashboard/plugin.ts`, `src/cloud/provision.ts`, `src/scim/scim.ts`
- State: `agent_tokens` (hash, active, expires_at), Redis `agent_token_cache:<sha>`
  (a user for 300 s, `invalid` for 60 s), Redis violation counter of the agent.
- Operations: verify (cache, SELECT, bcrypt over all rows, SETEX), issue, revoke,
  rotate-key, expiry cron, `incrementViolation` with its quarantine.
- Hard: a row revoked during a verification; the cache after a revocation; the
  counter with its separate EXPIRE; two hash schemes.
- Correct if: a revoked token is served for a bounded time only, a good token is
  not locked out, a token the database never accepted is never served, and a
  quarantine starts once.

### Hash-chained audit log
`src/audit/hash-chain.ts`, `src/audit/schema.sql`
- State: `audit.immutable_log` with a sequence as key.
- Operations: `appendHashChainedLog` (read the latest hash, INSERT; the pipelines
  do not await it), `verifyHashChain`, SQL `audit.verify_chain`.
- Hard: concurrent appends of a tenant; commit order against sequence order; lost
  appends; verification over the first LIMIT rows only; what of a row the hash covers.
- Correct if: appends that do not overlap give a verifiable chain, a verification that
  passes an append's hash vouches for the rows that went into it, and a reported break
  has a known cause.

### Gateway pipelines
`src/proxy/server.ts`, `src/tenant/tenant.ts`, `src/features/f11-rate-limiting.ts`, `src/analytics/usage.ts`
- State: monthly meter and rate-limit counters and replay keys in Redis, budget
  counted from `audit_log`, policies.
- Operations: `POST /mcp` (forwards), `POST /api/agent/tool-call` (preflight),
  `logAudit` with the two fail modes.
- Hard: check-then-act on the budget, audit rows that retention deletes, INCR/EXPIRE
  pairs, retries, crashes between
  effect and audit row, policies edited meanwhile, two endpoints with different
  sets of checks.
- Correct if: limits hold, or are exceeded by a known bound; a duplicate gets one
  ALLOW; nothing is answered that is not audited under `fail_closed`; a permitted
  call had a policy.

### Billing, trials, plan limits
`src/billing/overage.ts`, `src/billing/plan-limits.ts`, `src/billing/billing.ts`, `src/tenant/trial.ts`, `src/tenant/tenant.ts`, `src/cron/scheduler.ts`
- State: `usage_overage`, `billing_invoices`, a tenant's plan, status and trial
  columns and its copy in Redis `tenant:<id>` (60 s), `alert_channels` as counted
  resources, Stripe's invoices.
- Operations: overage rows from the meter, daily overage run of every process,
  trial sweep, Stripe webhooks, suspension and plan changes, plan limits before an
  INSERT.
- Hard: a crash, a decline or a lost answer between payment and its record; a month
  computed twice; limits counted before the INSERT; a sweep that overwrites by id
  what it selected; webhooks late, repeated and out of order; stale copies.
- Correct if: what the books say was collected, and no more than was used; a limit
  holds up to a bound; who paid in time is not locked out; nobody is served long
  after a suspension.

### Alerting and webhook delivery
`src/webhooks/alerting.ts`, `src/features/f13-f20-features.ts`, `src/siem/siem.ts`, `src/email/mailer.ts`
- State: `alert_rules`, `alert_channels`, their links, `alert_log` (cooldown),
  `webhook_deliveries`.
- Operations: rule and channel administration, 60 s evaluation, `fireAlert` from a
  request, dispatch, delivery records, retry sweep with dead letters, revive,
  manual retry.
- Hard: cooldown is check-then-act; rules, links and channels change between the
  queries of one dispatch; overlapping retry sweeps that decide by what they read.
- Correct if: the alerts of one cooldown are bounded, they go to channels selected
  meanwhile and keep coming while due; every failed delivery is retried and ends
  as a dead letter, not early and not after endless posts.

### Agent runtime (Python)
`agent_runtime/orchestrator/graph.py`, `agent_runtime/hitl/approval_manager.py`, `agent_runtime/security/gateway_client.py`, `agent_runtime/memory/manager.py`, `agent_runtime/rag/pipeline.py`, `agent_runtime/main.py`
- State: a run's state record; approvals and memories in PostgreSQL with a fallback
  in process memory.
- Operations: a run through supervisor, research, tool and policy nodes; preflight
  and `/mcp` calls; create, approve and reject an approval.
- Hard: two stores of approvals after a failure or a lost answer; ids that collide
  (8 characters and a second); a gateway that is down counts as ALLOW.
- Correct if: what the gateway held or refused is not executed, a run that reports
  success had its tool executed, was not answered, or got an error dressed as a 200; no
  approval is decided twice.

### UCP spending shield (`src/security/ucp_shield.ts`)
State: `ucp_cart_sessions`, `ucp_spending_limits` with the daily spend. Read, reset,
compare and write back are separate statements. Correct if what does not race stays
within the daily limit, up to what negative and NaN amounts undo.

### Agent-to-agent protocol (`src/a2a/protocol.ts`)
State: peers, method policies, replay keys in Redis (300 s). Correct if a request
that is delivered again, or late, is passed on once at most.

### Policies, versions, rollback (`src/features/policy-versions-replay.ts`, `src/dashboard/plugin.ts`)
State: `policies`, `policy_versions`. See section 6.

### Network checks (`src/security/ip-allowlist.ts`, `src/features/f12-geo-blocking.ts`)
State: `tenant_ip_allowlists` and its copy in Redis (60 s). Matching is a function on
32-bit addresses. Correct if answers follow the entries of the last minute or so.

### Others
Anomaly detection, content inspection and DLP, tenants/SSO/SCIM/provisioning,
compliance and reports, dashboard and administration, discovery/regions/realtime,
SDKs and the Kubernetes operator: see section 6.

### How the parts interact
A request is authenticated (TokenAuth), metered and checked (GatewayPipeline),
perhaps parked as an approval (HitlApproval), audited and, for enterprise tenants,
appended to the chain (HashChain). Denials raise the violation counter, which
deactivates the token the next request is authenticated with. The modules share no
variables: a pipeline feeds approvals, violations and the chain and does not read
them during the same request, so each module takes the others' behaviour as its
environment (any request may come, violate, be appended, at any time). Around the
pipelines stand the services of TenantServices; a pipeline asks them (is the address
admitted, is the tenant active) and they change no state of it. The agent runtime
is a client of both pipelines, `POST /a2a` one of `/mcp`.

## 2. Modules

`PROJECT.json` (`map`) gives the lines behind every definition. Actions that only
touch local variables are folded into the step before them; logging, formatting
and notification texts are left out.

### HitlApproval
One approval's life in two stores. `stage` is the progress of `createApproval`
(clock read, SETEX, INSERT), `decision` the row, `cache` the Redis entry, and for
each request `pc`, `job` and `seen` are the local variables of the route handler:
what it asks, and what it read when. `getApprovalStatus` is `ReadCache`,
`WriteTimeoutCache`, `WriteTimeoutDb`, `ReadDb`; `resolveApproval` is `ResolveDb`,
`ResolveReadCache`, `ResolveWriteCache`; then `Forward` and `WriteAudit`. The
upstream answers, reports an error, or the call throws and may have run.
`SlackInteract`, `AdminDecide`, `Sweep`, `SweepFails` go round the routes. The decide
route stores whatever string it is sent; `AdminDecisions` is the environment's
promise to send decisions, as the console does (`admin.html:733`). `Restart`
drops all local state. `recorded`, `executed` and `sweepable` are history
variables. `Tick` may not pass the moment the interval timer is due.

### ApprovalPromise
The same service as its clients see it, without stores, requests or sweeps: per
approval an `answer` and the set of decisions `recorded`, the approvals `closed` and
the calls that `ran`. A pending answer is followed by a decision and never comes back,
`approved` and `denied` are answered only when on record, a timeout only after the
window, tools run only on a recorded approval. `HitlApproval!Promise` instantiates
it: the answer is what a poll would be told (`Polled`, which prefers Redis over the
row), closed are the expired approvals. `KeepsPromise` is that specification; TLC
checks it and `HitlApproval_Proofs` proves it.

### TokenAuth
`row`, `active`, `expiresIn` are the columns of `agent_tokens`; `cache` maps key
prefix and token to a value with its remaining TTL, so that the quarantine's
different key is visible. `ReadCache`, `SelectRows`, `Grant`/`Deny` are the
verification, `age` the time since its SELECT; `Incr`, `SetWindow`,
`QuarantineRevoke`, `QuarantineClear`, `QuarantineAlert` the violation counter and
quarantine. `Revoke` stands for every statement that deactivates a token (agent
deletion, Terraform, GDPR erasure). `RotateKeyLeaks` is the one lasting effect
rotate-key can have: its INSERT always violates the UNIQUE key.

### HashChain
`log` maps a sequence number to a row, visible once committed. A hash is the list
of everything hashed into it, that is, SHA-256 is taken as injective. `ReadLatest`,
`Insert`, `Commit` are an append, `Lose` one that dies. `Tamper` is anything done to
one row past the table's rules, or by a plain INSERT: one column changed (`tenant_id`,
which moves the row to another chain, a hashed column, `reason` or `args_hash`, which no
hash covers, or `prev_hash`), with `row_hash` as it was or computed anew; `row_hash`
alone; the row removed; a row put in. Several columns at once are several steps.
Histories: `inserted` is what appends committed, `relinked` the tenants whose rows
were tampered with in tenant or hashes, and `sealed` the appends that were committed
while their tenant was not among them. Verification is a pure operator of the log,
since both implementations read it with one SELECT.

### GatewayPipeline
One tenant, agent and tool; the counters of others are disjoint keys. `Meter`,
`Budget`, `RateIncr`, `RateExpire`, `ScreenMcp`/`ScreenPreflight`, `CheckPolicy`,
`Replay`, `Forward`, `WriteAudit`/`AuditFails`, `Answer` follow a request down
either endpoint. Checks without state of their own answer nondeterministically.
`Fail` is any rejected await, `Crash` the death of the process (with
`fail_closed`, what a failed audit INSERT does on purpose). `EraseAudit` deletes rows of
the running month, as the daily retention (shortest age 7 days) and a GDPR erasure of
the agent do; the budget counts the rows that are left.

### AlertDispatch
A dispatcher is one call of `evaluateAlertRules` (`Cron`) or of `fireAlert` (`Fires`):
`Start` reads the rules, `Call` or `Skip` takes the next one, and `ReadRule`,
`CheckCooldown`, `ReadTargets`, `Send`, `WriteLog`/`LogFails` are the awaits of
`dispatchAlert`. Whether a threshold is reached is data, so `Skip` is always
possible for the cron. `cooling` says that the latest `alert_log` row is younger than
the cooldown. Administration is an action per statement: a rule is active before
`createRule` has linked its channels, and a channel's links go before the channel.
`CreateRule`, `LinkChannel`, `SaveChannel`, ... leave out plan limits and validation,
which refuse requests and change nothing. `offered` and `steady` are history: what was
in force at some time, and all the time, of the present call (`Observe`).

### WebhookRetry
The rows that `recordDelivery` writes for failed deliveries. `next` is `next_retry_at`
(null, in the future, past); `batch` is what the SELECT of a sweep returned, with the
`retry_count` it then decides by; `Post` and `Record` are the post and the UPDATE after
it. A retry never succeeds here because it never does in the code: `recordDelivery`
fills neither `destination_url` nor `payload_json`, the sweep posts to both, and
`axios.post(null)` throws. `ManualRetry` only counts, as the route does. It is the
continuation of a failed `Send` of AlertDispatch, and takes deliveries as they come.

### TenantServices and its seven services
Seven components that keep rows, keys and handlers of their own, each specified in a
module of its own. `TenantServices` puts them side by side: `service` says, once and for
all, which one moves. Since they share nothing, interleaving them would multiply
states and show nothing more; `ServicesAreTheirOwn` proves that a behaviour of the
suite is one of each service's own specification.

- **TenantLifecycle**: a row of `tenants`. `SweepSelect`, `SweepUpdate`, `SweepStops` are
  `enforceTrialExpiry`; `Completed`, `PaymentFailed`, `SubscriptionDeleted` Stripe's
  events; `Suspend`, `SetPlan` with `DeleteCopy` the administrators (both routes of a
  plan change); `NotCached`, `SelectTenant`, `CopyTenant` are `resolveTenant`. The row's
  writers are single statements that touch their own columns.
- **OverageBilling**: `Incr` and `Upsert` are the meter's two uses of the date, `Select`,
  `Invoice`, `Finalize`, `Pay`, `Record` a run of `processOverageBilling` in each process,
  `JobEnds` its catch and a crash. Dates are months and days, so that `setMonth` can
  overflow. It presumes the column `recorded_at` (see section 5).
- **PlanLimits**: saving, switching and deleting alert channels, with `getPlanUsage`
  (`CountUsage`, where a failed query counts as 0) and `enforcePlanLimit` (`Enforce`)
  before the INSERT. `bypassed` is the history of channels that became active with
  no count: by PATCH, by saving one that exists, by a failed count.
- **SpendShield**: `SaveCart`, `CheckCart`, `ReadLimits`, `Reset`, `Allow`, `Block` are
  `validateUcpCall`; `SetLimits`, `DeleteLimits` administration. Amounts, totals of carts
  and limits are numbers, negative ones too, or `NaN`, with the arithmetic and the
  comparisons of JavaScript (`Plus`, `Exceeds`). `raced` marks purchases that were in
  flight together, `credited` is what negative amounts took off the spend.
- **PeerMessages**: one action per check of `verifyA2ARequest`, in the code's order, then
  `CheckMethod` and `CallMcp`. Requests are delivered any number of times and their
  timestamps are anything, a date or not.
- **IpAllowlist**: `InCidr` with the shift modulo the word length, the cached list, and
  administrators between their statement and `redis.del`. `opened` and `closed` are the
  histories, in terms of what CIDR notation means (`Covers`).
- **AgentRuntime**: a run that needs a tool, with the two calls to the gateway and every
  way they can end (a 200 with the MCP server's error included: `erred`), an approval and
  a memory in two stores, approvers, a restart.

`MC*` modules hold the values of the constants only.

## 3. Runs

| run | states | shows |
|---|---|---|
| `hitl` | 384,903 | all HITL properties, and the refinement of ApprovalPromise, with two concurrent requests on one approval |
| `hitl_decided_refuses` | violation | the 409 of the approve route can be missed |
| `token_auth` | 53,188 | staleness bound, soundness of both cache values, single quarantine |
| `token_quarantine_cache` | violation | the quarantine clears a key nobody reads |
| `hash_chain` | 462,782 | what a chain verification can conclude |
| `hash_chain_continuity` | violation | overlapping appends fork the chain |
| `gateway` | 426,795 | limits, duplicates, audit and policy of both pipelines |
| `gateway_forward` | violation | `/mcp` forwards without a policy |
| `gateway_overage` | violation | a call over the limit of a paid plan is refused |
| `alert_dispatch` | 46,530 | bursts are bounded, targets are current, alerts keep coming |
| `webhook_retry` | 116,846 | retries are bounded, dead letters earned and reached |
| `tenant_services` | 815,864 | the seven services, each with its concurrent handlers and faults |

What the properties say, beyond their comments:

- `AcceptedInWindow`: an approval or denial is never accepted after expiry through
  Redis, but can be through the row (the fallback ignores `expires_at`), up to one
  sweep period after the last excuse of the sweep: the row's expiry or INSERT, a
  restart, a failed sweep. A tighter bound does not hold.
- `KeepsPromise` relates the two stores: the answer may come from a Redis entry that
  outlives or predates the row's decision, yet never falls back to pending and
  never says what nobody recorded. It may change from one final value to another,
  which the code allows; the abstract `Settle` says so.
- `ExecutionsAccounted`: the execution and its audit row are two steps; in between
  the only other outcome is a request that visibly failed. The tool may then have
  run without a row; there is no compensation in the code.
- `StaleServiceBounded`: the bound `PosTTL + MaxVerify` is reached, by a
  verification that selects the row, is overtaken by the revocation, and then
  writes the cache. `RevokedIsForgotten` says that it does not come back after
  that.
- `CacheSound`: neither a lookup error nor a race writes `invalid` for a good token, and
  a cached user means that a bcrypt row matched.
- `TamperingReported`: the row_hash of an append vouches for everything that went into
  it. A verification that gets past a row with such a hash has seen exactly the
  appends that the hash covers, so rows before it were not changed in a hashed column,
  moved, removed or put in. It says nothing of `reason`, `args_hash` and `seq`, which are
  not hashed, of rows behind LIMIT, and of the tail after the last such row: that can be cut
  off, moved or rewritten with hashes computed anew, unnoticed (section 5).
- `BreakIsAFork`: a reported broken link means that two rows share a predecessor,
  unless the tenant or the hashes of one of the tenant's rows were tampered with, a row
  removed or put in. Changing the other columns breaks no link. The verdict of a
  verification may still flip from broken to valid, as a late commit can push the broken
  row behind LIMIT. `audit.verify_chain` checks links only, and mixes tenants when called
  without one.
- `LimitsHold`: the meter is exact however requests race, and so is the tool rate limit
  for the requests it counts (a tool without a rule, or whose rule query failed, is not
  counted); the budget is exceeded by the exact price of counting audit rows: the
  requests in flight, those that ended without a row, and the rows of the month that
  were deleted.
- `AnswersJustified`: under `fail_closed` no ALLOW is answered that the log does not hold,
  and no preflight allowed that no policy permitted when it was made.
- `AlertBurstBounded`: the cooldown starts only when an alert is logged, after all its
  sends, so as many copies go out as dispatchers got past the check before; a failed
  INSERT lets one more through.
- `AlertKeepsReaching` assumes that the rule and its link stay and that the cron finds
  the threshold reached again and again (both are premises of the formula). It holds
  although `alert_log` is written when nobody was reached: such a row delays the
  alert by one cooldown.
- `PostsBounded`: the bound `MaxRetries - 1 + 2n` for n overlapping sweeps is reached
  (TLC refutes it with one less): sweeps that remember an old count each post once
  more, and again before the first of them writes the dead letter.
- `RateLimitRecovers` has the escape `leaked`: a handler that dies between INCR
  and EXPIRE leaves a counter without TTL and the tool blocked for good.

- `SuspensionJustified`: a checkout that completes before the sweep selects the tenant is
  safe, whatever Stripe sends later; one that completes during or after it is not, since
  no event sets `active`. The second half bounds the stale copy by TTL and the delay
  of one lookup, because `redis.del` can be lost or overtaken by a SETEX.
- `ChargesAccounted`: every row of the books stands for an invoice that was collected, a
  run charges once, and for no more calls than the month's counter showed, except in a
  month whose row got the old month's count. That a month is billed only once is not
  claimed: it fails on the first daily run after the first.
- `OvershootBounded`: the counted channels exceed the largest limit by at most the other
  handlers that may hold a count of before.
- `DailySpendBounded`: holds of purchases that did not race, over stale rows, resets, lost
  answers, edits. Of two that race, one is overwritten and the limit is no limit. A
  negative amount re-opens the limit by its size, and with NaN as the day's spend, or as a
  limit, there is none: the formula states these as they are (section 5).
- `AcceptedOnce`: `Freshness <= KeyTTL` makes the key outlive the request, except when it
  was taken before the timestamp, or when there is no date (`NaN > 300000` is false).
- `AllowlistFollowed`: answers follow what the entries meant within the last TTL plus one
  lookup's delay, an entry with `/0` apart, and the cache differs from them only for a
  reason.
- `VerdictsAccounted` counts verdicts against stored copies: an approval stored once is
  decided once; one whose INSERT answer was lost is stored twice.
- `RunsAreHonest`: only what the gateway allowed is executed; "completed" may still mean
  that nobody answered, or that the MCP server answered with an error.

### Bounds
- `hitl`: one approval (approvals share no state but the sweep, which treats each
  row alone), two requests (each hazard is a race of two; sweep, Slack and
  administrator are further actors), three actors (decider, wrong role, wrong
  tenant), `Window`, `DecidedTTL`, `SweepPeriod` of one tick and a clock up to 3, so
  that expiry, eviction of both kinds of entries and a late sweep all happen.
  `MaxTime` bounds the clock; approvals start only if it lets them expire.
- `token_auth`: one token (keys and rows of different tokens are disjoint), two
  handlers; TTLs count down instead of absolute times, so nothing bounds the
  length of a behaviour. The violation counter is capped just above the threshold,
  where all values behave alike.
- `hash_chain`: two writers and two tenants, so that a fork, a gap, a commit out of
  order and a foreign row in between can occur; `MaxRows` = 3 ends the behaviours,
  hence no deadlock check; `Limit` = 2 is smaller than a full log; `MaxTampers` = 1 row
  tampered with, at any time, appends continuing after it (the theorems have no such
  bound). Symmetry over writers, tenants and contents (no property tells them apart).
  `hash_chain_continuity` runs without tampering.
- `gateway`: two handlers, one replay identity, three calls in a month
  (`MaxCalls`), which exceed every limit (2, 1, 1), any of the rows deleted; a deployment
  for each action on an exceeded budget, with and without `fail_closed`, the hard limit
  and the column that overage rows need.
- `alert_dispatch`: one rule (rules share only the loop that visits them), one channel
  and the rule's own destination, one evaluation and one `fireAlert`, one failing
  query. A second channel adds no new order of steps, since selected targets are
  independent of each other.
- `webhook_retry`: one delivery, two sweeps, the code's five delays, two revivals, a
  manual retry and a fault. Rows of a batch only delay each other, and a sweep may be
  arbitrarily slow between its SELECT and a post, so one row meets every interleaving;
  LIMIT therefore does not bind.

- `tenant_services`: two handlers of each kind that races (sweepers, processes, savers,
  checkouts, deliveries, deciders), one of the others; three months of one, two and one
  days, so that `setMonth` overflows and a month ends under a running meter; three
  channels, all counted as alert channels and as integrations; two days of purchases with
  amounts -1, 1, 2 and NaN against a limit of 1, 2 or NaN (`MaxSpend` stops purchases once
  what is counted, credited or stored exceeds it); a clock of six ticks
  against a freshness and key lifetime of two; addresses of two bits with prefixes of
  0, 1 and 2 bits, which makes the shift wrap as 32 does; two runs with one approval id.
  `LastMonth`, `MaxOver`, `LastDay`, `LastTime` are the bounds that end behaviours, hence
  no deadlock check. Symmetry over checkouts and over savers.

### Fairness
- `HitlApproval`: `WF(Sweep)` since `setInterval` keeps firing and the database
  does not reject every sweep; `WF(Tick)`. Nobody has to poll, decide or restart.
  `EventuallyDecided` does not rest on fairness of requests.
- `TokenAuth`, `GatewayPipeline`: `WF` of time and of the handlers' steps (the event
  loop runs every continuation). Failures are never forced nor excluded.
- `AlertDispatch`: `WF` of the evaluation timer, of each dispatcher's steps (thresholds
  are not forced) and of the end of a cooldown. `WebhookRetry`: `WF` of time, of
  starting a sweep and of its steps; faults and revivals are bounded, never forced.
- `HashChain` and the services state no liveness.

## 4. Proofs

Every safety invariant and every action property of the passing runs is a theorem, for
every value of the constants that satisfies the module's assumption (two of
HitlApproval under a condition on administrators, named below). Eight modules hold
the theorems. Each proof has the same shape: an invariant that contains the property
and what makes it inductive, one lemma per action (or group of actions) that keeps it,
and a last step that combines them.

The assumptions give the constants their types, and where a proof needs more, what any
deployment has: actors that are counted form a finite set (`Sweepers`, `Cron`, `Fires`,
`Handlers`, `Savers`), at least one of `Handlers` and `Savers` exists, `MaxRetries >= 1`
(it is 5 in the code), `LastMonth >= 1` (the clock starts in month 1), names of rules,
channels and the marks for "none" are different values, and `TopLimit` is the largest of
the plans' limits. TLC evaluates them in the runs.

### HitlApproval_Proofs (`HitlAssumption`)

| theorem | statement |
|---|---|
| `TypeCorrect` | `Spec => [](TypeOK /\ JobOK)` |
| `DecisionsRecorded` | `Spec => []CacheDecisionWasRecorded` |
| `ExecutionsApproved` | `Spec => ExecutionWasApproved` (an action property) |
| `TimeoutsOnlyAfterWindow` | `Spec => []TimeoutOnlyAfterWindow`, if administrators do not submit `timeout` themselves |
| `AcceptedLateByOneSweep` | `Spec => []AcceptedInWindow` |
| `ExecutionsAreAccounted` | `Spec => []ExecutionsAccounted` |
| `HandlersKeepPromise` | `Spec => KeepsPromise` (the refinement), under the same condition on `timeout` |

`JobOK` (a request in flight has a job) makes types inductive.
`CacheDecisionWasRecorded` is not inductive alone, since the step that fills Redis
only knows that it is at `cacheWrite`. `DecisionInv` adds `RowExists` (a request
works on an approval whose row exists, so the UPDATE of `ResolveDb` hits a row),
`RecordedFirst` (a request past `ResolveDb` has its verdict in the history) and
`DeciderOK` (only deciders of the owning tenant get past the check). `StepMonotone`
and `StepOneMoves` (histories grow, one request moves at a time) carry facts about
the other requests over a step. For timeouts, `TimeoutInv` adds that a request in the
timeout branch works on an expired approval. For late decisions, `SweepInv` says that
the sweep has not run since a pending row became sweepable, and that the timer is
never later than one period; a request that reads "pending" takes that bound along.
For executions, `AllSettled` says where a request that executed can be: before its audit
row, failed, or done with the row.

For the refinement, `PollInv` says how the two stores agree: nothing is
recorded or decided in Redis before the row is there, a row keeps to what is recorded
and stays decided once anything final is, and a decided Redis entry either is the
timeout entry without TTL or has a decided row behind it. So an entry that expires or
is overwritten never uncovers a pending row. `RowSteps` and `CacheSteps` say what a step
does to each store of one approval, `AnswerStep` what that does to the answer.

### TokenAuth_Proofs (`TokenAssumption`)

`TokenTypesHold`, `StaleServiceIsBounded`, `CacheIsSound`, `OneQuarantineOnly`, for any
tokens, requests and TTLs. `TokenInv` adds `CacheEntries` (what remains of a cached
user's TTL and the time its row has been invalid together are at most
`PosTTL + MaxVerify`), `Verifications` (the same of what a verification is about to
write, in terms of the age of its SELECT), `HistoryStarts` and `Counters`.

### HashChain_Proofs (`ChainAssumption`)

| theorem | statement |
|---|---|
| `ChainTypeCorrect` | `Spec => []TypeOK` |
| `RowsLinkToOlderRows` | `Spec => []LinksToOlderRow` |
| `TamperingIsReported` | `Spec => []TamperingReported` |
| `BreaksAreForks` | `Spec => []BreakIsAFork` |
| `SequentialChainIsValid` | `Spec => []SequentialChainValid` |

For any tenants, writers (not necessarily finitely many) and contents, any length of the
table, any LIMIT and any number of rows tampered with. `ChainInv` says how a row came to
be: what an append committed carries its own hash (`InsertedHashes`), the seq of an INSERT
that has not committed belongs to one writer and to no row (`DrawnIsOwn`), the
`prev_hash` a writer read is that of an append older than the one it will insert
(`ReadsAreOlder`: the row was committed, so its seq was drawn before), and so the sealed
appends link to one another (`SealedLinks`). Of a tenant whose links nobody tampered with,
the rows are just the sealed appends (`Untouched`), which gives `LinksToOlderRow`.

What a verification reports is then a fact about one state. The first bad row is the least
of a set of numbers. A row whose recomputed hash differs was tampered with, since
`InsertedHashes` says that it had its own (`MismatchIsTampering`). For the other half of
`TamperingReported`, the rows before the first bad one each link to the row before and hash
to their `row_hash` (`GoodUpTo`); so the hash of a row is the list of the contents of all
rows up to it, and if an append wrote it, the same list leads back through the sealed
appends: the rows are covered (`RowsAreCovered`) and the covered appends are there
(`CoveredHaveRows`). Both rest on injectivity (`SameHashSameData`). If a link is broken and
the tenant's links are untouched, the predecessor `u` of the row (an older row, or the
genesis hash) also is the predecessor of the tenant's next row after `u`: a fork
(`BreakForks`). `SequentialChainIsValid` needs one more invariant, `LoneChain`: while no two
appends of a tenant have overlapped, at most one is under way, what it read is still the
latest row's hash, and the seq it draws is larger than every row of the tenant.

### GatewayPipeline_Proofs (`PipelineAssumption`)

| theorem | statement |
|---|---|
| `PipelineTypeCorrect` | `FairSpec => []TypeOK` |
| `LimitsAlwaysHold` | `FairSpec => []LimitsHold` |
| `DuplicatesAllowedOnce` | `FairSpec => []DuplicateAllowedOnce` |
| `AnswersAreJustified` | `FairSpec => []AnswersJustified` |

For any finite number of concurrent handlers, any replay identities, limits, windows and
deployments. Fairness is not used. `PipelineInv` has one part per counter or key:
`BudgetCounted` (a request that the budget admitted has its audit row, had one that was
deleted, lost it, or is still with a handler: the numbers of these add up),
`RateKey` (between INCR and EXPIRE there is one handler at most, the one that created the
counter, and its call is counted but has not passed), `GrantsKeyed` (a grant has a live
replay key, so the next one finds it), `AnswersCovered` (under `fail_closed` the ALLOW
answers sent and those about to be sent are at most the ALLOW rows, deleted ones included),
`Permissions` (a
handler past the policy check is in the set of those that met a policy in force). Each
is a statement about how many handlers are at some program points; `Count` and the
lemmas on moves of handlers say how one step changes such a number.

### AlertDispatch_Proofs (`DispatchAssumption`)

`DispatchTypes`, `AlertBursts` (`Spec => []AlertBurstBounded`) and `TargetsStayCurrent`
(`Spec => TargetsAreCurrent`, an action property), for any rules and channels and any
finite sets of dispatchers. For bursts, `PassesAccounted` is the missing half: while a
rule is not cooling, each pass of the quiet period belongs to a dispatch still under way
or to one that failed to log. For targets, `SeesInForce` relates the histories of a call
to the present: what is in force now has been offered to each dispatcher of the rule that
has not read its targets, and what was offered to it all the time still is in force;
`SawRule` that past its SELECT of the rule, the rule itself was offered.

### WebhookRetry_Proofs (`RetryAssumption`)

`RetryTypes`, `DeadLettersEarned` (`Spec => []DeadLetterEarned`) and `PostsAreBounded`
(`Spec => []PostsBounded`), for any deliveries, any finite set of sweeps and any
`MaxRetries >= 1`. A sweep decides by a remembered count, so `DeadLetterEarned` is not
inductive: `RetriesCounted` says that every increment of `retry_count` was paid for by a
post or a manual retry, with the posts under way still in credit, and `SnapshotsCounted`
says the same of every remembered count, strictly once its row has been posted. Revivals
only lower counts. For the bound on posts, `PostsCharged` says that the posts made and
those that can still follow (`Allowance`) are at most the bound: below the limit, the
attempts that are left and two more for each sweep; at the limit, one for each sweep that
is not posting and one for each that remembers a count below it; for a dead letter, only
the rows that sweeps still hold in their batch.

### Spending_Proofs (`PlanAssumption`, `BillingAssumption`, `SpendAssumption`)

- `OvershootIsBounded` (`PlanSpec => []OvershootBounded`), for any finite set of savers,
  any channels and any plans. `PlanRoom` bounds the counted channels together with the
  `Holders`, the savers whose check let them through or will: a save trades one for the
  other, and a saver becomes a holder only when its count is below the largest limit.
- `ChargesAreAccounted` (`BillSpec => []ChargesAccounted`), for any processes, months of
  any length and amounts. `NoLaterInvoice` (no invoice is dated in the future, so what a
  run creates is new), `RunsInvoiceInOrder` (which invoice of its own a run has at each
  step, and in which state), `RowsFollowMeter` (the overage row, and what a run has read
  of it, is at most what the counter showed, straddled months apart; counters only grow).
- `DailySpendIsBounded` (`SpendSpec => []DailySpendBounded`), for any checkouts, amounts,
  totals and limits, integers and NaN. The invariant says what covers the spend that is
  counted, together with what was credited or as long as it is not NaN (`Backs`): the row,
  if it was reset today (`RowCovers`), and what every checkout in flight read
  (`ReadsCover`), since nothing is counted while one is in flight; that one which did not
  race is alone (`UnracedAlone`) and finds the row as it read it (`UnracedSees`). While a
  spend read or stored is a number, the limit held so far (`Limited`), and a reset turns
  NaN into 0 only before anything is counted that day (`NothingBeforeReset`).

### TenantServices_Proofs (the assumptions of the seven services)

- `RequestsAreAcceptedOnce` (`PeerSpec => []AcceptedOnce`): a key that was taken at or
  after the timestamp outlives the request's freshness (`KeyCovers`), so a second delivery
  gets past the key only when the request is over, and `CheckFresh` refuses it (`OneLive`,
  `AcceptedIsOver`).
- `VerdictsAreAccounted` (`RuntimeSpec => []VerdictsAccounted`; `PendingAccounted`:
  verdicts and copies still pending together are at most the copies stored) and
  `RunsStayHonest` (`RuntimeSpec => []RunsAreHonest`).
- `SuspensionIsJustified` (`TenantSpec => []SuspensionJustified`; `PaidIsSafe`: once paid
  in time, no sweeper holds the tenant and its status is not `trialing`; `CopyIsRecent`:
  the age of what a copy says and its remaining TTL are bounded together).
- `AllowlistIsFollowed` (`IpSpec => []AllowlistFollowed`), for any word length, prefixes,
  handlers and lifetimes. `MatchMeans` says that the code's masks compare what CIDR
  notation compares, except for `/0`, whose shift wraps; it rests on `SameQuotient` (two
  numbers have the same quotient exactly if they lie in the same block). `EntriesAreNow`,
  `ReadsAge` and `CacheAges` then bound the age of the list an answer is computed from.
- `ServicesAreTheirOwn`: a behaviour of the suite is, for each service, a behaviour of
  its own specification. `ServicesAreTyped` and `ServicesKeepPromises` carry all types
  and all eight properties over to the suite, the specification that the run checks.

### Model-checked only

The five liveness properties (`EventuallyDecided`, `RevokedIsForgotten`,
`RateLimitRecovers`, `AlertKeepsReaching`, `EventuallyDeadLettered`): they rest on
fairness, and with it on ENABLED, which the prover does not support. The runs that end in
a violation are counterexamples, not theorems. The runs also remain the evidence that the
theorems say something: their mutants show that each property fails when the code is
changed.


## 5. Disagreements with comments and documentation

Each is a run that TLC must find violated (`findings` in `PROJECT.json`):
`DecidedRefusesApproval` (the 409 of `approval.ts:485` looks at a stale copy),
`QuarantineClearsCache` (`quarantine.ts:36` deletes `auth:token:*`, the cache is
`agent_token_cache:*`), `ChainContinuous` (`hash-chain.ts:34`),
`ForwardWasPermitted` (`server.ts:363`: the `/mcp` pipeline has no policy, anomaly or
replay check), `OverageIsNotBlocked` (`tenant.ts:96` "don't block": the INSERT names a
column no migration creates, its error is thrown out of the meter, and the caller
answers 403).

Noted while reading and not stated as runs: retries of failed deliveries post to no URL
(`alerting.ts:329` against `f13-f20-features.ts:1066`) and the manual retry announces
`queued` and queues nothing (`future-features.ts:63`), both visible in `WebhookRetry`;
the first retry is due after five minutes where the comment of
`f13-f20-features.ts:1041` starts at one; the pending counts of
`approval.ts:577`, `admin.ts:675` and `dashboard/plugin.ts:621` ask for
`decision IS NULL` and are always 0; notification links are GET links to POST
routes; a failed query of the HITL feature flag counts as flag off; a budget with
`require_hitl` files an approval and answers 202 without an audit row (`server.ts:459`,
`:729`), so such calls do not count toward the budget; SCIM and cloud
provisioning store SHA-256 hashes, which bcrypt never matches (`TokenAuth` has such
rows: `IssuedTokenWorks` states what the comment of `scim.ts:132` expects of them and
fails on them).

- Hash chain: `hash-chain.ts:8` "Any tampered row breaks the chain" is true of the columns
  that are hashed, up to the last row with an append's hash. It is not true of `reason` and
  `args_hash`, of `seq`, nor of the end of a chain, which can be cut off, moved to another
  tenant or rewritten with new hashes (`TamperingReported` leaves exactly these out).
- Limits: retention, which a tenant may set to 7 days, and GDPR erasure delete rows that
  the running month's budget counts, so the budget opens again (`EraseAudit`).

Noted in the services, each visible in its module:

- Overage: the guard of `overage.ts:21` matches no id the INSERT writes, so every daily run
  bills the month again; `setMonth` on the last days of a long month bills the running
  one.
- Lifecycle: `unsuspend` (`admin.ts:385`) numbers its one parameter `$2` and always fails;
  no Stripe event sets `active`, so paying during or after the trial's sweep does not let
  a tenant in; a succeeded payment leaves `past_due`; a completed checkout changes the plan
  and not `api_calls_limit`.
- Plan limits: switching a channel on, or saving one that exists, asks for no limit; a
  failed count is 0.
- Shield: a new limit keeps yesterday's spend as today's; purchases a human approved are
  never added to the spend; the amount is an unchecked `parseFloat` (`ucp_shield.ts:86`), so
  NaN passes the cart check and both limits and, once stored, lets every purchase of the
  day pass, and a negative amount re-opens the limit.
- Peers: the lookup of a peer names no tenant (`protocol.ts:99`); revoking a peer leaves its
  method policy; a timestamp that is no date is fresh.
- Allowlist: `/0` matches one address; a removed entry's row keeps its UNIQUE key, so
  it can never be added again.
- Runtime: its approvals are not the gateway's (`approvalId` of the 202 is not used); a
  status it does not know, and no answer at all, counts as ALLOW with a simulated result;
  an error of the MCP server, which `/mcp` books as DENY and sends with a 200
  (`server.ts:580`, `:616`), is taken as ALLOW and kept as a completed task
  (`gateway_client.py:140`);
  `get_approval` does not look into process memory, where `approve_request` does.

## 6. Not modelled

- Policy versions and rollback: `JSON.parse` of the JSONB snapshot throws before a row is
  changed (`policy-versions-replay.ts:71`, `:101`), so no step of the rollback is ever taken.
- Content inspection, DLP, anomaly scoring, geo-blocking: functions of payloads or of an
  external service, no protocol state; their answers are nondeterministic in
  GatewayPipeline.
- Members, SSO, SCIM, provisioning, dashboard and administration: rows edited one
  statement at a time, except for tokens, approvals, tenants, channels, spending limits
  and allowlists, which are modelled.
- Checkout and portal routes, invoices of subscriptions, warning mails; the outgoing A2A
  call; the runtime's routing, retrieval and language model: one call out and back with
  nothing kept that another step reads.
- Compliance, reports, retention: read-only, or DELETEs by age or agent; of these only the
  one that other modelled state depends on is modelled (audit rows, `EraseAudit` of
  GatewayPipeline).
- Discovery, regions, realtime, sandbox, metrics, health: network and process I/O.
- OAuth/JWKS providers, Stripe, Slack, SMTP, upstream MCP servers: external; the
  parts of them the code relies on are environment actions.
- SDKs, Kubernetes operator: clients of the gateway.
- `inspector-bundle.js`: 66,398 lines of a bundled third-party tool, most of the
  repository by lines.

## 7. What could come next

1. Proofs: the chain of `audit.verify_chain` over all tenants, and refinements of
   abstract specifications for the meter (exact) and the budget (exact up to what is
   under way), as `ApprovalPromise` is for approvals.
2. A composition of TokenAuth and GatewayPipeline in which the pipeline's violations feed
   the quarantine.
3. The Kubernetes operator's reconcile loop, and the clients' retries against the replay
   keys of GatewayPipeline.
