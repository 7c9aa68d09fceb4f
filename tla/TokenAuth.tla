----------------------------- MODULE TokenAuth -----------------------------
(***************************************************************************)
(* Bearer tokens of agents: verifyBearerToken with its Redis cache         *)
(* (auth/oauth.ts), the automatic quarantine (security/quarantine.ts), the *)
(* ways a token is issued, revoked and expires, and the cleanup cron       *)
(* (cron/scheduler.ts).                                                    *)
(*                                                                         *)
(* agent_tokens.agent_id is UNIQUE (db/schema.sql:32), so an agent has one *)
(* token and a token stands for its agent.  Every await is a step of its   *)
(* own.  Time is relative: TTLs count down on Tick, so behaviours are      *)
(* unbounded while the state space is finite.                              *)
(***************************************************************************)
EXTENDS Integers

CONSTANTS
    Tokens,        \* tokens handed out; each belongs to one agent
    Requests,      \* request handlers, each serving one request after another
    PosTTL,        \* SETEX of a valid token (300 s)
    NegTTL,        \* SETEX of 'invalid' (60 s)
    MaxVerify,     \* longest time from the SELECT to the SETEX (bcrypt over all rows)
    MaxViolations, \* violations that quarantine an agent (3)
    ViolWindow,    \* lifetime of the violation counter (300 s)
    Grace          \* grace period of a rotated key

NoExpiry == -1
NONE     == "none"
Prefixes == {"agent_token_cache", "auth:token"}
Hashes   == {"bcrypt", "sha256"}

ASSUME TokenAssumption ==
    /\ PosTTL \in Nat \ {0} /\ NegTTL \in Nat \ {0} /\ MaxVerify \in Nat
    /\ MaxViolations \in Nat \ {0, 1} /\ ViolWindow \in Nat \ {0} /\ Grace \in Nat \ {0}

VARIABLES
    row,        \* agent_tokens: NONE or the hash the token was stored with
    active,     \* agent_tokens.active
    expiresIn,  \* time to expires_at, NoExpiry for NULL
    cache,      \* Redis, <<prefix, token>> -> [val, ttl]
    violations, \* Redis quarantine:violations:<agent>, 0 for no key
    violTTL,    \* its TTL, NoExpiry when EXPIRE has not been set
    pc, tok,    \* per handler: next step and the token presented
    age,        \* per handler: time since its SELECT
    invalidFor, \* history: time since the row stopped being valid, capped
    triggers    \* history: quarantines started by the counter key's current life

vars == <<row, active, expiresIn, cache, violations, violTTL, pc, tok, age, invalidFor,
          triggers>>
rowVars     == <<row, active, expiresIn>>
counterVars == <<violations, violTTL, triggers>>

-----------------------------------------------------------------------------
AuthKey(t)  == <<"agent_token_cache", t>>  \* oauth.ts
ClearKey(t) == <<"auth:token", t>>         \* quarantine.ts
NoEntry == [val |-> NONE, ttl |-> 0]

\* The row passes the SELECT of verifyBearerToken.
Selected(t) == row[t] # NONE /\ active[t] /\ expiresIn[t] # 0

\* bcrypt.compare only matches a bcrypt hash.
Usable(t) == Selected(t) /\ row[t] = "bcrypt"

\* Mutant of Dec: counts below zero
DecAlways(n) == n - 1
Dec(n) == IF n > 0 THEN n - 1 ELSE n
CapAt(n, m) == IF n < m THEN n ELSE m
StaleCap == PosTTL + MaxVerify + 1

Pcs == {"idle", "select", "grant", "deny", "serve", "incr", "expire", "revoke", "clear",
        "alert"}
Verifying == {"grant", "deny"}

Goto(r, next) == pc' = [pc EXCEPT ![r] = next]

Init ==
    /\ row = [t \in Tokens |-> NONE]
    /\ active = [t \in Tokens |-> FALSE]
    /\ expiresIn = [t \in Tokens |-> NoExpiry]
    /\ cache = [k \in Prefixes \X Tokens |-> NoEntry]
    /\ violations = [t \in Tokens |-> 0]
    /\ violTTL = [t \in Tokens |-> NoExpiry]
    /\ pc = [r \in Requests |-> "idle"]
    /\ tok \in [Requests -> Tokens]
    /\ age = [r \in Requests |-> 0]
    /\ invalidFor = [t \in Tokens |-> 0]
    /\ triggers = [t \in Tokens |-> 0]

-----------------------------------------------------------------------------
(* The life of a row.                                                      *)

\* A token is issued: dashboard and Terraform store a bcrypt hash, cloud
\* provisioning and SCIM a SHA-256 hash.  The raw token is only returned
\* after the INSERT, so nobody presents it before.
Issue(t, h) ==
    /\ row[t] = NONE
    /\ row' = [row EXCEPT ![t] = h]
    /\ active' = [active EXCEPT ![t] = TRUE]
    /\ UNCHANGED <<expiresIn, cache, counterVars, pc, tok, age, invalidFor>>

\* DELETE /api/agents/:id, the Terraform delete, the GDPR erasure: the row is
\* deactivated, the cache is left alone.
Revoke(t) ==
    /\ row[t] # NONE
    /\ active' = [active EXCEPT ![t] = FALSE]
    /\ UNCHANGED <<row, expiresIn, cache, counterVars, pc, tok, age, invalidFor>>

\* rotate-key: the INSERT of a second row for the agent violates UNIQUE, so
\* the route always fails.  BEGIN, the UPDATEs and ROLLBACK are sent to the
\* pool and not to one client: under load the UPDATE that schedules the old
\* key's expiry runs outside the transaction and stays.
RotateKeyLeaks(t) ==
    /\ row[t] # NONE /\ active[t] /\ expiresIn[t] = NoExpiry
    /\ expiresIn' = [expiresIn EXCEPT ![t] = Grace]
    /\ UNCHANGED <<row, active, cache, counterVars, pc, tok, age, invalidFor>>

\* The five-minute cleanup: one UPDATE over all expired rows
ExpiryCron ==
    /\ active' = [t \in Tokens |-> active[t] /\ expiresIn[t] # 0]
    /\ UNCHANGED <<row, expiresIn, cache, counterVars, pc, tok, age, invalidFor>>

-----------------------------------------------------------------------------
(* verifyBearerToken.                                                      *)

\* Mutant of ReadCache: a hit renews the TTL
ReadCacheSliding(r, t) ==
    /\ pc[r] = "idle"
    /\ row[t] # NONE
    /\ tok' = [tok EXCEPT ![r] = t]
    /\ \/ /\ cache[AuthKey(t)].val = "user"
          /\ Goto(r, "serve")
          /\ cache' = [cache EXCEPT ![AuthKey(t)].ttl = PosTTL]
       \/ Goto(r, "select") /\ UNCHANGED cache
    /\ UNCHANGED <<rowVars, counterVars, age, invalidFor>>

\* redis.get: a cached user is served, 'invalid' is a 401, a miss or a Redis
\* error falls through to the database.
ReadCache(r, t) ==
    /\ pc[r] = "idle"
    /\ row[t] # NONE
    /\ tok' = [tok EXCEPT ![r] = t]
    /\ \/ cache[AuthKey(t)].val = "user" /\ Goto(r, "serve")
       \/ cache[AuthKey(t)].val = "invalid" /\ UNCHANGED pc
       \/ Goto(r, "select")
    /\ UNCHANGED <<rowVars, cache, counterVars, age, invalidFor>>

\* Mutant of SelectRows: an error of the lookup counts as no match
SelectRowsErrorDenies(r) ==
    /\ pc[r] = "select"
    /\ \E next \in Verifying : Goto(r, next) /\ (next = "grant" => Usable(tok[r]))
    /\ age' = [age EXCEPT ![r] = 0]
    /\ UNCHANGED <<rowVars, cache, counterVars, tok, invalidFor>>

\* The SELECT; bcrypt then works on these rows, whatever happens to them.
SelectRows(r) ==
    /\ pc[r] = "select"
    /\ Goto(r, IF Usable(tok[r]) THEN "grant" ELSE "deny")
    /\ age' = [age EXCEPT ![r] = 0]
    /\ UNCHANGED <<rowVars, cache, counterVars, tok, invalidFor>>

\* SETEX, whose failure is ignored
Cache(r, val, ttl) ==
    \/ cache' = [cache EXCEPT ![AuthKey(tok[r])] = [val |-> val, ttl |-> ttl]]
    \/ UNCHANGED cache

Grant(r) ==
    /\ pc[r] = "grant"
    /\ Cache(r, "user", PosTTL)
    /\ Goto(r, "serve")
    /\ age' = [age EXCEPT ![r] = 0]
    /\ UNCHANGED <<rowVars, counterVars, tok, invalidFor>>

Deny(r) ==
    /\ pc[r] = "deny"
    /\ Cache(r, "invalid", NegTTL)
    /\ Goto(r, "idle")
    /\ age' = [age EXCEPT ![r] = 0]
    /\ UNCHANGED <<rowVars, counterVars, tok, invalidFor>>

\* The authenticated request goes through the pipeline: it violates a rule or not.
Serve(r) ==
    /\ pc[r] = "serve"
    /\ \E next \in {"idle", "incr"} : Goto(r, next)
    /\ UNCHANGED <<rowVars, cache, counterVars, tok, age, invalidFor>>

-----------------------------------------------------------------------------
(* incrementViolation.  Counts above the threshold are all alike.          *)

\* Mutant of AfterIncr: threshold compared with >=
AfterIncrAtLeast(n) == IF n = 1 THEN "expire" ELSE IF n >= MaxViolations THEN "revoke" ELSE "idle"

AfterIncr(n) ==
    CASE n = 1             -> "expire"
      [] n = MaxViolations -> "revoke"
      [] OTHER             -> "idle"

Incr(r) ==
    LET t == tok[r]
        n == violations[t] + 1 IN
    /\ pc[r] = "incr"
    /\ violations' = [violations EXCEPT ![t] = CapAt(n, MaxViolations + 1)]
    /\ Goto(r, AfterIncr(n))
    /\ triggers' = [triggers EXCEPT ![t] = IF AfterIncr(n) = "revoke" THEN @ + 1 ELSE @]
    /\ UNCHANGED <<rowVars, cache, violTTL, tok, age, invalidFor>>

\* EXPIRE; on a key that is gone it does nothing
SetWindow(r) ==
    LET t == tok[r] IN
    /\ pc[r] = "expire"
    /\ violTTL' = [violTTL EXCEPT ![t] = IF violations[t] > 0 THEN ViolWindow ELSE NoExpiry]
    /\ Goto(r, "idle")
    /\ UNCHANGED <<rowVars, cache, violations, triggers, tok, age, invalidFor>>

QuarantineRevoke(r) ==
    /\ pc[r] = "revoke"
    /\ active' = [active EXCEPT ![tok[r]] = FALSE]
    /\ Goto(r, "clear")
    /\ UNCHANGED <<row, expiresIn, cache, counterVars, tok, age, invalidFor>>

\* "2. Clear Auth Cache": DEL auth:token:<sha>
QuarantineClear(r) ==
    /\ pc[r] = "clear"
    /\ cache' = [cache EXCEPT ![ClearKey(tok[r])] = NoEntry]
    /\ Goto(r, "alert")
    /\ UNCHANGED <<rowVars, counterVars, tok, age, invalidFor>>

QuarantineAlert(r) ==
    /\ pc[r] = "alert"
    /\ Goto(r, "idle")
    /\ UNCHANGED <<rowVars, cache, counterVars, tok, age, invalidFor>>

\* The handler stops where it is: a store call throws (incrementViolation
\* swallows it, verifyBearerToken answers 500) or the gateway restarts.
Abort(r) ==
    /\ pc[r] # "idle"
    /\ Goto(r, "idle")
    /\ age' = [age EXCEPT ![r] = 0]
    /\ UNCHANGED <<rowVars, cache, counterVars, tok, invalidFor>>

-----------------------------------------------------------------------------
\* One unit of time.  Redis drops what runs out, expires_at comes nearer, and
\* a verification takes no longer than MaxVerify.
Tick ==
    /\ \A r \in Requests : pc[r] \in Verifying => age[r] < MaxVerify
    /\ expiresIn' = [t \in Tokens |-> Dec(expiresIn[t])]
    /\ cache' = [k \in Prefixes \X Tokens |->
                    IF cache[k].ttl <= 1 THEN NoEntry
                    ELSE [cache[k] EXCEPT !.ttl = @ - 1]]
    /\ violTTL' = [t \in Tokens |-> IF violTTL[t] = 1 THEN NoExpiry ELSE Dec(violTTL[t])]
    /\ violations' = [t \in Tokens |-> IF violTTL[t] = 1 THEN 0 ELSE violations[t]]
    /\ triggers' = [t \in Tokens |-> IF violTTL[t] = 1 THEN 0 ELSE triggers[t]]
    /\ age' = [r \in Requests |-> IF pc[r] \in Verifying THEN age[r] + 1 ELSE age[r]]
    /\ invalidFor' = [t \in Tokens |->
                         IF row[t] = NONE \/ Selected(t) THEN 0
                         ELSE CapAt(invalidFor[t] + 1, StaleCap)]
    /\ UNCHANGED <<row, active, pc, tok>>

Verify(r) == SelectRows(r) \/ Grant(r) \/ Deny(r)
Quarantine(r) ==
    Incr(r) \/ SetWindow(r) \/ QuarantineRevoke(r) \/ QuarantineClear(r) \/ QuarantineAlert(r)

Next ==
    \/ \E t \in Tokens, h \in Hashes : Issue(t, h)
    \/ \E t \in Tokens : Revoke(t) \/ RotateKeyLeaks(t)
    \/ ExpiryCron
    \/ \E r \in Requests, t \in Tokens : ReadCache(r, t)
    \/ \E r \in Requests : Verify(r) \/ Serve(r) \/ Quarantine(r) \/ Abort(r)
    \/ Tick

Spec == Init /\ [][Next]_vars

\* Handlers run on and time passes.
FairSpec == Spec /\ WF_vars(Tick) /\ \A r \in Requests : WF_vars(Verify(r))

-----------------------------------------------------------------------------
(* Properties.                                                             *)

TypeOK ==
    /\ row \in [Tokens -> Hashes \cup {NONE}]
    /\ active \in [Tokens -> BOOLEAN]
    /\ expiresIn \in [Tokens -> Nat \cup {NoExpiry}]
    /\ cache \in [Prefixes \X Tokens -> [val : {NONE, "user", "invalid"}, ttl : Nat]]
    /\ violations \in [Tokens -> 0..(MaxViolations + 1)]
    /\ violTTL \in [Tokens -> Nat \cup {NoExpiry}]
    /\ pc \in [Requests -> Pcs]
    /\ tok \in [Requests -> Tokens]
    /\ age \in [Requests -> Nat]
    /\ invalidFor \in [Tokens -> Nat]
    /\ triggers \in [Tokens -> Nat]

\* A revoked, quarantined or expired token is served from the cache no longer
\* than PosTTL plus one verification after its row stopped being valid,
\* however the cache write races the revocation.
StaleServiceBounded ==
    \A t \in Tokens :
        cache[AuthKey(t)].val = "user" /\ ~Selected(t)
            => invalidFor[t] + cache[AuthKey(t)].ttl <= PosTTL + MaxVerify

\* The negative cache never locks a good token out: while 'invalid' is cached
\* the database would not accept the token either.
NegativeEntrySound ==
    \A t \in Tokens : cache[AuthKey(t)].val = "invalid" => ~Usable(t)

\* A token the database never accepted is not served: a cached user was
\* selected and matched by bcrypt before.
CachedUserMatched ==
    \A t \in Tokens : cache[AuthKey(t)].val = "user" => row[t] = "bcrypt"

\* Neither cached answer contradicts what the database could have said.
CacheSound == NegativeEntrySound /\ CachedUserMatched

\* INCR is atomic and the threshold is compared with equality: concurrent
\* violations start at most one quarantine per life of the counter key.
OneQuarantinePerWindow ==
    \A t \in Tokens : triggers[t] <= 1

\* Revocation takes effect for good: some time after the row stopped being
\* valid the token is no longer cached as a user and never is again.
RevokedIsForgotten ==
    \A t \in Tokens :
        (row[t] # NONE /\ ~Selected(t)) ~> [](cache[AuthKey(t)].val # "user")

\* quarantine.ts:32 "2. Clear Auth Cache": after that step the quarantined
\* token is not served from the cache any more.
QuarantineClearsCache ==
    [][\A r \in Requests :
          (pc[r] = "clear" /\ pc'[r] = "alert") => cache'[AuthKey(tok[r])].val # "user"]_vars

\* scim.ts:132 "create an agent token so the user can call the API": a row the
\* SELECT returns lets its token in.
IssuedTokenWorks ==
    [][\A r \in Requests :
          (pc[r] = "select" /\ pc'[r] = "deny") => ~Selected(tok[r])]_vars
=============================================================================
