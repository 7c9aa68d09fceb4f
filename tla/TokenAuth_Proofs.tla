---------------------------- MODULE TokenAuth_Proofs ----------------------------
(***************************************************************************)
(* Proofs about bearer tokens, for every number of tokens and handlers and *)
(* every lifetime: TypeOK, the bound on stale service, that neither cached *)
(* answer contradicts the database, and one quarantine per counter.  That  *)
(* a revoked token is forgotten is a liveness property left to TLC.        *)
(***************************************************************************)
EXTENDS TokenAuth, TLAPS

\* A row that is gone, expired or deactivated never comes back, and the history starts
\* when it does.
HistoryStarts == \A t \in Tokens : row[t] = NONE \/ Selected(t) => invalidFor[t] = 0

\* What is cached was once looked up: a user whose remaining time is what is left of
\* its lifetime and one verification, or a token the database does not accept.
CacheEntries ==
    \A t \in Tokens :
        LET e == cache[AuthKey(t)] IN
        /\ e.val # NONE => row[t] # NONE
        /\ e.val = "user" => row[t] = "bcrypt" /\ invalidFor[t] + e.ttl <= PosTTL + MaxVerify
        /\ e.val = "invalid" => ~Usable(t)

\* So is what a verification is about to cache.
Verifications ==
    \A r \in Requests :
        /\ pc[r] # "idle" => row[tok[r]] # NONE
        /\ pc[r] \in Verifying => age[r] <= MaxVerify
        /\ pc[r] = "grant" => row[tok[r]] = "bcrypt" /\ invalidFor[tok[r]] <= age[r]
        /\ pc[r] = "deny" => ~Usable(tok[r])

\* A counter that started its quarantine is past the threshold.
Counters ==
    \A t \in Tokens : /\ triggers[t] <= 1
                      /\ violations[t] < MaxViolations => triggers[t] = 0

TokenInv == TypeOK /\ HistoryStarts /\ CacheEntries /\ Verifications /\ Counters

USE TokenAssumption DEF NONE, NoExpiry, Hashes, Prefixes, Pcs, Verifying, NoEntry

-----------------------------------------------------------------------------

LEMMA TokenInitInv == Init => TokenInv
<1> SUFFICES ASSUME Init PROVE TokenInv
  OBVIOUS
<1>1. TypeOK
  BY DEF Init, TypeOK
<1>2. HistoryStarts /\ CacheEntries /\ Verifications /\ Counters
  BY DEF Init, HistoryStarts, CacheEntries, Verifications, Counters, AuthKey
<1> QED
  BY <1>1, <1>2 DEF TokenInv

\* The keys of the two prefixes are different.
LEMMA KeysDiffer ==
    \A t, u \in Tokens :
        /\ AuthKey(t) \in Prefixes \X Tokens /\ ClearKey(t) \in Prefixes \X Tokens
        /\ AuthKey(t) # ClearKey(u)
        /\ AuthKey(t) = AuthKey(u) => t = u
  BY DEF AuthKey, ClearKey

\* Steps that leave handlers, cache and histories alone and bring no row back.
LEMMA RowStepKeepsInv ==
    ASSUME TokenInv, UNCHANGED <<cache, counterVars, tok, age, invalidFor>>,
           row' \in [Tokens -> Hashes \cup {NONE}], active' \in [Tokens -> BOOLEAN],
           expiresIn' \in [Tokens -> Nat \cup {NoExpiry}], pc' \in [Requests -> Pcs],
           \A t \in Tokens : row[t] # NONE => row'[t] = row[t] /\ (Selected(t)' => Selected(t)),
           \A r \in Requests :
               /\ pc'[r] \in Verifying => pc'[r] = pc[r]
               /\ pc'[r] # "idle" => pc[r] # "idle"
    PROVE  TokenInv'
<1> USE DEF TokenInv
<1>1. TypeOK'
  BY DEF TypeOK, counterVars
<1>2. HistoryStarts'
  BY DEF TypeOK, HistoryStarts, Selected
<1>3. CacheEntries'
  BY DEF TypeOK, CacheEntries, Usable, AuthKey
<1>4. Verifications'
  BY DEF TypeOK, Verifications, Usable
<1>5. Counters'
  BY DEF TypeOK, Counters, counterVars
<1> QED
  BY <1>1, <1>2, <1>3, <1>4, <1>5

LEMMA RowActionsKeepInv ==
    ASSUME TokenInv,
           \/ \E t \in Tokens, h \in Hashes : Issue(t, h)
           \/ \E t \in Tokens : Revoke(t) \/ RotateKeyLeaks(t)
           \/ ExpiryCron
           \/ \E r \in Requests : QuarantineRevoke(r)
    PROVE  TokenInv'
<1> USE DEF TokenInv, TypeOK, Selected
<1>1. ASSUME NEW t \in Tokens, NEW h \in Hashes, Issue(t, h) PROVE TokenInv'
  BY <1>1, RowStepKeepsInv DEF Issue
<1>2. ASSUME NEW t \in Tokens, Revoke(t) PROVE TokenInv'
  BY <1>2, RowStepKeepsInv DEF Revoke
<1>3. ASSUME NEW t \in Tokens, RotateKeyLeaks(t) PROVE TokenInv'
  BY <1>3, RowStepKeepsInv DEF RotateKeyLeaks
<1>4. CASE ExpiryCron
  BY <1>4, RowStepKeepsInv DEF ExpiryCron
<1>5. ASSUME NEW r \in Requests, QuarantineRevoke(r) PROVE TokenInv'
  BY <1>5, RowStepKeepsInv DEF QuarantineRevoke, Goto
<1> QED
  BY <1>1, <1>2, <1>3, <1>4, <1>5

\* Steps of a handler that verify nothing.
LEMMA HandlerStepKeepsInv ==
    ASSUME TokenInv, NEW r \in Requests,
           \/ \E t \in Tokens : ReadCache(r, t)
           \/ Serve(r) \/ SetWindow(r) \/ QuarantineClear(r) \/ QuarantineAlert(r) \/ Abort(r)
    PROVE  TokenInv'
<1> USE DEF TokenInv, TypeOK, HistoryStarts, CacheEntries, Verifications, Counters, Selected, Usable,
            Goto, rowVars, counterVars
<1>1. ASSUME NEW t \in Tokens, ReadCache(r, t) PROVE TokenInv'
  <2>1. /\ tok' = [tok EXCEPT ![r] = t] /\ row[t] # NONE /\ pc[r] = "idle"
        /\ pc' \in {pc, [pc EXCEPT ![r] = "serve"], [pc EXCEPT ![r] = "select"]}
        /\ UNCHANGED <<rowVars, cache, counterVars, age, invalidFor>>
    BY <1>1 DEF ReadCache
  <2>2. TypeOK'
    BY <2>1
  <2>3. Verifications'
    <3>1. \A q \in Requests : q # r => pc'[q] = pc[q] /\ tok'[q] = tok[q]
      BY <2>1
    <3>2. pc'[r] \in {"idle", "serve", "select"} /\ (pc'[r] # "idle" => tok'[r] = t)
      BY <2>1
    <3> QED
      BY <2>1, <3>1, <3>2
  <2>4. HistoryStarts' /\ CacheEntries' /\ Counters'
    BY <2>1
  <2> QED
    BY <2>2, <2>3, <2>4
<1>2. CASE Serve(r)
  BY <1>2 DEF Serve
<1>3. CASE SetWindow(r)
  BY <1>3 DEF SetWindow
<1>4. CASE QuarantineClear(r)
  <2>1. \A t \in Tokens : cache'[AuthKey(t)] = cache[AuthKey(t)]
    BY <1>4, KeysDiffer DEF QuarantineClear
  <2>2. cache' \in [Prefixes \X Tokens -> [val : {NONE, "user", "invalid"}, ttl : Nat]]
    BY <1>4 DEF QuarantineClear
  <2> QED
    BY <1>4, <2>1, <2>2 DEF QuarantineClear
<1>5. CASE QuarantineAlert(r)
  BY <1>5 DEF QuarantineAlert
<1>6. CASE Abort(r)
  BY <1>6 DEF Abort
<1> QED
  BY <1>1, <1>2, <1>3, <1>4, <1>5, <1>6

LEMMA VerifyKeepsInv ==
    ASSUME TokenInv, NEW r \in Requests, Verify(r)
    PROVE  TokenInv'
<1> USE DEF TokenInv, TypeOK, HistoryStarts, CacheEntries, Verifications, Counters, Selected, Usable,
            Goto, rowVars, counterVars
<1>1. CASE SelectRows(r)
  BY <1>1 DEF SelectRows
<1>2. ASSUME NEW val \in {"user", "invalid"}, NEW ttl \in Nat, Cache(r, val, ttl)
      PROVE  /\ cache' \in [Prefixes \X Tokens -> [val : {NONE, "user", "invalid"}, ttl : Nat]]
             /\ \A t \in Tokens : \/ cache'[AuthKey(t)] = cache[AuthKey(t)]
                                  \/ t = tok[r] /\ cache'[AuthKey(t)] = [val |-> val, ttl |-> ttl]
  <2>1. CASE UNCHANGED cache
    BY <2>1
  <2>2. CASE cache' = [cache EXCEPT ![AuthKey(tok[r])] = [val |-> val, ttl |-> ttl]]
    <3>1. [val |-> val, ttl |-> ttl] \in [val : {NONE, "user", "invalid"}, ttl : Nat]
      OBVIOUS
    <3>2. AuthKey(tok[r]) \in Prefixes \X Tokens /\ tok[r] \in Tokens
      BY KeysDiffer
    <3>3. \A t \in Tokens : t # tok[r] => cache'[AuthKey(t)] = cache[AuthKey(t)]
      BY <2>2, <3>2, KeysDiffer
    <3>4. cache'[AuthKey(tok[r])] = [val |-> val, ttl |-> ttl]
      BY <2>2, <3>2
    <3> QED
      BY <2>2, <3>1, <3>2, <3>3, <3>4
  <2> QED
    BY <1>2, <2>1, <2>2 DEF Cache
<1>3. CASE Grant(r)
  <2>1. /\ cache' \in [Prefixes \X Tokens -> [val : {NONE, "user", "invalid"}, ttl : Nat]]
        /\ \A t \in Tokens : \/ cache'[AuthKey(t)] = cache[AuthKey(t)]
                             \/ t = tok[r] /\ cache'[AuthKey(t)] = [val |-> "user", ttl |-> PosTTL]
    BY <1>2, <1>3 DEF Grant
  <2>2. /\ pc[r] = "grant" /\ pc' = [pc EXCEPT ![r] = "serve"] /\ age' = [age EXCEPT ![r] = 0]
        /\ UNCHANGED <<rowVars, counterVars, tok, invalidFor>>
    BY <1>3 DEF Grant
  <2>3. TypeOK' /\ HistoryStarts' /\ Counters'
    BY <2>1, <2>2
  <2>4. CacheEntries'
    BY <2>1, <2>2, SMTT(30)
  <2>5. Verifications'
    BY <2>2
  <2> QED
    BY <2>3, <2>4, <2>5
<1>4. CASE Deny(r)
  <2>1. /\ cache' \in [Prefixes \X Tokens -> [val : {NONE, "user", "invalid"}, ttl : Nat]]
        /\ \A t \in Tokens : \/ cache'[AuthKey(t)] = cache[AuthKey(t)]
                             \/ t = tok[r] /\ cache'[AuthKey(t)] = [val |-> "invalid", ttl |-> NegTTL]
    BY <1>2, <1>4 DEF Deny
  <2>2. /\ pc[r] = "deny" /\ pc' = [pc EXCEPT ![r] = "idle"] /\ age' = [age EXCEPT ![r] = 0]
        /\ UNCHANGED <<rowVars, counterVars, tok, invalidFor>>
    BY <1>4 DEF Deny
  <2>3. TypeOK' /\ HistoryStarts' /\ Counters'
    BY <2>1, <2>2
  <2>4. CacheEntries'
    BY <2>1, <2>2, SMTT(30)
  <2>5. Verifications'
    BY <2>2
  <2> QED
    BY <2>3, <2>4, <2>5
<1> QED
  BY <1>1, <1>3, <1>4 DEF Verify

LEMMA IncrKeepsInv ==
    ASSUME TokenInv, NEW r \in Requests, Incr(r)
    PROVE  TokenInv'
<1> USE DEF TokenInv, TypeOK, Goto, rowVars
<1> DEFINE n == violations[tok[r]] + 1
<1>1. /\ violations' = [violations EXCEPT ![tok[r]] = CapAt(n, MaxViolations + 1)]
      /\ triggers' = [triggers EXCEPT ![tok[r]] = IF AfterIncr(n) = "revoke" THEN @ + 1 ELSE @]
      /\ pc' = [pc EXCEPT ![r] = AfterIncr(n)] /\ pc[r] = "incr"
      /\ UNCHANGED <<rowVars, cache, violTTL, tok, age, invalidFor>>
  BY DEF Incr
<1>2. /\ AfterIncr(n) \in {"expire", "revoke", "idle"}
      /\ AfterIncr(n) = "revoke" <=> n = MaxViolations
  BY DEF AfterIncr
<1>3. /\ CapAt(n, MaxViolations + 1) \in 0..(MaxViolations + 1)
      /\ CapAt(n, MaxViolations + 1) < MaxViolations <=> n < MaxViolations
  BY DEF CapAt
<1> HIDE DEF n
<1>4. TypeOK'
  BY <1>1, <1>2, <1>3
<1>5. Counters'
  BY <1>1, <1>2, <1>3 DEF Counters, n
<1>6. HistoryStarts' /\ CacheEntries' /\ Verifications'
  BY <1>1, <1>2 DEF HistoryStarts, CacheEntries, Verifications, Selected, Usable
<1> QED
  BY <1>4, <1>5, <1>6

LEMMA TickKeepsInv ==
    ASSUME TokenInv, Tick
    PROVE  TokenInv'
<1> USE DEF TokenInv
<1>1. TypeOK'
  BY SMTT(30) DEF TypeOK, Tick, Dec, CapAt, StaleCap
<1>2. \A t \in Tokens : /\ row'[t] = row[t] /\ (Selected(t)' => Selected(t))
                        /\ invalidFor'[t] <= invalidFor[t] + 1
                        /\ row[t] = NONE \/ Selected(t) => invalidFor'[t] = 0
  BY DEF TypeOK, Tick, Selected, Dec, CapAt, StaleCap
<1>3. HistoryStarts'
  BY <1>2 DEF HistoryStarts
<1>4. CacheEntries'
  <2>1. \A t \in Tokens :
            \/ cache'[AuthKey(t)] = NoEntry
            \/ /\ cache'[AuthKey(t)].val = cache[AuthKey(t)].val
               /\ cache'[AuthKey(t)].ttl = cache[AuthKey(t)].ttl - 1
    BY KeysDiffer DEF TypeOK, Tick
  <2>2. \A t \in Tokens : Usable(t)' => Usable(t)
    BY <1>2 DEF Usable
  <2>3. ASSUME NEW t \in Tokens, cache'[AuthKey(t)].val # NONE
        PROVE  /\ cache'[AuthKey(t)].val = cache[AuthKey(t)].val
               /\ invalidFor'[t] + cache'[AuthKey(t)].ttl <= invalidFor[t] + cache[AuthKey(t)].ttl
    <3>1. /\ cache'[AuthKey(t)].val = cache[AuthKey(t)].val
          /\ cache'[AuthKey(t)].ttl = cache[AuthKey(t)].ttl - 1
      BY <2>1, <2>3
    <3>2. cache[AuthKey(t)].ttl \in Nat /\ invalidFor[t] \in Nat /\ invalidFor'[t] \in Nat
      BY <1>1, KeysDiffer DEF TypeOK
    <3> QED
      BY <1>2, <3>1, <3>2
  <2>4. \A t \in Tokens :
            cache'[AuthKey(t)].ttl \in Nat /\ cache[AuthKey(t)].ttl \in Nat
            /\ invalidFor[t] \in Nat /\ invalidFor'[t] \in Nat
    BY <1>1, KeysDiffer DEF TypeOK
  <2>5. \A t \in Tokens : AuthKey(t)' = AuthKey(t)
    BY DEF AuthKey
  <2> QED
    BY <1>2, <2>2, <2>3, <2>4, <2>5 DEF CacheEntries
<1>5. Verifications'
  <2>1. UNCHANGED <<pc, tok>>
    BY DEF Tick
  <2>2. \A t \in Tokens : Usable(t)' => Usable(t)
    BY <1>2 DEF Usable
  <2>3. \A r \in Requests : pc[r] \in Verifying => age[r] < MaxVerify /\ age'[r] = age[r] + 1
    BY DEF Tick, TypeOK
  <2>4. \A r \in Requests : tok[r] \in Tokens /\ age[r] \in Nat /\ invalidFor[tok[r]] \in Nat
                            /\ invalidFor'[tok[r]] \in Nat
    BY <1>1 DEF TypeOK
  <2> QED
    BY <1>2, <2>1, <2>2, <2>3, <2>4 DEF Verifications
<1>6. Counters'
  BY DEF TypeOK, Counters, Tick
<1> QED
  BY <1>1, <1>3, <1>4, <1>5, <1>6

LEMMA TokenStepKeepsInv == TokenInv /\ [Next]_vars => TokenInv'
<1> SUFFICES ASSUME TokenInv, [Next]_vars PROVE TokenInv'
  OBVIOUS
<1>1. CASE UNCHANGED vars
  BY <1>1 DEF vars, TokenInv, TypeOK, HistoryStarts, CacheEntries, Verifications, Counters,
              Selected, Usable
<1>2. CASE Next
  BY <1>2, RowActionsKeepInv, HandlerStepKeepsInv, VerifyKeepsInv, IncrKeepsInv, TickKeepsInv
  DEF Next, Quarantine
<1> QED
  BY <1>1, <1>2

LEMMA TokenInvAlways == Spec => []TokenInv
  BY TokenInitInv, TokenStepKeepsInv, PTL DEF Spec

\* Rows, cache entries, counters and handlers are what the code stores in them.
THEOREM TokenTypesHold == Spec => []TypeOK
<1>1. TokenInv => TypeOK
  BY DEF TokenInv
<1> QED
  BY <1>1, TokenInvAlways, PTL

\* A token whose row stopped being valid is served from the cache for at most the
\* lifetime of an entry and one verification (verifyBearerToken).
THEOREM StaleServiceIsBounded == Spec => []StaleServiceBounded
<1>1. TokenInv => StaleServiceBounded
  BY DEF TokenInv, CacheEntries, StaleServiceBounded
<1> QED
  BY <1>1, TokenInvAlways, PTL

\* The cache never keeps a good token out nor lets in one that did not match.
THEOREM CacheIsSound == Spec => []CacheSound
<1>1. TokenInv => CacheSound
  BY DEF TokenInv, CacheEntries, CacheSound, NegativeEntrySound, CachedUserMatched
<1> QED
  BY <1>1, TokenInvAlways, PTL

\* However violations race, a counter key starts one quarantine (incrementViolation).
THEOREM OneQuarantineOnly == Spec => []OneQuarantinePerWindow
<1>1. TokenInv => OneQuarantinePerWindow
  BY DEF TokenInv, Counters, OneQuarantinePerWindow
<1> QED
  BY <1>1, TokenInvAlways, PTL
=============================================================================
