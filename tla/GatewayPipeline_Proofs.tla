------------------------- MODULE GatewayPipeline_Proofs -------------------------
(***************************************************************************)
(* Proofs about module GatewayPipeline, for any number of handlers and     *)
(* replay identities, any limits and windows and any deployment.           *)
(*                                                                         *)
(* The budget counts rows that requests have not written yet, so a request *)
(* it admitted is a row, lost, or still with a handler (BudgetCounted).    *)
(* The rate limit has one handler at most between INCR and EXPIRE, whose   *)
(* call is not in the passed ones yet (RateKey).  An answer is covered by  *)
(* a row of its own (AnswersCovered), a replay key by its only grant       *)
(* (GrantsKeyed), a decision by the policy the handler met (Permissions).  *)
(***************************************************************************)
EXTENDS GatewayPipeline, FiniteSetTheorems, TLAPS

USE PipelineAssumption DEF NoExpiry

At(S)    == {h \in Handlers : pc[h] \in S}
Count(S) == Cardinality(At(S))

CallsKnown == \A h \in Handlers : pc[h] # "idle" => call[h] \in Call

MeterCounted == metered <= usage /\ MeterLimitIsHard

\* A request that the budget admitted has its row, lost it, or is under way.
BudgetCounted ==
    /\ admitted <= allowRows + denyRows + erasedAllow + erasedDeny + unlogged + Count(Pending)
    /\ BudgetOvershootBounded

\* The call between INCR and EXPIRE is counted and has not passed yet.
RateKey ==
    /\ rateTTL # 0
    /\ rateCount = 0 => rateTTL = NoExpiry
    /\ ratePassed <= rateCount /\ ratePassed <= RateMax
    /\ \A h \in Handlers : pc[h] = "expire" =>
          /\ rateTTL = NoExpiry
          /\ ratePassed < rateCount
          /\ RateMax > 0 => ratePassed < RateMax
          /\ \A g \in Handlers : pc[g] = "expire" => g = h

GrantsKeyed == \A k \in Keys : granted[k] <= 1 /\ (replay[k] = 0 => granted[k] = 0)

AnswersCovered == config.failClosed => answered + Count({"reply"}) <= allowRows + erasedAllow

\* A policy in force is one every request has met.
Permissions ==
    \A h \in Handlers :
        /\ pc[h] \in {"policy", "replay"} => call[h].endpoint = "preflight"
        /\ pc[h] = "forward" => call[h].endpoint = "mcp"
        /\ policy /\ pc[h] # "idle" => h \in permitted
        /\ pc[h] = "replay" => h \in permitted
        /\ pc[h] \in {"allow", "reply"} /\ call[h].endpoint = "preflight" => h \in permitted

PipelineInv ==
    /\ TypeOK /\ CallsKnown
    /\ MeterCounted /\ BudgetCounted /\ RateKey /\ GrantsKeyed
    /\ AnswersCovered /\ Permissions

-----------------------------------------------------------------------------
(* Moves of handlers.                                                      *)

LEMMA ConfigType ==
    ASSUME TypeOK
    PROVE  /\ config.failClosed \in BOOLEAN /\ config.starter \in BOOLEAN
           /\ config.overageColumn \in BOOLEAN
           /\ config.onExceed \in {"block", "require_hitl", "throttle"}
  BY DEF TypeOK, Config

LEMMA GotoEffect ==
    ASSUME TypeOK, NEW h \in Handlers, NEW next \in Pcs, Goto(h, next)
    PROVE  /\ pc' = [pc EXCEPT ![h] = next] /\ pc'[h] = next
           /\ next # "idle" => call'[h] = call[h] /\ permitted' = permitted
           /\ \A g \in Handlers : g # h => /\ pc'[g] = pc[g] /\ call'[g] = call[g]
                                           /\ g \in permitted' <=> g \in permitted
           /\ pc' \in [Handlers -> Pcs] /\ call' \in [Handlers -> Call \cup {NoCall}]
           /\ permitted' \subseteq Handlers
<1>1. pc' = [pc EXCEPT ![h] = next] /\ call' = [call EXCEPT ![h] = IF next = "idle" THEN NoCall ELSE @]
      /\ permitted' = IF next = "idle" THEN permitted \ {h} ELSE permitted
  BY DEF Goto
<1>2. pc \in [Handlers -> Pcs] /\ call \in [Handlers -> Call \cup {NoCall}]
      /\ permitted \subseteq Handlers
  BY DEF TypeOK
<1>3. call' \in [Handlers -> Call \cup {NoCall}]
  BY <1>1, <1>2
<1>4. pc' \in [Handlers -> Pcs]
  BY <1>1, <1>2
<1>5. next # "idle" => call'[h] = call[h]
  BY <1>1, <1>2
<1>6. \A g \in Handlers : g # h => pc'[g] = pc[g] /\ call'[g] = call[g]
  BY <1>1, <1>2
<1>7. pc'[h] = next
  BY <1>1, <1>2
<1>8. permitted' \subseteq Handlers
      /\ \A g \in Handlers : g # h => (g \in permitted' <=> g \in permitted)
  BY <1>1, <1>2
<1> QED
  BY <1>1, <1>3, <1>4, <1>5, <1>6, <1>7, <1>8

LEMMA CountType ==
    ASSUME NEW S
    PROVE  /\ IsFiniteSet(At(S)) /\ Count(S) \in Nat
           /\ Cardinality(Handlers) \in Nat /\ Cardinality(Handlers) >= 1
           /\ \A h \in Handlers : pc[h] \notin S => Count(S) <= Cardinality(Handlers) - 1
<1>1. IsFiniteSet(At(S)) /\ At(S) \in SUBSET Handlers
  BY FS_Subset DEF At
<1>2. Count(S) \in Nat
  BY <1>1, FS_CardinalityType DEF Count
<1>3. Cardinality(Handlers) \in Nat /\ Cardinality(Handlers) # 0
  BY FS_CardinalityType, FS_EmptySet
<1>4. ASSUME NEW h \in Handlers, pc[h] \notin S
      PROVE  Count(S) <= Cardinality(Handlers) - 1
  <2>1. At(S) \in SUBSET (Handlers \ {h})
    BY <1>4 DEF At
  <2>2. IsFiniteSet(Handlers \ {h}) /\ Cardinality(Handlers \ {h}) = Cardinality(Handlers) - 1
    BY FS_RemoveElement
  <2> QED
    BY <2>1, <2>2, FS_Subset DEF Count
<1> QED
  BY <1>1, <1>2, <1>3, <1>4

\* One handler moves.
LEMMA CountMoves ==
    ASSUME TypeOK, NEW S, NEW h \in Handlers, NEW next, pc' = [pc EXCEPT ![h] = next]
    PROVE  Count(S)' = Count(S) - (IF pc[h] \in S THEN 1 ELSE 0)
                                + (IF next \in S THEN 1 ELSE 0)
<1>1. At(S)' = IF next \in S THEN At(S) \cup {h} ELSE At(S) \ {h}
  BY DEF At, TypeOK
<1>2. IsFiniteSet(At(S)) /\ Count(S) \in Nat
  BY CountType
<1>3. h \in At(S) <=> pc[h] \in S
  BY DEF At
<1>4. CASE next \in S
  <2>1. Cardinality(At(S) \cup {h}) = IF h \in At(S) THEN Count(S) ELSE Count(S) + 1
    BY <1>2, FS_AddElement DEF Count
  <2>2. Count(S)' = Cardinality(At(S) \cup {h})
    BY <1>1, <1>4 DEF Count
  <2> QED
    BY <1>2, <1>3, <1>4, <2>1, <2>2
<1>5. CASE next \notin S
  <2>1. Cardinality(At(S) \ {h}) = IF h \in At(S) THEN Count(S) - 1 ELSE Count(S)
    BY <1>2, FS_RemoveElement DEF Count
  <2>2. Count(S)' = Cardinality(At(S) \ {h})
    BY <1>1, <1>5 DEF Count
  <2> QED
    BY <1>2, <1>3, <1>5, <2>1, <2>2
<1> QED
  BY <1>4, <1>5

LEMMA CountStays ==
    ASSUME NEW S, pc' = pc
    PROVE  Count(S)' = Count(S)
  BY DEF Count, At

LEMMA CrashCount ==
    ASSUME TypeOK, NEW S, "idle" \notin S, Crash
    PROVE  Count(S)' = 0
<1>1. At(S)' = {}
  BY DEF At, Crash
<1> QED
  BY <1>1, FS_EmptySet DEF Count

\* Where a request goes: the moves of a handler that is served.
Moves(h) ==
    \/ pc[h] = "budget"  /\ pc'[h] \in {"rate", "refuse", "idle"}
    \/ pc[h] = "rate"    /\ pc'[h] \in {"expire", "deny", "screen"}
    \/ pc[h] = "expire"  /\ pc'[h] \in {"deny", "screen"}
    \/ pc[h] = "screen"  /\ pc'[h] = "deny"
    \/ pc[h] = "screen"  /\ call[h].endpoint = "mcp" /\ pc'[h] = "forward"
    \/ pc[h] = "screen"  /\ call[h].endpoint = "preflight" /\ pc'[h] = "policy"
    \/ pc[h] = "policy"  /\ pc'[h] = "deny"
    \/ pc[h] = "policy"  /\ policy /\ pc'[h] = "replay"
    \/ pc[h] = "replay"  /\ pc'[h] \in {"allow", "deny"}
    \/ pc[h] = "forward" /\ pc'[h] \in {"allow", "deny"}
    \/ pc[h] = "allow"   /\ pc'[h] = "reply"
    \/ pc[h] \in {"deny", "refuse", "reply"} /\ pc'[h] = "idle"

LEMMA StepMoves ==
    ASSUME TypeOK, NEW h \in Handlers, Step(h)
    PROVE  Moves(h) /\ \E next \in Pcs : Goto(h, next)
<1> DEFINE G(P) == \E next \in P : Goto(h, next) /\ pc'[h] = next
<1>0. \A next \in Pcs : Goto(h, next) => pc'[h] = next
  BY GotoEffect
<1>1. CASE Budget(h)
  <2>1. G({"rate", "refuse", "idle"})
    BY <1>0, <1>1, ConfigType DEF Budget, Pcs
  <2> QED
    BY <1>1, <2>1 DEF Budget, Moves, Pcs
<1>2. CASE RateIncr(h)
  <2>1. G({"expire", "deny", "screen"})
    BY <1>0, <1>2 DEF RateIncr, AfterRate, Pcs
  <2> QED
    BY <1>2, <2>1 DEF RateIncr, Moves, Pcs
<1>3. CASE RateExpire(h)
  <2>1. G({"deny", "screen"})
    BY <1>0, <1>3 DEF RateExpire, AfterRate, Pcs
  <2> QED
    BY <1>3, <2>1 DEF RateExpire, Moves, Pcs
<1>4. CASE ScreenMcp(h)
  BY <1>0, <1>4 DEF ScreenMcp, Moves, Pcs
<1>5. CASE ScreenPreflight(h)
  BY <1>0, <1>5 DEF ScreenPreflight, Moves, Pcs
<1>6. CASE CheckPolicy(h)
  <2>1. G({"deny"}) \/ (policy /\ G({"replay"}))
    BY <1>0, <1>6 DEF CheckPolicy, Pcs
  <2> QED
    BY <1>6, <2>1 DEF CheckPolicy, Moves, Pcs
<1>7. CASE Replay(h)
  <2>1. G({"allow", "deny"})
    BY <1>0, <1>7 DEF Replay, Pcs
  <2> QED
    BY <1>7, <2>1 DEF Replay, Moves, Pcs
<1>8. CASE Forward(h)
  BY <1>0, <1>8 DEF Forward, Moves, Pcs
<1>9. CASE WriteAudit(h) \/ AuditFails(h)
  <2>1. \/ pc[h] = "allow" /\ G({"reply"})
        \/ pc[h] \in {"deny", "refuse"} /\ G({"idle"})
    BY <1>0, <1>9 DEF WriteAudit, AuditFails, Pcs
  <2> QED
    BY <2>1 DEF Moves, Pcs
<1>10. CASE Answer(h)
  BY <1>0, <1>10 DEF Answer, Moves, Pcs
<1> QED
  BY <1>1, <1>2, <1>3, <1>4, <1>5, <1>6, <1>7, <1>8, <1>9, <1>10 DEF Step

-----------------------------------------------------------------------------
(* Each part of the invariant, action by action.                           *)

LEMMA HandlersStep ==
    ASSUME TypeOK, CallsKnown, [Next]_vars
    PROVE  /\ pc' \in [Handlers -> Pcs] /\ call' \in [Handlers -> Call \cup {NoCall}]
           /\ permitted' \subseteq Handlers
           /\ CallsKnown'
<1>1. ASSUME NEW h \in Handlers, NEW next \in Pcs, Goto(h, next), pc[h] # "idle"
      PROVE  CallsKnown'
  BY <1>1, GotoEffect DEF CallsKnown
<1>2. ASSUME NEW h \in Handlers, NEW c \in Call, Meter(h, c)
      PROVE  /\ pc' \in [Handlers -> Pcs] /\ call' \in [Handlers -> Call \cup {NoCall}]
             /\ permitted' \subseteq Handlers
             /\ CallsKnown'
  <2>1. CASE UNCHANGED handlerVars
    BY <2>1 DEF handlerVars, CallsKnown, TypeOK
  <2>2. CASE ~UNCHANGED handlerVars
    <3>1. PICK next \in {"budget", "refuse"} :
             /\ pc' = [pc EXCEPT ![h] = next]
             /\ call' = [call EXCEPT ![h] = c]
             /\ permitted' = IF policy THEN permitted \cup {h} ELSE permitted
      BY <1>2, <2>2, Zenon DEF Meter
    <3>2. permitted' \subseteq Handlers
      BY <3>1 DEF TypeOK
    <3>3. pc' \in [Handlers -> Pcs] /\ call' \in [Handlers -> Call \cup {NoCall}]
      BY <3>1 DEF TypeOK, Pcs
    <3>4. CallsKnown'
      BY <3>1 DEF TypeOK, CallsKnown
    <3> QED
      BY <3>2, <3>3, <3>4
  <2> QED
    BY <2>1, <2>2
<1>3. ASSUME NEW h \in Handlers, Step(h)
      PROVE  (\E next \in Pcs : Goto(h, next)) /\ pc[h] # "idle"
  <2>1. pc[h] # "idle"
    BY <1>3, StepMoves DEF Moves
  <2> QED
    BY <1>3, <2>1, StepMoves
<1>4. ASSUME NEW h \in Handlers, Fail(h)
      PROVE  Goto(h, "idle") /\ "idle" \in Pcs /\ pc[h] # "idle"
  BY <1>4 DEF Fail, Pcs
<1>5. ASSUME Crash
      PROVE  /\ pc' \in [Handlers -> Pcs] /\ call' \in [Handlers -> Call \cup {NoCall}]
             /\ permitted' \subseteq Handlers
             /\ CallsKnown'
  BY <1>5 DEF Crash, CallsKnown, Pcs
<1>6. ASSUME EditPolicy
      PROVE  pc' = pc /\ call' = call /\ permitted' \subseteq Handlers
  <2>1. permitted' = {h \in Handlers : pc[h] # "idle"} \/ permitted' = permitted
    BY <1>6, Zenon DEF EditPolicy
  <2> QED
    BY <1>6, <2>1 DEF EditPolicy, TypeOK
<1>7. CASE UNCHANGED <<pc, call>> /\ permitted' \subseteq Handlers
  BY <1>7 DEF CallsKnown, TypeOK
<1>8. ASSUME Tick \/ EraseAudit \/ UNCHANGED vars
      PROVE  UNCHANGED <<pc, call, permitted>>
  BY <1>8 DEF Tick, EraseAudit, handlerVars, vars
<1>9. CASE \E h \in Handlers : Step(h) \/ Fail(h)
  BY <1>1, <1>3, <1>4, <1>9, GotoEffect
<1>10. permitted \subseteq Handlers
  BY DEF TypeOK
<1>11. CASE EditPolicy
  BY <1>6, <1>7, <1>11
<1>12. CASE Tick \/ EraseAudit \/ UNCHANGED vars
  BY <1>7, <1>8, <1>10, <1>12
<1> QED
  BY <1>2, <1>5, <1>9, <1>11, <1>12 DEF Next

\* A deleted row is one that was there.
LEMMA Erased ==
    ASSUME allowRows \in Nat, denyRows \in Nat, erasedAllow \in Nat, erasedDeny \in Nat,
           EraseAudit
    PROVE  /\ allowRows' \in Nat /\ erasedAllow' \in Nat
           /\ denyRows' \in Nat /\ erasedDeny' \in Nat
           /\ allowRows' + erasedAllow' = allowRows + erasedAllow
           /\ denyRows' + erasedDeny' = denyRows + erasedDeny
<1>1. PICK a \in 0..allowRows, d \in 0..denyRows :
         /\ allowRows' = allowRows - a /\ erasedAllow' = erasedAllow + a
         /\ denyRows' = denyRows - d   /\ erasedDeny' = erasedDeny + d
  BY DEF EraseAudit
<1> QED
  BY <1>1

\* The types of everything but the handlers.
CounterTypes ==
    /\ config \in Configs /\ policy \in BOOLEAN
    /\ usage \in Nat /\ metered \in Nat /\ allowRows \in Nat /\ denyRows \in Nat
    /\ admitted \in Nat /\ unlogged \in Nat /\ erasedAllow \in Nat /\ erasedDeny \in Nat
    /\ rateCount \in Nat /\ rateTTL \in Nat \cup {NoExpiry} /\ ratePassed \in Nat
    /\ leaked \in BOOLEAN
    /\ replay \in [Keys -> Nat] /\ granted \in [Keys -> Nat]
    /\ answered \in Nat

LEMMA CountersStep ==
    ASSUME TypeOK, CallsKnown, [Next]_vars
    PROVE  CounterTypes'
<1> USE DEF CounterTypes, countVars, auditVars, eraseVars, budgetVars, rateVars, replayVars
<1>0. CounterTypes
  BY DEF TypeOK
<1>1. ASSUME NEW h \in Handlers, NEW c \in Call, Meter(h, c)
      PROVE  CounterTypes'
  <2>1. metered' \in Nat /\ usage' \in Nat
    BY <1>0, <1>1 DEF Meter
  <2> QED
    BY <1>0, <1>1, <2>1 DEF Meter
<1>2. ASSUME NEW h \in Handlers, Step(h)
      PROVE  CounterTypes'
  <2>1. CASE Budget(h)
    <3>1. admitted' \in Nat
      BY <1>0, <2>1 DEF Budget
    <3> QED
      BY <1>0, <2>1, <3>1 DEF Budget
  <2>2. CASE RateIncr(h)
    <3>1. rateCount' \in Nat /\ ratePassed' \in Nat
      BY <1>0, <2>2 DEF RateIncr, PassedRate
    <3> QED
      BY <1>0, <2>2, <3>1 DEF RateIncr
  <2>3. CASE RateExpire(h)
    <3>1. ratePassed' \in Nat
      BY <1>0, <2>3 DEF RateExpire, PassedRate
    <3> QED
      BY <1>0, <2>3, <3>1 DEF RateExpire
  <2>4. CASE ScreenMcp(h) \/ ScreenPreflight(h) \/ CheckPolicy(h) \/ Forward(h)
    BY <1>0, <2>4 DEF ScreenMcp, ScreenPreflight, CheckPolicy, Forward
  <2>5. CASE Replay(h)
    <3>1. replay' \in [Keys -> Nat] /\ granted' \in [Keys -> Nat]
      BY <1>0, <2>5 DEF Replay
    <3> QED
      BY <1>0, <2>5, <3>1 DEF Replay
  <2>6. CASE WriteAudit(h)
    <3>1. allowRows' \in Nat /\ denyRows' \in Nat
      BY <1>0, <2>6 DEF WriteAudit
    <3> QED
      BY <1>0, <2>6, <3>1 DEF WriteAudit
  <2>7. CASE AuditFails(h)
    <3>1. unlogged' \in Nat
      BY <1>0, <2>7 DEF AuditFails
    <3> QED
      BY <1>0, <2>7, <3>1 DEF AuditFails
  <2>8. CASE Answer(h)
    BY <1>0, <2>8 DEF Answer
  <2> QED
    BY <1>2, <2>1, <2>2, <2>3, <2>4, <2>5, <2>6, <2>7, <2>8 DEF Step
<1>3. ASSUME NEW h \in Handlers, Fail(h)
      PROVE  CounterTypes'
  <2>1. unlogged' \in Nat /\ leaked' \in BOOLEAN
    BY <1>0, <1>3 DEF Fail
  <2> QED
    BY <1>0, <1>3, <2>1 DEF Fail
<1>4. CASE Crash
  <2>1. unlogged' = unlogged + Count(Pending) /\ Count(Pending) \in Nat
    BY <1>4, CountType DEF Crash, Count, At
  <2>2. leaked' \in BOOLEAN
    BY <1>4 DEF Crash
  <2> QED
    BY <1>0, <1>4, <2>1, <2>2 DEF Crash
<1>5. CASE EditPolicy
  <2>1. policy' \in BOOLEAN
    BY <1>5 DEF EditPolicy
  <2> QED
    BY <1>0, <1>5, <2>1 DEF EditPolicy
<1>6. CASE Tick
  <2>1. rateTTL' \in Nat \cup {NoExpiry} /\ rateCount' \in Nat /\ ratePassed' \in Nat
    BY <1>0, <1>6 DEF Tick, Dec
  <2>2. replay' \in [Keys -> Nat] /\ granted' \in [Keys -> Nat]
    BY <1>0, <1>6 DEF Tick, Dec
  <2> QED
    BY <1>0, <1>6, <2>1, <2>2 DEF Tick
<1>7. CASE UNCHANGED vars
  BY <1>0, <1>7 DEF vars
<1>8. CASE EraseAudit
  <2>1. /\ allowRows' \in Nat /\ erasedAllow' \in Nat
        /\ denyRows' \in Nat /\ erasedDeny' \in Nat
    BY <1>0, <1>8, Erased
  <2> QED
    BY <1>0, <1>8, <2>1 DEF EraseAudit
<1> QED
  BY <1>1, <1>2, <1>3, <1>4, <1>5, <1>6, <1>7, <1>8 DEF Next

LEMMA MeterStep ==
    ASSUME TypeOK, MeterCounted, [Next]_vars
    PROVE  MeterCounted'
<1>1. CASE UNCHANGED <<config, usage, metered>>
  BY <1>1 DEF MeterCounted, MeterLimitIsHard
<1>2. ASSUME NEW h \in Handlers, NEW c \in Call, Meter(h, c)
      PROVE  MeterCounted'
  <2> DEFINE hard == config.starter \/ ~config.overageColumn
  <2>1. config' = config /\ usage' = usage + 1
    BY <1>2 DEF Meter
  <2>2. \/ usage + 1 > UsageLimit /\ hard /\ metered' = metered
        \/ ~(usage + 1 > UsageLimit /\ hard) /\ metered' = metered + 1
    BY <1>2, Zenon DEF Meter
  <2>3. usage \in Nat /\ metered \in Nat /\ metered <= usage
    BY DEF TypeOK, MeterCounted
  <2>4. metered' <= usage'
    BY <2>1, <2>2, <2>3
  <2>5. ASSUME hard PROVE metered' <= UsageLimit
    <3>1. metered <= UsageLimit
      BY <2>5, Zenon DEF MeterCounted, MeterLimitIsHard
    <3>2. metered' = metered \/ (usage + 1 <= UsageLimit /\ metered' = metered + 1)
      BY <2>2, <2>3, <2>5
    <3> QED
      BY <2>3, <3>1, <3>2
  <2> HIDE DEF hard
  <2>6. MeterLimitIsHard'
    BY <2>1, <2>5, Zenon DEF MeterLimitIsHard, hard
  <2> QED
    BY <2>4, <2>6 DEF MeterCounted
<1>3. ASSUME NEW h \in Handlers, Step(h)
      PROVE  UNCHANGED <<config, usage, metered>>
  BY <1>3 DEF Step, Budget, RateIncr, RateExpire, ScreenMcp, ScreenPreflight, CheckPolicy, Replay,
              Forward, WriteAudit, AuditFails, Answer, countVars
<1>4. ASSUME (\E h \in Handlers : Fail(h)) \/ Crash \/ EraseAudit \/ EditPolicy \/ Tick \/ UNCHANGED vars
      PROVE  UNCHANGED <<config, usage, metered>>
  BY <1>4 DEF Fail, Crash, EraseAudit, EditPolicy, Tick, vars, countVars
<1> QED
  BY <1>1, <1>2, <1>3, <1>4 DEF Next

LEMMA BudgetStep ==
    ASSUME TypeOK, BudgetCounted, [Next]_vars
    PROVE  BudgetCounted'
<1> DEFINE n == Count(Pending)
           N == Cardinality(Handlers)
<1>1. /\ n \in Nat /\ N \in Nat /\ N >= 1
      /\ \A h \in Handlers : pc[h] \notin Pending => n <= N - 1
  BY CountType
<1>2. /\ allowRows \in Nat /\ denyRows \in Nat /\ admitted \in Nat /\ unlogged \in Nat
      /\ erasedAllow \in Nat /\ erasedDeny \in Nat
      /\ admitted <= allowRows + denyRows + erasedAllow + erasedDeny + unlogged + n
      /\ admitted <= BudgetLimit + (N - 1) + unlogged + erasedAllow + erasedDeny
  BY DEF TypeOK, BudgetCounted, BudgetOvershootBounded
<1>3. ASSUME NEW h \in Handlers, NEW next, pc' = [pc EXCEPT ![h] = next]
      PROVE  n' = n - (IF pc[h] \in Pending THEN 1 ELSE 0) + (IF next \in Pending THEN 1 ELSE 0)
  BY <1>3, CountMoves
<1>4. pc' = pc => n' = n
  BY CountStays
<1> HIDE DEF n
<1>5. SUFFICES /\ admitted' <= allowRows' + denyRows' + erasedAllow' + erasedDeny' + unlogged' + n'
               /\ admitted' <= BudgetLimit + (N - 1) + unlogged' + erasedAllow' + erasedDeny'
  BY DEF BudgetCounted, BudgetOvershootBounded, n
<1> DEFINE Goal == /\ admitted' <= allowRows' + denyRows' + erasedAllow' + erasedDeny' + unlogged' + n'
                   /\ admitted' <= BudgetLimit + (N - 1) + unlogged' + erasedAllow' + erasedDeny'
<1> HIDE DEF N
<1>7. ASSUME NEW h \in Handlers, NEW c \in Call, Meter(h, c)
      PROVE  Goal
  <2>1. \/ pc' = pc
        \/ \E next \in {"budget", "refuse"} : pc' = [pc EXCEPT ![h] = next]
    BY <1>7, Zenon DEF Meter, handlerVars
  <2>2. pc[h] \notin Pending /\ "budget" \notin Pending /\ "refuse" \notin Pending
    BY <1>7 DEF Meter, Pending
  <2>3. ASSUME NEW next \in {"budget", "refuse"}, pc' = [pc EXCEPT ![h] = next]
        PROVE  n' = n
    <3>1. n' = n - (IF pc[h] \in Pending THEN 1 ELSE 0) + (IF next \in Pending THEN 1 ELSE 0)
      BY <1>3, <2>3
    <3> QED
      BY <1>1, <2>2, <3>1
  <2>4. n' = n
    BY <1>4, <2>1, <2>3
  <2> QED
    BY <1>1, <1>2, <1>7, <2>4 DEF Meter, auditVars, eraseVars, budgetVars
<1>8. ASSUME NEW h \in Handlers, Step(h)
      PROVE  Goal
  <2>0. PICK next \in Pcs : Goto(h, next) /\ next = pc'[h]
    BY <1>8, StepMoves, GotoEffect
  <2>1. n' = n - (IF pc[h] \in Pending THEN 1 ELSE 0) + (IF next \in Pending THEN 1 ELSE 0)
    BY <1>3, <2>0 DEF Goto
  <2>2. CASE Budget(h)
    <3>1. pc[h] \notin Pending
      BY <2>2 DEF Budget, Pending
    <3>2. n <= N - 1 /\ n' \in Nat /\ n' >= n
      BY <1>1, <2>1, <3>1
    <3>3. CASE allowRows + denyRows + 1 <= BudgetLimit
      <4>1. Goto(h, "rate") /\ admitted' = admitted + 1
        BY <2>2, <3>3 DEF Budget
      <4>2. next = "rate"
        BY <2>0, <4>1, GotoEffect DEF Pcs
      <4>3. n' = n + 1
        BY <1>1, <2>1, <3>1, <4>2 DEF Pending
      <4> QED
        BY <1>1, <1>2, <2>2, <3>2, <3>3, <4>1, <4>3 DEF Budget, auditVars, eraseVars
    <3>4. CASE ~(allowRows + denyRows + 1 <= BudgetLimit)
      BY <1>1, <1>2, <2>2, <3>2, <3>4 DEF Budget, auditVars, eraseVars
    <3> QED
      BY <3>3, <3>4
  <2>3. CASE \/ RateIncr(h) \/ RateExpire(h) \/ ScreenMcp(h) \/ ScreenPreflight(h)
             \/ CheckPolicy(h) \/ Replay(h) \/ Forward(h)
    <3>1. pc[h] \in Pending /\ next \in Pending
      <4>1. pc[h] \in {"rate", "expire", "screen", "policy", "replay", "forward"}
        BY <2>3 DEF RateIncr, RateExpire, ScreenMcp, ScreenPreflight, CheckPolicy, Replay, Forward
      <4> QED
        BY <1>8, <2>0, <4>1, StepMoves DEF Moves, Pending
    <3>2. n' = n
      BY <1>1, <2>1, <3>1
    <3>3. UNCHANGED <<allowRows, denyRows, erasedAllow, erasedDeny, admitted, unlogged>>
      BY <2>3 DEF RateIncr, RateExpire, ScreenMcp, ScreenPreflight, CheckPolicy, Replay, Forward,
                  auditVars, eraseVars, budgetVars
    <3> QED
      BY <1>1, <1>2, <3>2, <3>3
  <2>4. CASE WriteAudit(h) \/ AuditFails(h)
    <3>1. next \in {"reply", "idle"}
      BY <1>8, <2>0, <2>4, StepMoves DEF Moves, WriteAudit, AuditFails
    <3>2. \/ pc[h] \in {"allow", "deny"} /\ n' = n - 1
          \/ pc[h] = "refuse" /\ n' = n
      BY <1>1, <2>1, <2>4, <3>1 DEF Pending, WriteAudit, AuditFails
    <3>3. CASE WriteAudit(h)
      <4>1. allowRows' + denyRows' = allowRows + denyRows + 1
        BY <1>2, <3>3 DEF WriteAudit
      <4> QED
        BY <1>1, <1>2, <3>2, <3>3, <4>1 DEF WriteAudit, eraseVars, budgetVars
    <3>4. CASE AuditFails(h)
      <4>1. unlogged' = IF pc[h] = "refuse" THEN unlogged ELSE unlogged + 1
        BY <3>4 DEF AuditFails
      <4> QED
        BY <1>1, <1>2, <3>2, <3>4, <4>1 DEF AuditFails, auditVars, eraseVars
    <3> QED
      BY <2>4, <3>3, <3>4
  <2>5. CASE Answer(h)
    <3>1. pc[h] = "reply" /\ next = "idle"
      BY <1>8, <2>0, <2>5, StepMoves DEF Moves, Answer
    <3>2. n' = n
      BY <1>1, <2>1, <3>1 DEF Pending
    <3> QED
      BY <1>1, <1>2, <2>5, <3>2 DEF Answer, auditVars, eraseVars, budgetVars
  <2> QED
    BY <1>8, <2>2, <2>3, <2>4, <2>5 DEF Step
<1>9. ASSUME NEW h \in Handlers, Fail(h)
      PROVE  Goal
  <2>1. n' = n - (IF pc[h] \in Pending THEN 1 ELSE 0)
    <3>1. pc' = [pc EXCEPT ![h] = "idle"]
      BY <1>9 DEF Fail, Goto
    <3>2. "idle" \notin Pending
      BY DEF Pending
    <3>3. n' = n - (IF pc[h] \in Pending THEN 1 ELSE 0) + (IF "idle" \in Pending THEN 1 ELSE 0)
      BY <1>3, <3>1
    <3> QED
      BY <1>1, <3>2, <3>3
  <2>2. unlogged' = IF pc[h] \in Pending THEN unlogged + 1 ELSE unlogged
    BY <1>9 DEF Fail
  <2> QED
    BY <1>1, <1>2, <1>9, <2>1, <2>2 DEF Fail, auditVars, eraseVars
<1>10. CASE Crash
  <2>1. n' = 0
    BY <1>10, CrashCount DEF Pending, n
  <2>2. unlogged' = unlogged + n
    BY <1>10 DEF Crash, n, Count, At
  <2> QED
    BY <1>1, <1>2, <1>10, <2>1, <2>2 DEF Crash, auditVars, eraseVars
<1>11. CASE EditPolicy \/ Tick \/ UNCHANGED vars
  <2>1. pc' = pc /\ UNCHANGED <<auditVars, admitted, unlogged>>
    BY <1>11 DEF EditPolicy, Tick, vars, budgetVars, handlerVars
  <2> QED
    BY <1>1, <1>2, <1>4, <2>1 DEF auditVars, eraseVars
<1>12. CASE EraseAudit
  <2>1. pc' = pc /\ UNCHANGED <<admitted, unlogged>>
    BY <1>12 DEF EraseAudit, budgetVars, handlerVars
  <2>2. n' = n
    BY <1>4, <2>1
  <2>3. PICK a \in 0..allowRows, d \in 0..denyRows :
           /\ allowRows' = allowRows - a /\ erasedAllow' = erasedAllow + a
           /\ denyRows' = denyRows - d   /\ erasedDeny' = erasedDeny + d
    BY <1>12 DEF EraseAudit
  <2>4. admitted' = admitted /\ unlogged' = unlogged
    BY <2>1
  <2>5. allowRows' + denyRows' + erasedAllow' + erasedDeny'
           = allowRows + denyRows + erasedAllow + erasedDeny
    <3>1. /\ allowRows \in Nat /\ denyRows \in Nat /\ erasedAllow \in Nat /\ erasedDeny \in Nat
          /\ a \in Int /\ d \in Int
      BY <1>2
    <3> QED
      BY <2>3, <3>1
  <2>6. admitted' <= allowRows' + denyRows' + erasedAllow' + erasedDeny' + unlogged' + n'
    BY <1>2, <2>2, <2>4, <2>5
  <2>7. admitted' <= BudgetLimit + (N - 1) + unlogged' + erasedAllow' + erasedDeny'
    <3>1. BudgetLimit + (N - 1) + unlogged \in Int
      BY <1>1, <1>2
    <3>2. a \in Nat /\ d \in Nat
      BY <1>2
    <3>3. ASSUME NEW x \in Int, admitted <= x + erasedAllow + erasedDeny
          PROVE  admitted <= x + (erasedAllow + a) + (erasedDeny + d)
      <4>1. admitted \in Nat /\ erasedAllow \in Nat /\ erasedDeny \in Nat
        BY <1>2
      <4> QED
        BY <3>2, <3>3, <4>1
    <3> QED
      BY <1>2, <2>3, <2>4, <3>1, <3>3
  <2> QED
    BY <2>6, <2>7
<1> QED
  BY <1>7, <1>8, <1>9, <1>10, <1>11, <1>12 DEF Next

LEMMA RateStep ==
    ASSUME TypeOK, RateKey, [Next]_vars
    PROVE  RateKey'
<1>0. /\ rateCount \in Nat /\ rateTTL \in Nat \cup {NoExpiry} /\ ratePassed \in Nat
      /\ rateTTL # 0 /\ (rateCount = 0 => rateTTL = NoExpiry)
      /\ ratePassed <= rateCount /\ ratePassed <= RateMax
      /\ \A h \in Handlers : pc[h] = "expire" =>
            /\ rateTTL = NoExpiry
            /\ ratePassed < rateCount
            /\ RateMax > 0 => ratePassed < RateMax
            /\ \A g \in Handlers : pc[g] = "expire" => g = h
  BY DEF TypeOK, RateKey
<1>1. ASSUME UNCHANGED <<rateCount, rateTTL, ratePassed>>,
             \A g \in Handlers : pc'[g] = "expire" => pc[g] = "expire"
      PROVE  RateKey'
  BY <1>0, <1>1 DEF RateKey
<1>2. ASSUME NEW h \in Handlers, NEW c \in Call, Meter(h, c)
      PROVE  RateKey'
  <2>1. \/ pc' = pc
        \/ \E next \in {"budget", "refuse"} : pc' = [pc EXCEPT ![h] = next]
    BY <1>2, Zenon DEF Meter, handlerVars
  <2>2. \A g \in Handlers : pc'[g] = "expire" => pc[g] = "expire"
    BY <2>1 DEF TypeOK
  <2> QED
    BY <1>1, <1>2, <2>2 DEF Meter, rateVars
<1>3. ASSUME NEW h \in Handlers, Step(h)
      PROVE  RateKey'
  <2>0. PICK next \in Pcs : Goto(h, next) /\ next = pc'[h]
    BY <1>3, StepMoves, GotoEffect
  <2>1. \A g \in Handlers : g # h => pc'[g] = pc[g]
    BY <2>0, GotoEffect
  <2>2. CASE RateIncr(h)
    <3>1. CASE Goto(h, "screen") /\ UNCHANGED <<rateCount, ratePassed>>
      <4>1. pc'[h] = "screen"
        BY <3>1, GotoEffect DEF Pcs
      <4> QED
        BY <1>1, <2>1, <2>2, <3>1, <4>1 DEF RateIncr
    <3>2. CASE rateCount' = rateCount + 1 /\ rateCount = 0 /\ Goto(h, "expire")
               /\ UNCHANGED ratePassed
      <4>1. rateTTL' = NoExpiry /\ ratePassed = 0 /\ \A g \in Handlers : pc[g] # "expire"
        BY <1>0, <2>2, <3>2 DEF RateIncr
      <4>2. \A g \in Handlers : pc'[g] = "expire" => g = h
        BY <2>1, <4>1
      <4> QED
        BY <1>0, <3>2, <4>1, <4>2 DEF RateKey
    <3>3. CASE rateCount' = rateCount + 1 /\ rateCount # 0 /\ Goto(h, AfterRate(rateCount + 1))
               /\ PassedRate(rateCount + 1)
      <4>1. pc'[h] # "expire"
        BY <3>3, GotoEffect DEF AfterRate, Pcs
      <4>2. \/ ratePassed' = ratePassed
            \/ rateCount + 1 <= RateMax /\ ratePassed' = ratePassed + 1
        BY <1>0, <3>3 DEF PassedRate, AfterRate
      <4>3. rateTTL' = rateTTL
        BY <2>2 DEF RateIncr
      <4>4. \A g \in Handlers : pc'[g] = "expire" => g # h /\ pc[g] = "expire"
        BY <2>1, <4>1
      <4>5. ratePassed' <= rateCount' /\ ratePassed' <= RateMax /\ rateCount' # 0
        BY <1>0, <3>3, <4>2
      <4>6. ASSUME NEW g \in Handlers, pc[g] = "expire"
            PROVE  ratePassed' < rateCount' /\ (RateMax > 0 => ratePassed' < RateMax)
        BY <1>0, <3>3, <4>2, <4>6
      <4> QED
        BY <1>0, <4>3, <4>4, <4>5, <4>6 DEF RateKey
    <3> QED
      BY <1>0, <2>2, <3>1, <3>2, <3>3 DEF RateIncr
  <2>3. CASE RateExpire(h)
    <3>1. pc[h] = "expire" /\ rateTTL' = RateWindow /\ rateCount' = rateCount
      BY <2>3 DEF RateExpire
    <3>2. pc'[h] # "expire"
      BY <1>3, <3>1, StepMoves DEF Moves
    <3>3. \A g \in Handlers : pc'[g] # "expire"
      BY <1>0, <2>1, <3>1, <3>2
    <3>4. ratePassed' = ratePassed \/ (RateMax > 0 /\ ratePassed' = ratePassed + 1)
      BY <1>0, <2>3 DEF RateExpire, PassedRate, AfterRate
    <3> QED
      BY <1>0, <3>1, <3>3, <3>4 DEF RateKey
  <2>4. CASE ~RateIncr(h) /\ ~RateExpire(h)
    <3>1. UNCHANGED <<rateCount, rateTTL, ratePassed>> /\ pc[h] # "rate"
      BY <1>3, <2>4 DEF Step, Budget, ScreenMcp, ScreenPreflight, CheckPolicy, Replay,
              Forward, WriteAudit, AuditFails, Answer, rateVars
    <3>2. pc'[h] # "expire"
      BY <1>3, <3>1, StepMoves DEF Moves
    <3> QED
      BY <1>1, <2>1, <3>1, <3>2
  <2> QED
    BY <2>2, <2>3, <2>4
<1>4. ASSUME NEW h \in Handlers, Fail(h)
      PROVE  RateKey'
  <2>1. \A g \in Handlers : pc'[g] = "expire" => pc[g] = "expire"
    BY <1>4, GotoEffect DEF Fail, Pcs
  <2> QED
    BY <1>1, <1>4, <2>1 DEF Fail
<1>5. CASE Crash
  BY <1>1, <1>5 DEF Crash
<1>6. CASE EraseAudit \/ EditPolicy \/ UNCHANGED vars
  BY <1>1, <1>6 DEF EraseAudit, EditPolicy, vars, rateVars, handlerVars
<1>7. CASE Tick
  <2>1. CASE rateTTL = 1
    <3>1. rateTTL' = NoExpiry /\ rateCount' = 0 /\ ratePassed' = 0 /\ pc' = pc
      BY <1>7, <2>1 DEF Tick, handlerVars
    <3>2. \A g \in Handlers : pc[g] # "expire"
      BY <1>0, <2>1
    <3> QED
      BY <3>1, <3>2 DEF RateKey
  <2>2. CASE rateTTL # 1
    <3>1. rateCount' = rateCount /\ ratePassed' = ratePassed /\ pc' = pc /\ rateTTL' = Dec(rateTTL)
      BY <1>7, <2>2 DEF Tick, handlerVars
    <3>2. rateTTL' # 0 /\ (rateTTL = NoExpiry => rateTTL' = NoExpiry)
      BY <1>0, <2>2, <3>1 DEF Dec
    <3> QED
      BY <1>0, <3>1, <3>2 DEF RateKey
  <2> QED
    BY <2>1, <2>2
<1> QED
  BY <1>2, <1>3, <1>4, <1>5, <1>6, <1>7 DEF Next

LEMMA GrantsStep ==
    ASSUME TypeOK, GrantsKeyed, [Next]_vars
    PROVE  GrantsKeyed'
<1>1. CASE UNCHANGED replayVars
  BY <1>1 DEF replayVars, GrantsKeyed
<1>2. ASSUME NEW h \in Handlers, Replay(h)
      PROVE  GrantsKeyed'
  <2>1. CASE replay[call[h].key] = 0
    <3>1. \A k \in Keys : IF k = call[h].key THEN replay'[k] = ReplayTTL /\ granted'[k] = granted[k] + 1
                          ELSE replay'[k] = replay[k] /\ granted'[k] = granted[k]
      BY <1>2, <2>1 DEF Replay, TypeOK
    <3> QED
      BY <2>1, <3>1 DEF GrantsKeyed, TypeOK
  <2>2. CASE replay[call[h].key] # 0
    BY <1>1, <1>2, <2>2 DEF Replay
  <2> QED
    BY <2>1, <2>2
<1>3. CASE Tick
  <2>1. \A k \in Keys : /\ replay'[k] = Dec(replay[k]) /\ replay[k] \in Nat
                        /\ granted'[k] = IF replay[k] <= 1 THEN 0 ELSE granted[k]
    BY <1>3 DEF Tick, TypeOK
  <2> QED
    BY <2>1 DEF GrantsKeyed, Dec
<1>4. ASSUME NEW h \in Handlers, Step(h), ~Replay(h)
      PROVE  UNCHANGED replayVars
  BY <1>4 DEF Step, Budget, RateIncr, RateExpire, ScreenMcp, ScreenPreflight, CheckPolicy,
              Forward, WriteAudit, AuditFails, Answer
<1>5. ASSUME \/ \E h \in Handlers : Fail(h) \/ \E c \in Call : Meter(h, c)
             \/ Crash \/ EraseAudit \/ EditPolicy \/ UNCHANGED vars
      PROVE  UNCHANGED replayVars
  BY <1>5 DEF Fail, Meter, Crash, EraseAudit, EditPolicy, vars, replayVars
<1> QED
  BY <1>1, <1>2, <1>3, <1>4, <1>5 DEF Next

LEMMA AnswersStep ==
    ASSUME TypeOK, AnswersCovered, [Next]_vars
    PROVE  AnswersCovered'
<1> DEFINE n == Count({"reply"})
<1>1. /\ n \in Nat /\ answered \in Nat /\ allowRows \in Nat /\ erasedAllow \in Nat
      /\ denyRows \in Nat /\ erasedDeny \in Nat
  BY CountType DEF TypeOK
<1>2. ASSUME NEW h \in Handlers, NEW next, pc' = [pc EXCEPT ![h] = next]
      PROVE  n' = n - (IF pc[h] = "reply" THEN 1 ELSE 0) + (IF next = "reply" THEN 1 ELSE 0)
  BY <1>2, CountMoves
<1>3. pc' = pc => n' = n
  BY CountStays
<1>4. CASE Crash
  <2>1. n' = 0
    BY <1>4, CrashCount
  <2> HIDE DEF n
  <2>2. UNCHANGED <<config, answered, allowRows, erasedAllow>>
    BY <1>4 DEF Crash, auditVars, eraseVars
  <2> QED
    BY <1>1, <2>1, <2>2 DEF AnswersCovered, n
<1> HIDE DEF n
<1>5. config' = config
  BY DEF Next, Meter, Step, Budget, RateIncr, RateExpire, ScreenMcp, ScreenPreflight, CheckPolicy,
         Replay, Forward, WriteAudit, AuditFails, Answer, Fail, Crash, EraseAudit, EditPolicy, Tick, vars
<1> SUFFICES ASSUME config.failClosed, ~Crash
             PROVE  answered' + n' <= allowRows' + erasedAllow'
  BY <1>4, <1>5 DEF AnswersCovered, n
<1>6. answered + n <= allowRows + erasedAllow
  BY DEF AnswersCovered, n
<1>7. ASSUME NEW h \in Handlers, NEW c \in Call, Meter(h, c)
      PROVE  answered' + n' <= allowRows' + erasedAllow'
  <2>1. \/ pc' = pc
        \/ \E next \in {"budget", "refuse"} : pc' = [pc EXCEPT ![h] = next]
    BY <1>7, Zenon DEF Meter, handlerVars
  <2>2. n' = n
    <3>1. pc[h] # "reply" /\ n \in Nat
      BY <1>1, <1>7 DEF Meter
    <3>2. ASSUME NEW next \in {"budget", "refuse"}, pc' = [pc EXCEPT ![h] = next]
          PROVE  n' = n
      <4>1. n' = n - (IF pc[h] = "reply" THEN 1 ELSE 0) + (IF next = "reply" THEN 1 ELSE 0)
        BY <1>2, <3>2
      <4> QED
        BY <3>1, <4>1
    <3> QED
      BY <1>3, <2>1, <3>2
  <2> QED
    BY <1>1, <1>6, <1>7, <2>2 DEF Meter, auditVars, eraseVars
<1>8. ASSUME NEW h \in Handlers, Step(h)
      PROVE  answered' + n' <= allowRows' + erasedAllow'
  <2>0. PICK next \in Pcs : Goto(h, next) /\ next = pc'[h]
    BY <1>8, StepMoves, GotoEffect
  <2>1. n' = n - (IF pc[h] = "reply" THEN 1 ELSE 0) + (IF next = "reply" THEN 1 ELSE 0)
    BY <1>2, <2>0 DEF Goto
  <2>2. CASE WriteAudit(h)
    <3>1. CASE pc[h] = "allow"
      <4>1. next = "reply"
        BY <1>8, <2>0, <3>1, StepMoves DEF Moves
      <4>2. n' = n + 1
        BY <1>1, <2>1, <3>1, <4>1
      <4> QED
        BY <1>1, <1>6, <2>2, <3>1, <4>2 DEF WriteAudit, eraseVars
    <3>2. CASE pc[h] # "allow"
      <4>1. pc[h] # "reply" /\ next = "idle"
        BY <1>8, <2>0, <2>2, <3>2, StepMoves DEF Moves, WriteAudit
      <4>2. n' = n
        BY <1>1, <2>1, <4>1
      <4> QED
        BY <1>1, <1>6, <2>2, <3>2, <4>2 DEF WriteAudit, eraseVars
    <3> QED
      BY <3>1, <3>2
  <2>3. CASE Answer(h)
    <3>1. n' = n - 1
      <4>1. pc[h] = "reply" /\ next = "idle"
        BY <1>8, <2>0, <2>3, StepMoves DEF Moves, Answer
      <4> QED
        BY <1>1, <2>1, <4>1
    <3> QED
      BY <1>1, <1>6, <2>3, <3>1 DEF Answer, auditVars, eraseVars
  <2>4. CASE ~WriteAudit(h) /\ ~Answer(h)
    <3>1. pc[h] \notin {"allow", "reply"} /\ UNCHANGED <<answered, allowRows, erasedAllow>>
      BY <1>8, <2>4 DEF Step, Budget, RateIncr, RateExpire, ScreenMcp, ScreenPreflight, CheckPolicy,
             Replay, Forward, AuditFails, auditVars, eraseVars
    <3>2. next # "reply"
      BY <1>8, <2>0, <3>1, StepMoves DEF Moves
    <3>3. n' = n
      BY <1>1, <2>1, <3>1, <3>2
    <3> QED
      BY <1>1, <1>6, <3>1, <3>3
  <2> QED
    BY <2>2, <2>3, <2>4
<1>9. ASSUME NEW h \in Handlers, Fail(h)
      PROVE  answered' + n' <= allowRows' + erasedAllow'
  <2>1. pc' = [pc EXCEPT ![h] = "idle"]
    BY <1>9 DEF Fail, Goto
  <2>2. n' = n \/ n' = n - 1
    <3>1. n' = n - (IF pc[h] = "reply" THEN 1 ELSE 0) + (IF "idle" = "reply" THEN 1 ELSE 0)
      BY <1>2, <2>1
    <3> QED
      BY <1>1, <3>1
  <2> QED
    BY <1>1, <1>6, <1>9, <2>2 DEF Fail, auditVars, eraseVars
<1>10. CASE EditPolicy \/ Tick \/ UNCHANGED vars
  <2>1. pc' = pc /\ UNCHANGED <<answered, allowRows, erasedAllow>>
    BY <1>10 DEF EditPolicy, Tick, vars, auditVars, eraseVars, handlerVars
  <2> QED
    BY <1>1, <1>3, <1>6, <2>1
<1>11. CASE EraseAudit
  <2>1. pc' = pc /\ answered' = answered
    BY <1>11 DEF EraseAudit, handlerVars
  <2>2. allowRows' + erasedAllow' = allowRows + erasedAllow
    BY <1>1, <1>11, Erased
  <2> QED
    BY <1>1, <1>3, <1>6, <2>1, <2>2
<1> QED
  BY <1>7, <1>8, <1>9, <1>10, <1>11 DEF Next

LEMMA PermissionsStep ==
    ASSUME TypeOK, CallsKnown, Permissions, [Next]_vars
    PROVE  Permissions'
\* What Permissions says of one handler.
<1> DEFINE Perm(g) ==
              /\ pc[g] \in {"policy", "replay"} => call[g].endpoint = "preflight"
              /\ pc[g] = "forward" => call[g].endpoint = "mcp"
              /\ policy /\ pc[g] # "idle" => g \in permitted
              /\ pc[g] = "replay" => g \in permitted
              /\ pc[g] \in {"allow", "reply"} /\ call[g].endpoint = "preflight" => g \in permitted
<1> SUFFICES ASSUME NEW g \in Handlers
             PROVE  Perm(g)'
  BY DEF Permissions
<1>1. Perm(g)
  BY DEF Permissions
<1>2. ASSUME pc'[g] = pc[g], call'[g] = call[g], g \in permitted => g \in permitted',
             policy' => policy \/ (pc[g] # "idle" => g \in permitted')
      PROVE  Perm(g)'
  BY <1>1, <1>2
<1>3. CASE pc'[g] = "idle"
  BY <1>3
<1>4. ASSUME NEW h \in Handlers, NEW c \in Call, Meter(h, c)
      PROVE  Perm(g)'
  <2>1. CASE UNCHANGED handlerVars
    BY <1>2, <1>4, <2>1 DEF Meter, handlerVars
  <2>2. CASE ~UNCHANGED handlerVars
    <3>1. PICK next \in {"budget", "refuse"} :
             /\ pc' = [pc EXCEPT ![h] = next]
             /\ call' = [call EXCEPT ![h] = c]
             /\ permitted' = IF policy THEN permitted \cup {h} ELSE permitted
      BY <1>4, <2>2, Zenon DEF Meter
    <3>2. policy' = policy
      BY <1>4 DEF Meter
    <3>3. CASE g = h
      <4>1. pc'[g] \in {"budget", "refuse"}
        BY <3>1, <3>3 DEF TypeOK
      <4>2. policy => g \in permitted'
        BY <3>1, <3>3
      <4> QED
        BY <3>2, <4>1, <4>2
    <3>4. CASE g # h
      <4>1. pc'[g] = pc[g] /\ call'[g] = call[g]
        BY <3>1, <3>4 DEF TypeOK
      <4>2. g \in permitted => g \in permitted'
        BY <3>1
      <4> QED
        BY <1>2, <3>2, <4>1, <4>2
    <3> QED
      BY <3>3, <3>4
  <2> QED
    BY <2>1, <2>2
<1>5. ASSUME NEW h \in Handlers, Step(h)
      PROVE  Perm(g)'
  <2>0. PICK next \in Pcs : Goto(h, next) /\ next = pc'[h]
    BY <1>5, StepMoves, GotoEffect
  <2>1. policy' = policy
    BY <1>5 DEF Step, Budget, RateIncr, RateExpire, ScreenMcp, ScreenPreflight, CheckPolicy,
                Replay, Forward, WriteAudit, AuditFails, Answer
  <2>2. CASE g # h
    BY <1>2, <2>0, <2>1, <2>2, GotoEffect
  <2>3. CASE g = h /\ next # "idle"
    <3>1. call'[g] = call[g] /\ (g \in permitted' <=> g \in permitted)
      BY <2>0, <2>3, GotoEffect
    <3>2. Moves(g) /\ pc'[g] # "idle"
      BY <1>5, <2>0, <2>3, StepMoves
    <3>3. call[g] \in Call
      BY <3>2 DEF Moves, CallsKnown
    <3>4. call[g].endpoint \in {"mcp", "preflight"}
      BY <3>3 DEF Call, Endpoints
    <3>5. pc[g] # "idle"
      BY <3>2 DEF Moves
    <3>6. policy' => g \in permitted'
      BY <1>1, <2>1, <3>1, <3>5
    <3>7. pc'[g] = "replay" => g \in permitted' /\ call'[g].endpoint = "preflight"
      BY <1>1, <3>1, <3>2, <3>5 DEF Moves
    <3>8. /\ pc'[g] = "policy" => call'[g].endpoint = "preflight"
          /\ pc'[g] = "forward" => call'[g].endpoint = "mcp"
      BY <3>1, <3>2 DEF Moves
    <3>9. pc'[g] \in {"allow", "reply"} /\ call'[g].endpoint = "preflight" => g \in permitted'
      BY <1>1, <3>1, <3>2, <3>4 DEF Moves
    <3> QED
      BY <3>6, <3>7, <3>8, <3>9
  <2> QED
    BY <1>3, <2>0, <2>2, <2>3
<1>6. ASSUME NEW h \in Handlers, Fail(h)
      PROVE  Perm(g)'
  <2>1. Goto(h, "idle") /\ "idle" \in Pcs /\ policy' = policy
    BY <1>6 DEF Fail, Pcs
  <2>2. CASE g = h
    BY <1>3, <2>1, <2>2, GotoEffect
  <2>3. CASE g # h
    BY <1>2, <2>1, <2>3, GotoEffect
  <2> QED
    BY <2>2, <2>3
<1>7. CASE Crash
  BY <1>3, <1>7 DEF Crash
<1>8. CASE EditPolicy
  <2>1. pc' = pc /\ call' = call
    BY <1>8 DEF EditPolicy
  <2>2. CASE policy'
    <3>1. permitted' = {h \in Handlers : pc[h] # "idle"}
      BY <1>8, <2>2, Zenon DEF EditPolicy
    <3> QED
      BY <1>1, <2>1, <3>1
  <2>3. CASE ~policy'
    <3>1. permitted' = permitted
      BY <1>8, <2>3, Zenon DEF EditPolicy
    <3> QED
      BY <1>2, <2>1, <2>3, <3>1
  <2> QED
    BY <2>2, <2>3
<1>9. CASE Tick \/ EraseAudit \/ UNCHANGED vars
  BY <1>2, <1>9 DEF Tick, EraseAudit, vars, handlerVars
<1> QED
  BY <1>4, <1>5, <1>6, <1>7, <1>8, <1>9 DEF Next

-----------------------------------------------------------------------------
(* The theorems.                                                           *)

LEMMA PipelineInit == Init => PipelineInv
<1> SUFFICES ASSUME Init PROVE PipelineInv
  OBVIOUS
<1>1. TypeOK /\ CallsKnown
  BY DEF Init, TypeOK, CallsKnown, Pcs
<1>2. At(Pending) = {} /\ At({"reply"}) = {}
  BY DEF Init, At, Pending
<1>3. Count(Pending) = 0 /\ Count({"reply"}) = 0
  BY <1>2, FS_EmptySet DEF Count
<1>4. MeterCounted /\ RateKey /\ GrantsKeyed /\ Permissions
  BY DEF Init, MeterCounted, MeterLimitIsHard, RateKey, GrantsKeyed, Permissions
<1>5. BudgetCounted
  BY <1>3, CountType DEF Init, BudgetCounted, BudgetOvershootBounded
<1>6. AnswersCovered
  BY <1>3 DEF Init, AnswersCovered
<1> QED
  BY <1>1, <1>4, <1>5, <1>6 DEF PipelineInv

LEMMA PipelineStep == PipelineInv /\ [Next]_vars => PipelineInv'
<1> SUFFICES ASSUME PipelineInv, [Next]_vars PROVE PipelineInv'
  OBVIOUS
<1>1. /\ TypeOK /\ CallsKnown
      /\ MeterCounted /\ BudgetCounted /\ RateKey /\ GrantsKeyed
      /\ AnswersCovered /\ Permissions
  BY DEF PipelineInv
<1>2. TypeOK'
  BY <1>1, HandlersStep, CountersStep DEF TypeOK, CounterTypes
<1>3. CallsKnown' /\ MeterCounted' /\ BudgetCounted'
  BY <1>1, HandlersStep, MeterStep, BudgetStep
<1>4. RateKey' /\ GrantsKeyed' /\ AnswersCovered' /\ Permissions'
  BY <1>1, RateStep, GrantsStep, AnswersStep, PermissionsStep
<1> QED
  BY <1>2, <1>3, <1>4 DEF PipelineInv

\* Fairness is not needed for what never happens.
LEMMA PipelineInvariant == FairSpec => []PipelineInv
  BY PipelineInit, PipelineStep, PTL DEF FairSpec, Spec

\* The counters, keys and handlers of the two pipelines are what they can be.
THEOREM PipelineTypeCorrect == FairSpec => []TypeOK
<1>1. PipelineInv => TypeOK
  BY DEF PipelineInv
<1> QED
  BY <1>1, PipelineInvariant, PTL

\* The monthly limit, the budget and the tool rate limit bound what gets past them
\* however requests of any number of handlers interleave, fail and crash: the first
\* exactly, the last exactly for the requests it counts, and the budget up to the
\* overshoot of its check-then-act and the rows that are lost or deleted.
THEOREM LimitsAlwaysHold == FairSpec => []LimitsHold
<1>1. PipelineInv => LimitsHold
  BY DEF PipelineInv, MeterCounted, BudgetCounted, RateKey, LimitsHold, RateLimitHolds
<1> QED
  BY <1>1, PipelineInvariant, PTL

\* Duplicates of a preflight request get at most one ALLOW in a replay window.
THEOREM DuplicatesAllowedOnce == FairSpec => []DuplicateAllowedOnce
<1>1. PipelineInv => DuplicateAllowedOnce
  BY DEF PipelineInv, GrantsKeyed, DuplicateAllowedOnce
<1> QED
  BY <1>1, PipelineInvariant, PTL

\* With fail_closed no ALLOW is sent that the audit log never held, and a preflight
\* ALLOW rests on a policy that was in force during the request.
THEOREM AnswersAreJustified == FairSpec => []AnswersJustified
<1>1. PipelineInv => AnsweredIsAudited
  <2> SUFFICES ASSUME PipelineInv, config.failClosed PROVE answered <= allowRows + erasedAllow
    BY DEF AnsweredIsAudited
  <2>1. answered + Count({"reply"}) <= allowRows + erasedAllow
    BY DEF PipelineInv, AnswersCovered
  <2>2. Count({"reply"}) \in Nat /\ answered \in Nat /\ allowRows \in Nat /\ erasedAllow \in Nat
    BY CountType DEF PipelineInv, TypeOK
  <2> QED
    BY <2>1, <2>2
<1>2. PipelineInv => PreflightWasPermitted
  BY DEF PipelineInv, Permissions, PreflightWasPermitted
<1> QED
  BY <1>1, <1>2, PipelineInvariant, PTL DEF AnswersJustified
=============================================================================
