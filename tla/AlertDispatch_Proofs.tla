------------------------ MODULE AlertDispatch_Proofs ------------------------
(***************************************************************************)
(* Proofs about module AlertDispatch: types, the bound on alerts that race *)
(* past the cooldown check (AlertBurstBounded), and that what is sent was  *)
(* in force during the dispatch (TargetsAreCurrent), for any rules,        *)
(* channels and dispatchers.                                               *)
(*                                                                         *)
(* The bound is not inductive, since it does not say who may still pass.   *)
(* While the rule is not cooling every pass of the quiet period is that of *)
(* a dispatch still under way or one that failed to log (PassesAccounted); *)
(* the first logged one starts the cooldown, and nobody passes until it    *)
(* ends and the count starts again.                                        *)
(***************************************************************************)
EXTENDS AlertDispatch, FiniteSetTheorems, TLAPS

\* The dispatches of r past the cooldown check.
Passing(r) == {d \in Dispatchers : cur[d] = r /\ pc[d] \in {"targets", "send"}}

PassesAccounted ==
    \A r \in Rules : ~cooling[r] => passed[r] <= unlogged[r] + Cardinality(Passing(r))

IInv == TypeOK /\ PassesAccounted /\ AlertBurstBounded

-----------------------------------------------------------------------------
\* A return goes to the caller's loop.
LEMMA ReturnType ==
    ASSUME TypeOK, NEW d \in Dispatchers, Return(d)
    PROVE  /\ pc' \in [Dispatchers -> {"idle", "evaluate", "rule", "cooldown", "targets", "send"}]
           /\ cur' \in [Dispatchers -> Rules \cup {NoRule}]
           /\ \A e \in Dispatchers : (cur'[e] = NoRule) = (pc'[e] \in {"idle", "evaluate"})
           /\ \A e \in Dispatchers \ {d} : cur'[e] = cur[e] /\ pc'[e] = pc[e]
           /\ cur'[d] = NoRule
<1>1. pc'[d] \in {"idle", "evaluate"}
  BY DEF Return, TypeOK
<1>2. /\ pc' \in [Dispatchers -> {"idle", "evaluate", "rule", "cooldown", "targets", "send"}]
      /\ cur' \in [Dispatchers -> Rules \cup {NoRule}]
      /\ \A e \in Dispatchers \ {d} : cur'[e] = cur[e] /\ pc'[e] = pc[e]
      /\ cur'[d] = NoRule
  BY DEF Return, TypeOK
<1>3. QED
  BY <1>1, <1>2 DEF TypeOK

\* What the history variables record are channels and rules.
LEMMA ObserveType ==
    ASSUME TypeOK, Observe, links' \in [Rules -> SUBSET Channels]
    PROVE  /\ offered' \in [Dispatchers -> SUBSET (Channels \cup Rules)]
           /\ steady' \in [Dispatchers -> SUBSET (Channels \cup Rules)]
<1> DEFINE now(d) == UNION {InForce(r)' : r \in {r \in Rules : cur'[d] = r /\ pc'[d] # "send"}}
<1>1. \A r \in Rules : InForce(r)' \subseteq Channels \cup Rules
  BY DEF InForce
<1>2. \A d \in Dispatchers : now(d) \subseteq Channels \cup Rules
  BY <1>1
<1>3. \A d \in Dispatchers : offered[d] \subseteq Channels \cup Rules
                             /\ steady[d] \subseteq Channels \cup Rules
  BY DEF TypeOK
<1> HIDE DEF now
<1>4. /\ offered' = [d \in Dispatchers |->
                       IF cur'[d] # cur[d] \/ pc'[d] = "send" THEN now(d)
                       ELSE offered[d] \cup now(d)]
      /\ steady' = [d \in Dispatchers |->
                       IF cur'[d] # cur[d] \/ pc'[d] = "send" THEN now(d)
                       ELSE steady[d] \cap now(d)]
  BY DEF Observe, now
<1>5. QED
  BY <1>2, <1>3, <1>4

\* Administration and the end of a cooldown keep the types.
LEMMA AdminType ==
    ASSUME TypeOK, Administer \/ \E r \in Rules : CooldownEnds(r), Observe
    PROVE  TypeOK'
<1>1. ASSUME NEW r \in Rules, CreateRule(r)
      PROVE  TypeOK'
  <2>1. PICK ts \in SUBSET OwnTargets : own' = [own EXCEPT ![r] = ts]
    BY <1>1 DEF CreateRule
  <2>2. PICK cs \in SUBSET Channels : linking' = [linking EXCEPT ![r] = cs]
    BY <1>1 DEF CreateRule
  <2>3. own' \in [Rules -> SUBSET OwnTargets] /\ linking' \in [Rules -> SUBSET Channels]
    BY <2>1, <2>2 DEF TypeOK
  <2>4. rule' \in [Rules -> {"none", "active", "deleted"}]
        /\ UNCHANGED <<channel, links, cooling, callVars, faults, countVars>>
    BY <1>1 DEF CreateRule, TypeOK
  <2>5. QED
    BY <2>3, <2>4, ObserveType DEF TypeOK, callVars, countVars
<1>2. ASSUME NEW r \in Rules, NEW c \in Channels, LinkChannel(r, c)
      PROVE  TypeOK'
  <2>1. /\ links' \in [Rules -> SUBSET Channels]
        /\ linking' \in [Rules -> SUBSET Channels]
        /\ faults' \in Nat
    BY <1>2 DEF LinkChannel, TypeOK
  <2>2. UNCHANGED <<rule, channel, own, cooling, callVars, countVars>>
    BY <1>2 DEF LinkChannel
  <2>3. QED
    BY <2>1, <2>2, ObserveType DEF TypeOK, callVars, countVars
<1>3. ASSUME NEW r \in Rules, DeleteRule(r)
      PROVE  TypeOK'
  <2>1. rule' \in [Rules -> {"none", "active", "deleted"}]
        /\ UNCHANGED <<channel, own, links, linking, cooling, callVars, faults, countVars>>
    BY <1>3 DEF DeleteRule, TypeOK
  <2>2. QED
    BY <2>1, ObserveType DEF TypeOK, callVars, countVars
<1>4. ASSUME NEW c \in Channels, UnlinkChannel(c)
      PROVE  TypeOK'
  <2>1. links' \in [Rules -> SUBSET Channels]
        /\ UNCHANGED <<rule, channel, own, linking, cooling, callVars, faults, countVars>>
    BY <1>4 DEF UnlinkChannel, TypeOK
  <2>2. QED
    BY <2>1, ObserveType DEF TypeOK, callVars, countVars
<1>5. ASSUME NEW c \in Channels, NEW state \in {"active", "paused"},
             DeleteChannel(c) \/ SaveChannel(c, state)
      PROVE  TypeOK'
  <2>1. channel' \in [Channels -> {"none", "active", "paused", "deleted"}]
        /\ UNCHANGED <<rule, own, links, linking, cooling, callVars, faults, countVars>>
    BY <1>5 DEF DeleteChannel, SaveChannel, TypeOK
  <2>2. QED
    BY <2>1, ObserveType DEF TypeOK, callVars, countVars
<1>6. ASSUME NEW r \in Rules, CooldownEnds(r)
      PROVE  TypeOK'
  <2>1. /\ cooling' \in [Rules -> BOOLEAN]
        /\ passed' \in [Rules -> Nat] /\ unlogged' \in [Rules -> Nat]
    BY <1>6 DEF CooldownEnds, TypeOK
  <2>2. UNCHANGED <<adminVars, callVars, faults>>
    BY <1>6 DEF CooldownEnds
  <2>3. QED
    BY <2>1, <2>2, ObserveType DEF TypeOK, adminVars, callVars
<1>7. QED
  BY <1>1, <1>2, <1>3, <1>4, <1>5, <1>6 DEF Administer

\* A step of a dispatcher keeps the types if it keeps those of what it changes.
LEMMA DispatchFrame ==
    ASSUME TypeOK, Observe, UNCHANGED adminVars,
           cooling' \in [Rules -> BOOLEAN],
           pc' \in [Dispatchers -> {"idle", "evaluate", "rule", "cooldown", "targets", "send"}],
           todo' \in [Dispatchers -> SUBSET Rules],
           cur' \in [Dispatchers -> Rules \cup {NoRule}],
           targets' \in [Dispatchers -> SUBSET (Channels \cup OwnTargets)],
           faults' \in Nat, passed' \in [Rules -> Nat], unlogged' \in [Rules -> Nat],
           \A d \in Dispatchers : (cur'[d] = NoRule) = (pc'[d] \in {"idle", "evaluate"})
    PROVE  TypeOK'
BY ObserveType DEF TypeOK, adminVars

\* The steps of a dispatcher keep the types.
LEMMA DispatchType ==
    ASSUME TypeOK, Observe, NEW d \in Dispatchers,
           Start(d) \/ Evaluate(d) \/ Dispatch(d) \/ LogFails(d)
    PROVE  TypeOK'
<1>1. CASE Start(d)
  <2>1. PICK rs \in SUBSET {r \in Rules : Active(r)} : todo' = [todo EXCEPT ![d] = rs]
    BY <1>1 DEF Start
  <2>2. todo' \in [Dispatchers -> SUBSET Rules]
    BY <2>1 DEF TypeOK
  <2>3. /\ pc' \in [Dispatchers -> {"idle", "evaluate", "rule", "cooldown", "targets", "send"}]
        /\ \A e \in Dispatchers : (cur'[e] = NoRule) = (pc'[e] \in {"idle", "evaluate"})
    BY <1>1 DEF Start, TypeOK
  <2>4. QED
    BY <1>1, <2>2, <2>3, DispatchFrame DEF Start, countVars, TypeOK
<1>2. ASSUME NEW r \in Rules, Call(d, r)
      PROVE  TypeOK'
  <2>1. todo' \in [Dispatchers -> SUBSET Rules]
    BY <1>2 DEF Call, TypeOK
  <2>2. /\ pc' \in [Dispatchers -> {"idle", "evaluate", "rule", "cooldown", "targets", "send"}]
        /\ cur' \in [Dispatchers -> Rules \cup {NoRule}]
        /\ \A e \in Dispatchers : (cur'[e] = NoRule) = (pc'[e] \in {"idle", "evaluate"})
    <3>1. r # NoRule
      BY DispatchAssumption DEF NoRule
    <3>2. QED
      BY <1>2, <3>1 DEF Call, TypeOK
  <2>3. QED
    BY <1>2, <2>1, <2>2, DispatchFrame DEF Call, countVars, TypeOK
<1>3. ASSUME NEW r \in Rules, Skip(d, r)
      PROVE  TypeOK'
  <2>1. todo' \in [Dispatchers -> SUBSET Rules]
    BY <1>3 DEF Skip, TypeOK
  <2>2. /\ pc' \in [Dispatchers -> {"idle", "evaluate", "rule", "cooldown", "targets", "send"}]
        /\ \A e \in Dispatchers : (cur'[e] = NoRule) = (pc'[e] \in {"idle", "evaluate"})
    BY <1>3 DEF Skip, TypeOK
  <2>3. QED
    BY <1>3, <2>1, <2>2, DispatchFrame DEF Skip, countVars, TypeOK
<1>4. CASE ReadRule(d)
  <2>1. CASE Return(d)
    BY <1>4, <2>1, ReturnType, DispatchFrame DEF ReadRule, countVars, TypeOK
  <2>2. CASE Active(cur[d]) /\ pc' = [pc EXCEPT ![d] = "cooldown"] /\ UNCHANGED cur
    <3>1. /\ pc' \in [Dispatchers -> {"idle", "evaluate", "rule", "cooldown", "targets", "send"}]
          /\ \A e \in Dispatchers : (cur'[e] = NoRule) = (pc'[e] \in {"idle", "evaluate"})
      BY <1>4, <2>2 DEF ReadRule, TypeOK
    <3>2. QED
      BY <1>4, <2>2, <3>1, DispatchFrame DEF ReadRule, countVars, TypeOK
  <2>3. QED
    BY <1>4, <2>1, <2>2 DEF ReadRule
<1>5. CASE CheckCooldown(d)
  <2>1. CASE Return(d) /\ UNCHANGED countVars
    BY <1>5, <2>1, ReturnType, DispatchFrame DEF CheckCooldown, countVars, TypeOK
  <2>2. CASE /\ pc' = [pc EXCEPT ![d] = "targets"]
             /\ passed' = [passed EXCEPT ![cur[d]] = @ + 1]
             /\ UNCHANGED <<cur, unlogged>>
    <3>1. /\ pc' \in [Dispatchers -> {"idle", "evaluate", "rule", "cooldown", "targets", "send"}]
          /\ \A e \in Dispatchers : (cur'[e] = NoRule) = (pc'[e] \in {"idle", "evaluate"})
          /\ passed' \in [Rules -> Nat]
      BY <1>5, <2>2 DEF CheckCooldown, TypeOK
    <3>2. QED
      BY <1>5, <2>2, <3>1, DispatchFrame DEF CheckCooldown, TypeOK
  <2>3. QED
    BY <1>5, <2>1, <2>2 DEF CheckCooldown
<1>6. CASE ReadTargets(d)
  <2>1. \A r \in Rules, selected \in SUBSET Channels :
           Targets(r, selected) \in SUBSET (Channels \cup OwnTargets)
    BY DEF Targets, TypeOK
  <2>2. cur[d] \in Rules
    BY <1>6 DEF ReadTargets, TypeOK
  <2>3. targets' \in [Dispatchers -> SUBSET (Channels \cup OwnTargets)]
    <3>1. Selected(cur[d]) \in SUBSET Channels
      BY <2>2 DEF Selected, TypeOK
    <3>2. PICK ts \in SUBSET (Channels \cup OwnTargets) : targets' = [targets EXCEPT ![d] = ts]
      BY <1>6, <2>1, <2>2, <3>1 DEF ReadTargets
    <3>3. QED
      BY <3>2 DEF TypeOK
  <2>4. /\ pc' \in [Dispatchers -> {"idle", "evaluate", "rule", "cooldown", "targets", "send"}]
        /\ \A e \in Dispatchers : (cur'[e] = NoRule) = (pc'[e] \in {"idle", "evaluate"})
        /\ faults' \in Nat
    BY <1>6 DEF ReadTargets, TypeOK
  <2>5. QED
    BY <1>6, <2>3, <2>4, DispatchFrame DEF ReadTargets, countVars, TypeOK
<1>7. ASSUME NEW c \in Channels \cup OwnTargets, Send(d, c)
      PROVE  TypeOK'
  <2>1. targets' \in [Dispatchers -> SUBSET (Channels \cup OwnTargets)]
    BY <1>7 DEF Send, TypeOK
  <2>2. QED
    BY <1>7, <2>1, DispatchFrame DEF Send, countVars, TypeOK
<1>8. CASE WriteLog(d)
  <2>1. cooling' \in [Rules -> BOOLEAN]
    BY <1>8 DEF WriteLog, TypeOK
  <2>2. QED
    BY <1>8, <2>1, ReturnType, DispatchFrame DEF WriteLog, countVars, TypeOK
<1>9. CASE LogFails(d)
  <2>1. unlogged' \in [Rules -> Nat] /\ faults' \in Nat
    BY <1>9 DEF LogFails, TypeOK
  <2>2. QED
    BY <1>9, <2>1, ReturnType, DispatchFrame DEF LogFails, TypeOK
<1>10. QED
  BY <1>1, <1>2, <1>3, <1>4, <1>5, <1>6, <1>7, <1>8, <1>9 DEF Evaluate, Dispatch

\* The types are inductive.
LEMMA TypeStep ==
    ASSUME TypeOK, [Next]_vars
    PROVE  TypeOK'
<1>1. CASE UNCHANGED vars
  BY <1>1 DEF vars, adminVars, callVars, countVars, seenVars, TypeOK
<1>2. QED
  BY <1>1, AdminType, DispatchType DEF Next

\* Finitely many dispatches are past the check, at most all of them.
LEMMA PassingFinite ==
    ASSUME NEW r \in Rules
    PROVE  /\ IsFiniteSet(Passing(r)) /\ Cardinality(Passing(r)) \in Nat
           /\ Cardinality(Dispatchers) \in Nat
           /\ Cardinality(Passing(r)) <= Cardinality(Dispatchers)
<1>1. IsFiniteSet(Dispatchers)
  BY DispatchAssumption, FS_Union DEF Dispatchers
<1>2. Passing(r) \in SUBSET Dispatchers
  BY DEF Passing
<1>3. IsFiniteSet(Passing(r)) /\ Cardinality(Passing(r)) <= Cardinality(Dispatchers)
  BY <1>1, <1>2, FS_Subset
<1>4. QED
  BY <1>1, <1>3, FS_CardinalityType

\* Every pass of a quiet period stays accounted for.
LEMMA PassesStep ==
    ASSUME IInv, [Next]_vars
    PROVE  PassesAccounted' /\ AlertBurstBounded'
<1> SUFFICES ASSUME NEW r \in Rules
             PROVE  /\ ~cooling'[r] => passed'[r] <= unlogged'[r] + Cardinality(Passing(r)')
                    /\ passed'[r] <= Cardinality(Dispatchers) + unlogged'[r]
  BY Zenon DEF PassesAccounted, AlertBurstBounded
<1> DEFINE Goal == /\ ~cooling'[r] => passed'[r] <= unlogged'[r] + Cardinality(Passing(r)')
                   /\ passed'[r] <= Cardinality(Dispatchers) + unlogged'[r]
<1>1. /\ ~cooling[r] => passed[r] <= unlogged[r] + Cardinality(Passing(r))
      /\ passed[r] <= Cardinality(Dispatchers) + unlogged[r]
  BY DEF IInv, PassesAccounted, AlertBurstBounded
<1>2. /\ TypeOK /\ passed[r] \in Nat /\ unlogged[r] \in Nat
      /\ Cardinality(Passing(r)) \in Nat /\ Cardinality(Dispatchers) \in Nat
      /\ Cardinality(Passing(r)) <= Cardinality(Dispatchers)
  BY PassingFinite DEF IInv, TypeOK
<1>3. ASSUME UNCHANGED <<cooling, pc, cur, passed, unlogged>>
      PROVE  Goal
  <2>1. Passing(r)' = Passing(r)
    BY <1>3 DEF Passing
  <2>2. QED
    BY <1>1, <1>3, <2>1
<1>4. CASE Administer \/ UNCHANGED vars
  <2>1. UNCHANGED <<cooling, pc, cur, passed, unlogged>>
    BY <1>4, Zenon DEF Administer, CreateRule, LinkChannel, DeleteRule, SaveChannel,
       UnlinkChannel, DeleteChannel, callVars, countVars, vars
  <2>2. QED
    BY <1>3, <2>1
<1>5. ASSUME NEW q \in Rules, CooldownEnds(q)
      PROVE  Goal
  <2>1. Passing(r)' = Passing(r)
    BY <1>5 DEF CooldownEnds, callVars, Passing
  <2>2. CASE q = r
    <3>1. passed'[r] = 0 /\ unlogged'[r] = 0
      BY <1>2, <1>5, <2>2 DEF CooldownEnds, TypeOK
    <3>2. QED
      BY <1>2, <2>1, <3>1
  <2>3. CASE q # r
    <3>1. /\ passed'[r] = passed[r] /\ unlogged'[r] = unlogged[r]
          /\ cooling'[r] = cooling[r]
      BY <1>2, <1>5, <2>3 DEF CooldownEnds, TypeOK
    <3>2. QED
      BY <1>1, <2>1, <3>1
  <2>4. QED
    BY <2>2, <2>3
<1>6. ASSUME NEW d \in Dispatchers,
             \/ Start(d) \/ Evaluate(d) \/ ReadRule(d) \/ ReadTargets(d)
             \/ \E c \in Channels \cup OwnTargets : Send(d, c)
      PROVE  Goal
  <2>1. /\ UNCHANGED <<cooling, passed, unlogged>>
        /\ \A e \in Dispatchers \ {d} : cur'[e] = cur[e] /\ pc'[e] = pc[e]
        /\ \/ pc[d] \in {"targets", "send"} /\ pc'[d] = "send" /\ cur'[d] = cur[d]
           \/ pc[d] \notin {"targets", "send"} /\ pc'[d] \notin {"targets", "send"}
    <3>1. CASE Start(d)
      BY <1>2, <3>1 DEF Start, countVars, TypeOK
    <3>2. CASE Evaluate(d)
      BY <1>2, <3>2 DEF Evaluate, Call, Skip, countVars, TypeOK
    <3>3. CASE ReadRule(d)
      BY <1>2, <3>3 DEF ReadRule, Return, countVars, TypeOK
    <3>4. CASE ReadTargets(d)
      BY <1>2, <3>4 DEF ReadTargets, countVars, TypeOK
    <3>5. CASE \E c \in Channels \cup OwnTargets : Send(d, c)
      BY <1>2, <3>5 DEF Send, countVars, TypeOK
    <3>6. QED
      BY <1>6, <3>1, <3>2, <3>3, <3>4, <3>5
  <2>2. Passing(r)' = Passing(r)
    BY <2>1 DEF Passing
  <2>3. QED
    BY <1>1, <2>1, <2>2
<1>7. ASSUME NEW d \in Dispatchers, CheckCooldown(d)
      PROVE  Goal
  <2>1. CASE Return(d) /\ UNCHANGED countVars
    <3>1. Passing(r)' = Passing(r)
      BY <1>2, <1>7, <2>1 DEF CheckCooldown, Return, Passing, TypeOK
    <3>2. QED
      BY <1>1, <1>7, <2>1, <3>1 DEF CheckCooldown, countVars
  <2>2. CASE /\ ~cooling[cur[d]]
             /\ pc' = [pc EXCEPT ![d] = "targets"]
             /\ passed' = [passed EXCEPT ![cur[d]] = @ + 1]
             /\ UNCHANGED <<cur, unlogged>>
    <3>1. UNCHANGED cooling
      BY <1>7 DEF CheckCooldown
    <3>2. CASE cur[d] = r
      <4>1. Passing(r)' = Passing(r) \cup {d} /\ d \notin Passing(r)
        BY <1>2, <1>7, <2>2, <3>2 DEF CheckCooldown, Passing, TypeOK
      <4>2. Cardinality(Passing(r) \cup {d}) = Cardinality(Passing(r)) + 1
        BY <4>1, PassingFinite, FS_AddElement
      <4>3. Cardinality(Passing(r) \cup {d}) <= Cardinality(Dispatchers)
        <5>1. IsFiniteSet(Dispatchers)
          BY DispatchAssumption, FS_Union DEF Dispatchers
        <5>2. Passing(r) \cup {d} \in SUBSET Dispatchers
          BY DEF Passing
        <5>3. QED
          BY <5>1, <5>2, FS_Subset
      <4>4. passed'[r] = passed[r] + 1
        BY <1>2, <2>2, <3>2 DEF TypeOK
      <4>5. passed[r] + 1 <= unlogged[r] + Cardinality(Passing(r) \cup {d})
        BY <1>1, <1>2, <2>2, <3>2, <4>2
      <4>6. passed[r] + 1 <= Cardinality(Dispatchers) + unlogged[r]
        BY <1>1, <1>2, <2>2, <3>2, <4>2, <4>3
      <4>7. QED
        BY <2>2, <4>1, <4>4, <4>5, <4>6
    <3>3. CASE cur[d] # r
      <4>1. Passing(r)' = Passing(r)
        BY <1>2, <2>2, <3>3 DEF Passing, TypeOK
      <4>2. passed'[r] = passed[r]
        BY <1>2, <2>2, <3>3 DEF TypeOK
      <4>3. QED
        BY <1>1, <2>2, <3>1, <4>1, <4>2
    <3>4. QED
      BY <3>2, <3>3
  <2>3. QED
    BY <1>7, <2>1, <2>2 DEF CheckCooldown
<1>8. ASSUME NEW d \in Dispatchers, WriteLog(d)
      PROVE  Goal
  <2>1. UNCHANGED <<passed, unlogged>>
    BY <1>8 DEF WriteLog, countVars
  <2>2. CASE cur[d] = r
    <3>1. cooling'[r]
      BY <1>2, <1>8, <2>2 DEF WriteLog, TypeOK
    <3>2. QED
      BY <1>1, <2>1, <3>1
  <2>3. CASE cur[d] # r
    <3>1. cooling'[r] = cooling[r] /\ Passing(r)' = Passing(r)
      <4>1. cooling'[r] = cooling[r]
        BY <1>2, <1>8, <2>3 DEF WriteLog, TypeOK
      <4>2. Passing(r)' = Passing(r)
        <5>1. r # NoRule
          BY DispatchAssumption DEF NoRule
        <5>2. Return(d)
          BY <1>8 DEF WriteLog
        <5>3. cur'[d] = NoRule /\ \A e \in Dispatchers \ {d} : cur'[e] = cur[e] /\ pc'[e] = pc[e]
          BY <1>2, <5>2, ReturnType
        <5>4. QED
          BY <2>3, <5>1, <5>3 DEF Passing
      <4>3. QED
        BY <4>1, <4>2
    <3>2. QED
      BY <1>1, <2>1, <3>1
  <2>4. QED
    BY <2>2, <2>3
<1>9. ASSUME NEW d \in Dispatchers, LogFails(d)
      PROVE  Goal
  <2>1. UNCHANGED <<cooling, passed>>
    BY <1>9 DEF LogFails
  <2>2. r # NoRule
    BY DispatchAssumption DEF NoRule
  <2>3. CASE cur[d] = r
    <3>1. unlogged'[r] = unlogged[r] + 1
      BY <1>2, <1>9, <2>3 DEF LogFails, TypeOK
    <3>2. Passing(r)' = Passing(r) \ {d} /\ d \in Passing(r)
      BY <1>2, <1>9, <2>2, <2>3, ReturnType DEF LogFails, Passing
    <3>3. Cardinality(Passing(r) \ {d}) = Cardinality(Passing(r)) - 1
      BY <3>2, PassingFinite, FS_RemoveElement
    <3>4. QED
      BY <1>1, <1>2, <2>1, <3>1, <3>2, <3>3
  <2>4. CASE cur[d] # r
    <3>1. unlogged'[r] = unlogged[r]
      BY <1>2, <1>9, <2>4 DEF LogFails, TypeOK
    <3>2. Passing(r)' = Passing(r)
      BY <1>2, <1>9, <2>2, <2>4, ReturnType DEF LogFails, Passing
    <3>3. QED
      BY <1>1, <2>1, <3>1, <3>2
  <2>5. QED
    BY <2>3, <2>4
<1>10. QED
  BY <1>4, <1>5, <1>6, <1>7, <1>8, <1>9 DEF Next, Dispatch

-----------------------------------------------------------------------------
\* Nothing is active, linked or under way at first.
LEMMA InitInv == Init => IInv
<1> SUFFICES ASSUME Init PROVE IInv
  OBVIOUS
<1>1. TypeOK
  BY DEF Init, TypeOK
<1>2. \A r \in Rules : /\ passed[r] = 0 /\ unlogged[r] = 0
                       /\ Cardinality(Passing(r)) \in Nat /\ Cardinality(Dispatchers) \in Nat
  BY PassingFinite DEF Init
<1> QED
  BY <1>1, <1>2 DEF IInv, PassesAccounted, AlertBurstBounded

\* The invariant holds in every reachable state.
LEMMA Invariant == Spec => []IInv
<1>1. IInv /\ [Next]_vars => IInv'
  BY TypeStep, PassesStep DEF IInv
<1> QED
  BY <1>1, InitInv, PTL DEF Spec

\* Every variable keeps its type, and a dispatcher holds a rule exactly while it
\* is inside dispatchAlert.
THEOREM DispatchTypes == Spec => []TypeOK
<1>1. IInv => TypeOK
  BY DEF IInv
<1>2. QED
  BY <1>1, Invariant, PTL

\* In one quiet period of a rule no more alerts pass the cooldown check than
\* there are dispatchers, plus one for each alert_log row that failed.
THEOREM AlertBursts == Spec => []AlertBurstBounded
<1>1. IInv => AlertBurstBounded
  BY DEF IInv
<1>2. QED
  BY <1>1, Invariant, PTL

(***************************************************************************)
(* Targets are current.                                                    *)
(*                                                                         *)
(* Administration moves between any two queries of a dispatch.  While one  *)
(* is under way, what is in force was offered to it, and what was in force *)
(* all the time still is (SeesInForce); past its SELECT of the rule, the   *)
(* rule was seen active (SawRule).                                         *)
(***************************************************************************)
SeesInForce ==
    \A d \in Dispatchers : \A r \in Rules :
        cur[d] = r /\ pc[d] # "send" =>
            InForce(r) \subseteq offered[d] /\ steady[d] \subseteq InForce(r)
SawRule == \A d \in Dispatchers : pc[d] \in {"cooldown", "targets"} => cur[d] \in offered[d]

TargetInv == TypeOK /\ SeesInForce /\ SawRule

\* A dispatcher that is inside dispatchAlert after a step has observed it.
LEMMA ObserveSees ==
    ASSUME Observe, NEW d \in Dispatchers, NEW r \in Rules, cur'[d] = r, pc'[d] # "send"
    PROVE  /\ InForce(r)' \subseteq offered'[d]
           /\ steady'[d] \subseteq InForce(r)'
           /\ cur[d] = r => offered[d] \subseteq offered'[d]
<1> DEFINE now(e) == UNION {InForce(s)' : s \in {s \in Rules : cur'[e] = s /\ pc'[e] # "send"}}
<1>1. now(d) = InForce(r)'
  <2>1. {s \in Rules : cur'[d] = s /\ pc'[d] # "send"} = {r}
    OBVIOUS
  <2> QED
    BY <2>1
<1> HIDE DEF now
<1>2. /\ offered' = [e \in Dispatchers |->
                       IF cur'[e] # cur[e] \/ pc'[e] = "send" THEN now(e)
                       ELSE offered[e] \cup now(e)]
      /\ steady' = [e \in Dispatchers |->
                       IF cur'[e] # cur[e] \/ pc'[e] = "send" THEN now(e)
                       ELSE steady[e] \cap now(e)]
  BY DEF Observe, now
<1> QED
  BY <1>1, <1>2

\* The way past the SELECT of the rule: it was there already, or has just been seen
\* active.
LEMMA PastReadRule ==
    ASSUME TypeOK, Next, NEW d \in Dispatchers, pc'[d] \in {"cooldown", "targets"}
    PROVE  /\ cur'[d] = cur[d]
           /\ \/ pc[d] \in {"cooldown", "targets"}
              \/ cur[d] \in Rules /\ Active(cur[d]) /\ rule' = rule
<1>1. ASSUME UNCHANGED <<pc, cur>>
      PROVE  cur'[d] = cur[d] /\ pc[d] \in {"cooldown", "targets"}
  BY <1>1
<1>2. ASSUME Administer \/ \E r \in Rules : CooldownEnds(r)
      PROVE  UNCHANGED <<pc, cur>>
  BY <1>2 DEF Administer, CreateRule, DeleteRule, LinkChannel, UnlinkChannel, DeleteChannel,
     SaveChannel, CooldownEnds, callVars
<1>3. ASSUME NEW e \in Dispatchers, Start(e) \/ Evaluate(e)
      PROVE  cur'[d] = cur[d] /\ pc[d] \in {"cooldown", "targets"}
  BY <1>3 DEF Start, Evaluate, Call, Skip, TypeOK
<1>4. ASSUME NEW e \in Dispatchers, ReadRule(e)
      PROVE  /\ cur'[d] = cur[d]
             /\ \/ pc[d] \in {"cooldown", "targets"}
                \/ cur[d] \in Rules /\ Active(cur[d]) /\ rule' = rule
  <2>1. CASE e = d
    <3>1. pc[d] = "rule" /\ Active(cur[d]) /\ cur' = cur /\ rule' = rule
      BY <1>4, <2>1 DEF ReadRule, Return, TypeOK, adminVars
    <3>2. cur[d] \in Rules
      BY <3>1 DEF TypeOK
    <3> QED
      BY <3>1, <3>2
  <2>2. CASE e # d
    BY <1>4, <2>2 DEF ReadRule, Return, TypeOK
  <2> QED
    BY <2>1, <2>2
<1>5. ASSUME NEW e \in Dispatchers, CheckCooldown(e) \/ ReadTargets(e)
      PROVE  cur'[d] = cur[d] /\ pc[d] \in {"cooldown", "targets"}
  BY <1>5 DEF CheckCooldown, ReadTargets, Return, TypeOK
<1>6. ASSUME NEW e \in Dispatchers, WriteLog(e) \/ LogFails(e)
      PROVE  cur'[d] = cur[d] /\ pc[d] \in {"cooldown", "targets"}
  BY <1>6 DEF WriteLog, LogFails, Return, TypeOK
<1>7. ASSUME NEW e \in Dispatchers, NEW c, Send(e, c)
      PROVE  UNCHANGED <<pc, cur>>
  BY <1>7 DEF Send
<1> QED
  BY <1>1, <1>2, <1>3, <1>4, <1>5, <1>6, <1>7 DEF Next, Dispatch

LEMMA TargetStep ==
    ASSUME TargetInv, [Next]_vars
    PROVE  TargetInv'
<1>1. TypeOK'
  BY TypeStep DEF TargetInv
<1>2. CASE UNCHANGED vars
  <2>1. \A r \in Rules : InForce(r)' = InForce(r)
    BY <1>2 DEF vars, adminVars, InForce, Active
  <2>2. SeesInForce'
    BY <1>2, <2>1 DEF vars, callVars, seenVars, TargetInv, SeesInForce
  <2> QED
    BY <1>1, <1>2, <2>2 DEF vars, callVars, seenVars, TargetInv, SawRule
<1>3. CASE Next
  <2>1. Observe
    BY <1>3 DEF Next
  <2>2. SeesInForce'
    BY <2>1, ObserveSees DEF SeesInForce
  <2>3. ASSUME NEW d \in Dispatchers, pc'[d] \in {"cooldown", "targets"}
        PROVE  cur'[d] \in offered'[d]
    <3>1. /\ cur'[d] = cur[d]
          /\ \/ pc[d] \in {"cooldown", "targets"}
             \/ cur[d] \in Rules /\ Active(cur[d]) /\ rule' = rule
      BY <1>3, <2>3, PastReadRule DEF TargetInv
    <3>2. PICK r \in Rules : cur'[d] = r
      BY <1>1, <2>3 DEF TypeOK
    <3>3. InForce(r)' \subseteq offered'[d] /\ (cur[d] = r => offered[d] \subseteq offered'[d])
      BY <2>1, <2>3, <3>2, ObserveSees
    <3>4. CASE pc[d] \in {"cooldown", "targets"}
      BY <3>1, <3>2, <3>3, <3>4 DEF TargetInv, SawRule
    <3>5. CASE Active(cur[d]) /\ rule' = rule
      <4>1. r \in InForce(r)'
        BY <3>1, <3>2, <3>5 DEF InForce, Active
      <4> QED
        BY <3>1, <3>2, <3>3, <4>1
    <3> QED
      BY <3>1, <3>4, <3>5
  <2> QED
    BY <1>1, <2>2, <2>3 DEF TargetInv, SawRule
<1> QED
  BY <1>2, <1>3

\* What deliveryTargetsForRule returns was in force during the dispatch.
LEMMA TargetsSeen ==
    ASSUME TargetInv, Next, NEW d \in Dispatchers, pc[d] = "targets", pc'[d] = "send"
    PROVE  /\ cur[d] \in offered[d]
           /\ targets'[d] \subseteq offered[d] \cup OwnTargets
           /\ faults' = faults => steady[d] \cap Channels \subseteq targets'[d]
<1>1. ReadTargets(d)
  <2>1. ASSUME UNCHANGED pc
        PROVE  FALSE
    BY <2>1
  <2>2. ASSUME Administer \/ \E r \in Rules : CooldownEnds(r)
        PROVE  UNCHANGED pc
    BY <2>2 DEF Administer, CreateRule, DeleteRule, LinkChannel, UnlinkChannel, DeleteChannel,
       SaveChannel, CooldownEnds, callVars
  <2>3. ASSUME NEW e \in Dispatchers, Start(e) \/ Evaluate(e)
        PROVE  FALSE
    BY <2>3 DEF Start, Evaluate, Call, Skip, TargetInv, TypeOK
  <2>4. ASSUME NEW e \in Dispatchers,
               ReadRule(e) \/ CheckCooldown(e) \/ WriteLog(e) \/ LogFails(e)
        PROVE  FALSE
    BY <2>4 DEF ReadRule, CheckCooldown, WriteLog, LogFails, Return, TargetInv, TypeOK
  <2>5. ASSUME NEW e \in Dispatchers, NEW c, Send(e, c)
        PROVE  UNCHANGED pc
    BY <2>5 DEF Send
  <2>6. ASSUME NEW e \in Dispatchers, ReadTargets(e)
        PROVE  e = d
    BY <2>6 DEF ReadTargets, TargetInv, TypeOK
  <2> QED
    BY <2>1, <2>2, <2>3, <2>4, <2>5, <2>6 DEF Next, Dispatch
<1>2. PICK r \in Rules : cur[d] = r
  BY DEF TargetInv, TypeOK
<1>3. /\ Selected(r) \subseteq offered[d]
      /\ steady[d] \cap Channels \subseteq Selected(r)
      /\ own[r] \subseteq OwnTargets
  <2>1. InForce(r) \subseteq offered[d] /\ steady[d] \subseteq InForce(r)
    BY <1>2 DEF TargetInv, SeesInForce
  <2>2. Selected(r) \subseteq InForce(r) /\ InForce(r) \subseteq Selected(r) \cup {r}
    BY DEF Selected, InForce
  <2>3. r \notin Channels
    BY DispatchAssumption
  <2> QED
    BY <2>1, <2>2, <2>3 DEF TargetInv, TypeOK
<1>4. \/ targets'[d] = Targets(r, Selected(r))
      \/ targets'[d] = Targets(r, {}) /\ faults' # faults
  BY <1>1, <1>2 DEF ReadTargets, TargetInv, TypeOK
<1> QED
  BY <1>2, <1>3, <1>4 DEF Targets, TargetInv, SawRule

\* webhooks/alerting.ts: however administration interleaves with a dispatch, the rule
\* was active after the call, every channel sent to was linked and active at some time
\* of it, and none is missed that was so all the time, unless the query fails.
THEOREM TargetsStayCurrent == Spec => TargetsAreCurrent
<1>1. Init => TargetInv
  <2> SUFFICES ASSUME Init PROVE TargetInv
    OBVIOUS
  <2>1. NoRule \notin Rules
    BY DispatchAssumption DEF NoRule
  <2>2. \A d \in Dispatchers : cur[d] = NoRule /\ pc[d] = "idle"
    BY DEF Init
  <2>3. SeesInForce /\ SawRule
    BY <2>1, <2>2 DEF SeesInForce, SawRule
  <2> QED
    BY <2>3, InitInv DEF TargetInv, IInv
<1>2. TargetInv /\ [Next]_vars => TargetInv'
  BY TargetStep
<1>3. TargetInv /\ [Next]_vars =>
          [\A d \in Dispatchers :
              (pc[d] = "targets" /\ pc'[d] = "send") =>
                  /\ cur[d] \in offered[d]
                  /\ targets'[d] \subseteq offered[d] \cup OwnTargets
                  /\ faults' = faults => steady[d] \cap Channels \subseteq targets'[d]]_vars
  BY TargetsSeen
<1> QED
  BY <1>1, <1>2, <1>3, PTL DEF Spec, TargetsAreCurrent
=============================================================================
