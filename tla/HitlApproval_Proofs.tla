------------------------ MODULE HitlApproval_Proofs ------------------------
(* Proofs about HitlApproval, for every set of approvals, requests, tenants *)
(* and actors and every Window, DecidedTTL and SweepPeriod: its safety      *)
(* properties, and that it implements ApprovalPromise.                      *)
EXTENDS HitlApproval, TLAPS

(***************************************************************************)
(* Type correctness.                                                       *)
(***************************************************************************)

\* Goto leaves the per-request variables well typed.
LEMMA GotoType ==
    ASSUME TypeOK, NEW r \in Requests, NEW j \in Job \cup {NoJob}, NEW s \in Seen,
           NEW next \in Pcs, Goto(r, j, s, next)
    PROVE  /\ pc' \in [Requests -> Pcs]
           /\ job' \in [Requests -> Job \cup {NoJob}]
           /\ seen' \in [Requests -> Seen]
<1>1. NotSeen \in Seen
  BY DEF NotSeen, Seen
<1> QED
  BY <1>1 DEF TypeOK, Goto

\* So does SetDecision with the decision column and its history.
LEMMA SetDecisionType ==
    ASSUME TypeOK, NEW a \in Approvals, NEW d \in Decision, SetDecision(a, d)
    PROVE  /\ decision' \in [Approvals -> Decision \cup {NONE}]
           /\ recorded' \in [Approvals -> SUBSET Decision]
  BY DEF TypeOK, SetDecision

\* Types of the helpers of the routes.
LEMMA HelperTypes ==
    /\ \A j \in Job : \A d : AfterRead(j, d) \in Pcs
    /\ \A r : AfterResolve(r) \in Pcs /\ Verdict(r) \in Decision
    /\ \A j \in Job : j.appr \in Approvals
    /\ NotSeen \in Seen
    /\ NoEntry \in [decision : Decision \cup {NONE}, until : Nat, persistent : BOOLEAN]
  BY DEF AfterRead, AfterResolve, Verdict, Pcs, Job, NotSeen, Seen, NoEntry, Decision, Final

\* A request with work to do works on an approval.
JobOK == \A r \in Requests : pc[r] \in InFlight => job[r] \in Job

\* Initially everything is well typed and no request has a job.
LEMMA InitType == ASSUME HitlAssumption, Init PROVE TypeOK /\ JobOK
  BY HelperTypes DEF Init, TypeOK, JobOK, Pcs, InFlight, NoJob

\* Moving on keeps JobOK when the job is a real one.
LEMMA GotoJob ==
    ASSUME TypeOK, JobOK, NEW r \in Requests, NEW j \in Job, NEW s, NEW next,
           Goto(r, j, s, next)
    PROVE  JobOK'
  BY DEF TypeOK, JobOK, Goto

\* Every step keeps types and jobs.
LEMMA NextType ==
    ASSUME HitlAssumption, TypeOK, JobOK, [Next]_vars
    PROVE  TypeOK' /\ JobOK'
<1> USE HelperTypes
<1>1. ASSUME NEW a \in Approvals, Create(a)
      PROVE  TypeOK' /\ JobOK'
  <2>1. JobOK'
    BY <1>1 DEF Create, CreateStart, CreateCache, CreateRow, CreateFails, JobOK, requestVars
  <2>2. CASE CreateStart(a) \/ CreateFails(a)
    BY <2>1, <2>2, SMTT(30)
       DEF CreateStart, CreateFails, TypeOK, clockVars, requestVars, logVars
  <2>3. CASE CreateCache(a)
    <3>1. now + Window \in Nat /\ "pending" \in Decision
      BY DEF TypeOK, HitlAssumption, Decision
    <3> QED
      BY <2>1, <2>3, <3>1 DEF CreateCache, TypeOK, clockVars, requestVars, logVars
  <2>4. CASE CreateRow(a)
    <3>1. Later(ExpiresAt(a), now) \in Nat /\ "pending" \in Decision
      BY DEF TypeOK, HitlAssumption, Decision, Later, ExpiresAt
    <3> QED
      BY <2>1, <2>4, <3>1 DEF CreateRow, TypeOK, clockVars, requestVars, logVars
  <2> QED
    BY <1>1, <2>2, <2>3, <2>4 DEF Create
<1>2. ASSUME NEW r \in Requests, NEW j \in Job, ReadCache(r, j)
      PROVE  TypeOK' /\ JobOK'
  <2>1. PICK s \in Seen, next \in Pcs : Goto(r, j, s, next)
    <3> DEFINE hit == [src |-> "cache", at |-> now]
               next == IF Expired(j.appr) /\ cache[j.appr].decision = "pending"
                       THEN "timeoutCache" ELSE AfterRead(j, cache[j.appr].decision)
    <3>1. hit \in Seen
      BY DEF TypeOK, Seen
    <3>2. next \in Pcs
      BY DEF Pcs
    <3>3. "dbRead" \in Pcs
      BY DEF Pcs
    <3>4. Goto(r, j, hit, next) \/ Goto(r, j, NotSeen, "dbRead")
      BY <1>2 DEF ReadCache
    <3> HIDE DEF hit, next
    <3> QED
      BY <3>1, <3>2, <3>3, <3>4
  <2> QED
    BY <1>2, <2>1, GotoType, GotoJob
    DEF ReadCache, TypeOK, clockVars, createVars, logVars
<1>3. ASSUME NEW r \in Requests, Step(r)
      PROVE  TypeOK' /\ JobOK'
  <2>1. pc[r] \in InFlight
    BY <1>3 DEF Step, WriteTimeoutCache, WriteTimeoutDb, ReadDb, ResolveDb, ResolveReadCache,
       ResolveWriteCache, Forward, WriteAudit, InFlight, Pcs
  <2>2. job[r] \in Job /\ job[r].appr \in Approvals /\ seen[r] \in Seen
    BY <2>1 DEF JobOK, TypeOK
  <2>3. PICK s \in Seen, next \in Pcs : Goto(r, job[r], s, next)
    <3>1. CASE WriteTimeoutCache(r) \/ WriteTimeoutDb(r) \/ ResolveDb(r)
      BY <2>2, <3>1 DEF WriteTimeoutCache, WriteTimeoutDb, ResolveDb, Pcs
    <3>2. CASE ResolveReadCache(r) \/ ResolveWriteCache(r)
      BY <2>2, <3>2 DEF ResolveReadCache, ResolveWriteCache, Pcs
    <3>3. CASE ReadDb(r)
      BY <2>2, <3>3 DEF ReadDb, TypeOK, Seen
    <3>4. CASE Forward(r) \/ WriteAudit(r)
      BY <2>2, <3>4 DEF Forward, WriteAudit, Pcs
    <3> QED
      BY <1>3, <3>1, <3>2, <3>3, <3>4 DEF Step
  <2>4. /\ JobOK'
        /\ pc' \in [Requests -> Pcs]
        /\ job' \in [Requests -> Job \cup {NoJob}]
        /\ seen' \in [Requests -> Seen]
    BY <2>2, <2>3, GotoType, GotoJob
  <2>5. CASE WriteTimeoutDb(r) \/ ResolveDb(r)
    <3>1. PICK d \in Decision : SetDecision(job[r].appr, d)
      BY <2>5 DEF WriteTimeoutDb, ResolveDb, Decision, Final
    <3> QED
      BY <2>2, <2>4, <2>5, <3>1, SetDecisionType
      DEF WriteTimeoutDb, ResolveDb, TypeOK, clockVars, createVars, logVars
  <2>6. CASE WriteTimeoutCache(r) \/ ResolveWriteCache(r)
    <3>1. PICK e \in [decision : Decision \cup {NONE}, until : Nat, persistent : BOOLEAN] :
             cache' = [cache EXCEPT ![job[r].appr] = e]
      <4>1. CASE WriteTimeoutCache(r)
        BY <4>1 DEF WriteTimeoutCache, Decision, Final
      <4>2. CASE ResolveWriteCache(r)
        <5>1. /\ Verdict(r) \in Decision \cup {NONE}
              /\ now + DecidedTTL \in Nat
          BY DEF TypeOK, HitlAssumption
        <5> DEFINE e == [decision |-> Verdict(r), until |-> now + DecidedTTL, persistent |-> FALSE]
        <5>2. e \in [decision : Decision \cup {NONE}, until : Nat, persistent : BOOLEAN]
          BY <5>1
        <5>3. cache' = [cache EXCEPT ![job[r].appr] = e]
          BY <4>2 DEF ResolveWriteCache
        <5> QED
          BY <5>2, <5>3
      <4> QED
        BY <2>6, <4>1, <4>2
    <3> QED
      BY <2>2, <2>4, <2>6, <3>1 DEF WriteTimeoutCache, ResolveWriteCache, TypeOK,
         clockVars, createVars, logVars
  <2>7. CASE ReadDb(r) \/ ResolveReadCache(r)
    BY <2>4, <2>7 DEF ReadDb, ResolveReadCache, TypeOK, clockVars, createVars, logVars
  <2>8. CASE Forward(r) \/ WriteAudit(r)
    BY <2>4, <2>8 DEF Forward, WriteAudit, TypeOK, clockVars, createVars, logVars
  <2> QED
    BY <1>3, <2>5, <2>6, <2>7, <2>8 DEF Step
<1>4. ASSUME NEW r \in Requests, RequestFails(r)
      PROVE  TypeOK' /\ JobOK'
  <2>1. job[r] \in Job /\ seen[r] \in Seen
    BY <1>4 DEF RequestFails, JobOK, TypeOK
  <2> QED
    BY <1>4, <2>1, GotoType, GotoJob
    DEF RequestFails, TypeOK, Pcs, clockVars, createVars, logVars
<1>5. ASSUME NEW a \in Approvals, NEW d \in Decision, SlackInteract(a, d) \/ AdminDecide(a, d)
      PROVE  TypeOK' /\ JobOK'
  BY <1>5, SetDecisionType
  DEF SlackInteract, AdminDecide, TypeOK, JobOK, clockVars, createVars, requestVars, logVars
<1>6. ASSUME Sweep
      PROVE  TypeOK' /\ JobOK'
  BY <1>6 DEF Sweep, TypeOK, JobOK, createVars, requestVars, logVars, Decision, Final
<1>7. ASSUME Tick
      PROVE  TypeOK' /\ JobOK'
  BY <1>7 DEF Tick, TypeOK, JobOK, createVars, requestVars, logVars
<1>8. ASSUME Restart \/ SweepFails
      PROVE  TypeOK' /\ JobOK'
  BY <1>8 DEF Restart, SweepFails, TypeOK, JobOK, Later, Pcs, InFlight, requestVars, logVars
<1>9. ASSUME UNCHANGED vars
      PROVE  TypeOK' /\ JobOK'
  BY <1>9 DEF vars, clockVars, createVars, requestVars, logVars, TypeOK, JobOK
<1>10. {"approved", "denied"} \subseteq Decision /\ AdminDecisions \subseteq Decision
  BY DEF HitlAssumption, Decision, Final
<1> QED
  BY <1>1, <1>2, <1>3, <1>4, <1>5, <1>6, <1>7, <1>8, <1>9, <1>10 DEF Next

\* Every reachable state is well typed, and a request in flight knows its job.
THEOREM TypeCorrect == Spec => [](TypeOK /\ JobOK)
<1>1. Init => TypeOK /\ JobOK
  BY HitlAssumption, InitType
<1>2. TypeOK /\ JobOK /\ [Next]_vars => (TypeOK /\ JobOK)'
  BY HitlAssumption, NextType
<1> QED
  BY <1>1, <1>2, PTL DEF Spec

(***************************************************************************)
(* What a step leaves in place.                                            *)
(***************************************************************************)

\* Histories only grow, rows are never removed, and once a row is inserted its
\* creation time is fixed.
Monotone ==
    /\ \A a \in Approvals :
          /\ recorded[a] \subseteq recorded'[a]
          /\ decision[a] # NONE => decision'[a] # NONE
          /\ stage[a] # "new" => stage'[a] # "new" /\ created'[a] = created[a]
          /\ stage[a] = "inserted" => stage'[a] = "inserted" /\ sweepable[a] <= sweepable'[a]
    /\ now <= now'

\* A request in flight after the step was left alone by it or took it itself.
Unmoved(r) == pc'[r] = pc[r] /\ job'[r] = job[r] /\ seen'[r] = seen[r]
OneMoves ==
    \A r \in Requests :
        pc'[r] \in InFlight =>
            \/ Unmoved(r)
            \/ Step(r) /\ job'[r] = job[r]
            \/ \E j \in Job : ReadCache(r, j) /\ job'[r] = j

\* What only grows: stages, histories, decided rows.
LEMMA StepMonotone ==
    ASSUME HitlAssumption, TypeOK, JobOK, [Next]_vars
    PROVE  Monotone
<1>1. ASSUME NEW a \in Approvals, Create(a)
      PROVE  Monotone
  BY <1>1 DEF Create, CreateStart, CreateCache, CreateRow, CreateFails, Monotone, TypeOK,
     clockVars, NONE
<1>2. ASSUME NEW r \in Requests, NEW j \in Job, ReadCache(r, j)
      PROVE  Monotone
  BY <1>2 DEF ReadCache, Monotone, TypeOK, clockVars, createVars
<1>3. ASSUME NEW a \in Approvals, NEW d \in Decision, SetDecision(a, d),
             UNCHANGED <<clockVars, createVars>>
      PROVE  Monotone
  BY <1>3 DEF SetDecision, Monotone, TypeOK, clockVars, createVars, Decision, Final, NONE
<1>4. ASSUME NEW r \in Requests, Step(r)
      PROVE  Monotone
  <2>1. CASE WriteTimeoutDb(r) \/ ResolveDb(r)
    <3>1. job[r].appr \in Approvals
      BY <2>1, HelperTypes DEF JobOK, WriteTimeoutDb, ResolveDb, InFlight, Pcs
    <3> QED
      BY <1>3, <2>1, <3>1, HelperTypes DEF WriteTimeoutDb, ResolveDb, Decision, Final
  <2>2. CASE ~(WriteTimeoutDb(r) \/ ResolveDb(r))
    BY <1>4, <2>2 DEF Step, WriteTimeoutCache, ReadDb, ResolveReadCache, ResolveWriteCache,
       Forward, WriteAudit, Monotone, TypeOK, clockVars, createVars
  <2> QED
    BY <2>1, <2>2
<1>5. ASSUME NEW r \in Requests, RequestFails(r)
      PROVE  Monotone
  BY <1>5 DEF RequestFails, Monotone, TypeOK, clockVars, createVars
<1>6. ASSUME NEW a \in Approvals, NEW d \in Decision, SlackInteract(a, d) \/ AdminDecide(a, d)
      PROVE  Monotone
  BY <1>3, <1>6 DEF SlackInteract, AdminDecide
<1>7. ASSUME Sweep \/ Tick
      PROVE  Monotone
  BY <1>7 DEF Sweep, Tick, Monotone, TypeOK, createVars, NONE
<1>8. ASSUME Restart \/ SweepFails
      PROVE  Monotone
  BY <1>8 DEF Restart, SweepFails, Monotone, TypeOK, Later
<1>9. ASSUME UNCHANGED vars
      PROVE  Monotone
  BY <1>9 DEF vars, Monotone, TypeOK, clockVars, createVars
<1>10. {"approved", "denied"} \subseteq Decision /\ AdminDecisions \subseteq Decision
  BY DEF HitlAssumption, Decision, Final
<1> QED
  BY <1>1, <1>2, <1>4, <1>5, <1>6, <1>7, <1>8, <1>9, <1>10 DEF Next

\* One step moves one request; a restart fails all that are in flight.
LEMMA StepOneMoves ==
    ASSUME HitlAssumption, TypeOK, [Next]_vars
    PROVE  OneMoves
<1>1. ASSUME NEW r \in Requests, NEW j \in Job, ReadCache(r, j)
      PROVE  OneMoves
  <2>1. PICK s, next : Goto(r, j, s, next)
    BY <1>1 DEF ReadCache
  <2>2. pc'[r] \in InFlight => job'[r] = j
    BY <2>1 DEF Goto, TypeOK
  <2>3. \A q \in Requests \ {r} : Unmoved(q)
    BY <2>1 DEF Goto, TypeOK, Unmoved
  <2> QED
    BY <1>1, <2>2, <2>3 DEF OneMoves
<1>2. ASSUME NEW r \in Requests, Step(r) \/ RequestFails(r)
      PROVE  OneMoves
  <2>1. PICK s, next : Goto(r, job[r], s, next)
    BY <1>2 DEF Step, WriteTimeoutCache, WriteTimeoutDb, ReadDb, ResolveDb, ResolveReadCache,
       ResolveWriteCache, Forward, WriteAudit, RequestFails
  <2>2. pc'[r] \in InFlight => job'[r] = job[r]
    BY <2>1 DEF Goto, TypeOK
  <2>3. \A q \in Requests \ {r} : Unmoved(q)
    BY <2>1 DEF Goto, TypeOK, Unmoved
  <2>4. RequestFails(r) => pc'[r] \notin InFlight
    BY DEF RequestFails, Goto, TypeOK, InFlight
  <2> QED
    BY <1>2, <2>2, <2>3, <2>4 DEF OneMoves
<1>3. ASSUME UNCHANGED requestVars
      PROVE  OneMoves
  BY <1>3 DEF OneMoves, Unmoved, requestVars
<1>4. ASSUME Restart
      PROVE  OneMoves
  BY <1>4 DEF Restart, OneMoves, TypeOK, InFlight
<1>5. ASSUME (\E a \in Approvals : Create(a))
             \/ (\E a \in Approvals, d \in {"approved", "denied"} : SlackInteract(a, d))
             \/ (\E a \in Approvals, d \in AdminDecisions : AdminDecide(a, d))
             \/ Sweep \/ SweepFails \/ Tick \/ UNCHANGED vars
      PROVE  UNCHANGED requestVars
  BY <1>5 DEF Create, CreateStart, CreateCache, CreateRow, CreateFails, SlackInteract,
     AdminDecide, Sweep, SweepFails, Tick, vars, requestVars
<1> QED
  BY <1>1, <1>2, <1>3, <1>4, <1>5 DEF Next

(***************************************************************************)
(* Decisions are recorded before they are cached or executed.              *)
(*                                                                         *)
(* ResolveDb always finds a row (RowExists), so a request past it has its  *)
(* verdict in the history (RecordedFirst); the routes let only deciders of *)
(* the owning tenant come that far (DeciderOK).                            *)
(***************************************************************************)
RowExists ==
    /\ \A a \in Approvals : stage[a] = "inserted" <=> decision[a] # NONE
    /\ \A r \in Requests : pc[r] \in InFlight => stage[job[r].appr] = "inserted"

DeciderOK ==
    \A r \in Requests :
        /\ pc[r] \in {"resolveDb", "cacheRead", "cacheWrite", "forward"}
              => job[r].kind \in {"approve", "deny"} /\ MayDecide(job[r].actor, job[r].appr)
        /\ pc[r] = "forward" => job[r].kind = "approve"

RecordedFirst ==
    \A r \in Requests :
        pc[r] \in {"cacheRead", "cacheWrite", "forward"} => Verdict(r) \in recorded[job[r].appr]

DecisionInv ==
    TypeOK /\ JobOK /\ RowExists /\ DeciderOK /\ RecordedFirst /\ CacheDecisionWasRecorded

\* The only steps that change the row of an approval.
LEMMA RowWriters ==
    ASSUME [Next]_vars
    PROVE  \/ UNCHANGED <<decision, recorded>>
           \/ \E a \in Approvals : CreateRow(a)
           \/ \E r \in Requests : WriteTimeoutDb(r) \/ ResolveDb(r)
           \/ \E a \in Approvals, d \in {"approved", "denied"} \cup AdminDecisions :
                  SetDecision(a, d) /\ stage[a] = "inserted" /\ UNCHANGED clockVars
           \/ Sweep
  BY DEF Next, Create, CreateStart, CreateCache, CreateFails, ReadCache, Step, WriteTimeoutCache,
     ReadDb, ResolveReadCache, ResolveWriteCache, Forward, WriteAudit, RequestFails,
     SlackInteract, AdminDecide, SweepFails, Tick, Restart, vars

\* Once a request works on an approval its row exists, and rows are never deleted.
LEMMA RowExistsStep ==
    ASSUME HitlAssumption, TypeOK, JobOK, RowExists, [Next]_vars
    PROVE  RowExists'
<1>1. Monotone /\ OneMoves
  BY StepMonotone, StepOneMoves
<1>2. ASSUME NEW a \in Approvals, stage'[a] = "inserted"
      PROVE  decision'[a] # NONE
  <2>1. CASE stage[a] = "inserted"
    BY <1>1, <2>1 DEF Monotone, RowExists
  <2>2. CASE stage[a] # "inserted"
    <3>1. CreateRow(a)
      <4>1. ASSUME NEW b \in Approvals, Create(b)
            PROVE  CreateRow(a)
        BY <1>2, <2>2, <4>1 DEF Create, CreateStart, CreateCache, CreateRow, CreateFails, TypeOK
      <4>2. ASSUME UNCHANGED stage \/ Restart
            PROVE  FALSE
        BY <1>2, <2>2, <4>2 DEF Restart, TypeOK
      <4>3. (\E b \in Approvals : Create(b)) \/ UNCHANGED stage \/ Restart
        BY DEF Next, Step, ReadCache, WriteTimeoutCache, WriteTimeoutDb, ReadDb, ResolveDb,
           ResolveReadCache, ResolveWriteCache, Forward, WriteAudit, RequestFails, SlackInteract,
           AdminDecide, Sweep, SweepFails, Tick, vars, createVars
      <4> QED
        BY <4>1, <4>2, <4>3
    <3> QED
      BY <3>1 DEF CreateRow, TypeOK, NONE
  <2> QED
    BY <2>1, <2>2
<1>3. ASSUME NEW a \in Approvals, decision'[a] # NONE
      PROVE  stage'[a] = "inserted"
  <2>1. CASE decision[a] # NONE
    BY <1>1, <2>1 DEF Monotone, RowExists
  <2>2. ASSUME decision[a] = NONE, NEW b \in Approvals, NEW d, SetDecision(b, d)
        PROVE  FALSE
    BY <1>3, <2>2 DEF SetDecision, TypeOK
  <2>3. ASSUME decision[a] = NONE, NEW r \in Requests, WriteTimeoutDb(r) \/ ResolveDb(r)
        PROVE  FALSE
    BY <1>3, <2>3 DEF WriteTimeoutDb, ResolveDb, SetDecision, TypeOK
  <2>4. ASSUME decision[a] = NONE, NEW b \in Approvals, CreateRow(b)
        PROVE  stage'[a] = "inserted"
    BY <1>3, <2>4 DEF CreateRow, TypeOK
  <2>5. ASSUME decision[a] = NONE, Sweep
        PROVE  FALSE
    BY <1>3, <2>5 DEF Sweep, Overdue, NONE
  <2> QED
    BY <1>3, <2>1, <2>2, <2>3, <2>4, <2>5, RowWriters
<1>4. ASSUME NEW r \in Requests, pc'[r] \in InFlight
      PROVE  stage'[job'[r].appr] = "inserted"
  <2>1. CASE Unmoved(r) \/ (Step(r) /\ job'[r] = job[r])
    <3>1. pc[r] \in InFlight
      BY <1>4, <2>1 DEF Unmoved, Step, WriteTimeoutCache, WriteTimeoutDb, ReadDb, ResolveDb,
         ResolveReadCache, ResolveWriteCache, Forward, WriteAudit, InFlight, Pcs
    <3>2. job[r].appr \in Approvals
      BY <3>1, HelperTypes DEF JobOK
    <3> QED
      BY <1>1, <2>1, <3>1, <3>2 DEF RowExists, Monotone, Unmoved
  <2>2. ASSUME NEW j \in Job, ReadCache(r, j), job'[r] = j
        PROVE  stage'[job'[r].appr] = "inserted"
    BY <2>2 DEF ReadCache, createVars
  <2> QED
    BY <1>1, <1>4, <2>1, <2>2 DEF OneMoves
<1> QED
  BY <1>2, <1>3, <1>4 DEF RowExists

\* The verdict of a request that does not change its job does not change.
LEMMA VerdictStays ==
    ASSUME NEW r, job'[r] = job[r] PROVE Verdict(r)' = Verdict(r)
  BY DEF Verdict

\* Only a decider of the owning tenant gets past the check of the routes.
LEMMA DeciderStep ==
    ASSUME HitlAssumption, TypeOK, JobOK, DeciderOK, [Next]_vars
    PROVE  DeciderOK'
<1> DEFINE P(r) == /\ pc[r] \in {"resolveDb", "cacheRead", "cacheWrite", "forward"}
                         => job[r].kind \in {"approve", "deny"}
                              /\ MayDecide(job[r].actor, job[r].appr)
                   /\ pc[r] = "forward" => job[r].kind = "approve"
<1>1. ASSUME NEW r \in Requests, pc'[r] \in InFlight
      PROVE  P(r)'
  <2>1. CASE Unmoved(r)
    BY <2>1 DEF Unmoved, DeciderOK, MayDecide
  <2>2. ASSUME NEW j \in Job, ReadCache(r, j), job'[r] = j
        PROVE  P(r)'
    <3>1. \A d : AfterRead(j, d) = "resolveDb" =>
                    j.kind \in {"approve", "deny"} /\ MayDecide(j.actor, j.appr)
      BY DEF AfterRead, Job
    <3>2. /\ pc'[r] \notin {"cacheRead", "cacheWrite", "forward"}
          /\ pc'[r] = "resolveDb" => \E d : AfterRead(j, d) = "resolveDb"
      BY <2>2 DEF ReadCache, Goto, TypeOK, AfterRead
    <3> QED
      BY <2>2, <3>1, <3>2 DEF MayDecide
  <2>3. CASE Step(r) /\ job'[r] = job[r]
    <3>1. CASE WriteTimeoutCache(r) \/ WriteTimeoutDb(r)
      BY <3>1 DEF WriteTimeoutCache, WriteTimeoutDb, Goto, AfterRead, TypeOK
    <3>2. CASE ReadDb(r)
      <4>1. job[r] \in Job
        BY <3>2 DEF ReadDb, JobOK, InFlight, Pcs
      <4>2. pc'[r] \in {"resolveDb", "done"}
            /\ (pc'[r] = "resolveDb" => job[r].kind # "status" /\ MayDecide(job[r].actor, job[r].appr))
        BY <3>2 DEF ReadDb, Goto, AfterRead, TypeOK
      <4> QED
        BY <2>3, <4>1, <4>2 DEF Job, MayDecide
    <3>3. CASE ResolveDb(r) \/ ResolveReadCache(r) \/ ResolveWriteCache(r)
      <4>1. pc[r] \in {"resolveDb", "cacheRead", "cacheWrite"}
        BY <3>3 DEF ResolveDb, ResolveReadCache, ResolveWriteCache
      <4>2. job[r].kind \in {"approve", "deny"} /\ MayDecide(job[r].actor, job[r].appr)
        BY <4>1 DEF DeciderOK
      <4>3. pc'[r] = "forward" => job[r].kind # "deny"
        BY <3>3 DEF ResolveDb, ResolveReadCache, ResolveWriteCache, Goto, AfterResolve, TypeOK
      <4> QED
        BY <2>3, <4>2, <4>3 DEF MayDecide
    <3>4. CASE Forward(r) \/ WriteAudit(r)
      BY <3>4 DEF Forward, WriteAudit, Goto, TypeOK
    <3> QED
      BY <2>3, <3>1, <3>2, <3>3, <3>4 DEF Step
  <2> QED
    BY <1>1, <2>1, <2>2, <2>3, StepOneMoves DEF OneMoves
<1>2. ASSUME NEW r \in Requests, pc'[r] \notin InFlight
      PROVE  P(r)'
  <2>1. pc'[r] \notin {"resolveDb", "cacheRead", "cacheWrite", "forward"}
    BY <1>2 DEF InFlight, Pcs
  <2> QED
    BY <2>1
<1> QED
  BY <1>1, <1>2 DEF DeciderOK

\* The row is written before the Redis entry and before the upstream runs the tool.
LEMMA RecordedFirstStep ==
    ASSUME HitlAssumption, TypeOK, JobOK, RowExists, RecordedFirst, [Next]_vars
    PROVE  RecordedFirst'
<1> DEFINE Past == {"cacheRead", "cacheWrite", "forward"}
<1>1. Monotone /\ OneMoves
  BY StepMonotone, StepOneMoves
<1> SUFFICES ASSUME NEW r \in Requests, pc'[r] \in Past
             PROVE  Verdict(r)' \in recorded'[job'[r].appr]
  BY DEF RecordedFirst
<1>2. pc'[r] \in InFlight
  BY DEF InFlight, Pcs
<1>3. ASSUME pc[r] \in Past, job'[r] = job[r]
      PROVE  Verdict(r)' \in recorded'[job'[r].appr]
  <2>1. job[r].appr \in Approvals
    BY <1>3, HelperTypes DEF JobOK, InFlight, Pcs
  <2>2. Verdict(r) \in recorded[job[r].appr]
    BY <1>3 DEF RecordedFirst
  <2> QED
    BY <1>1, <1>3, <2>1, <2>2, VerdictStays DEF Monotone
<1>4. CASE Unmoved(r)
  BY <1>3, <1>4 DEF Unmoved
<1>5. ASSUME NEW j \in Job, ReadCache(r, j)
      PROVE  FALSE
  BY <1>5 DEF ReadCache, Goto, AfterRead, TypeOK
<1>6. CASE Step(r) /\ job'[r] = job[r]
  <2>1. CASE ResolveDb(r)
    <3>1. job[r].appr \in Approvals /\ decision[job[r].appr] # NONE
      BY <2>1, HelperTypes DEF ResolveDb, JobOK, RowExists, InFlight, Pcs
    <3>2. Verdict(r) \in recorded'[job[r].appr]
      BY <2>1, <3>1 DEF ResolveDb, SetDecision, TypeOK
    <3> QED
      BY <1>6, <3>2, VerdictStays
  <2>2. CASE ResolveReadCache(r) \/ ResolveWriteCache(r)
    BY <1>3, <1>6, <2>2 DEF ResolveReadCache, ResolveWriteCache
  <2>3. CASE WriteTimeoutCache(r) \/ WriteTimeoutDb(r) \/ ReadDb(r) \/ Forward(r) \/ WriteAudit(r)
    BY <2>3 DEF WriteTimeoutCache, WriteTimeoutDb, ReadDb, Forward, WriteAudit, Goto, AfterRead,
       TypeOK
  <2> QED
    BY <1>6, <2>1, <2>2, <2>3 DEF Step
<1> QED
  BY <1>1, <1>2, <1>4, <1>5, <1>6 DEF OneMoves

\* The only steps that change the Redis entry of an approval.
LEMMA CacheWriters ==
    ASSUME [Next]_vars
    PROVE  \/ UNCHANGED cache
           \/ \E a \in Approvals : CreateCache(a)
           \/ \E r \in Requests : WriteTimeoutCache(r) \/ ResolveWriteCache(r)
           \/ Tick
  BY DEF Next, Create, CreateStart, CreateRow, CreateFails, ReadCache, Step, WriteTimeoutDb,
     ReadDb, ResolveDb, ResolveReadCache, Forward, WriteAudit, RequestFails, SlackInteract,
     AdminDecide, Sweep, SweepFails, Restart, vars

\* The Redis entry never gets ahead of the row.
LEMMA CacheStep ==
    ASSUME HitlAssumption, TypeOK, JobOK, RecordedFirst, CacheDecisionWasRecorded, [Next]_vars
    PROVE  CacheDecisionWasRecorded'
<1> SUFFICES ASSUME NEW a \in Approvals, cache'[a].decision \in {"approved", "denied"}
             PROVE  cache'[a].decision \in recorded'[a]
  BY DEF CacheDecisionWasRecorded
<1>1. recorded[a] \subseteq recorded'[a]
  BY StepMonotone DEF Monotone
<1>2. CASE cache'[a] = cache[a]
  BY <1>1, <1>2 DEF CacheDecisionWasRecorded
<1>3. ASSUME NEW b \in Approvals, CreateCache(b), cache'[a] # cache[a]
      PROVE  FALSE
  BY <1>3 DEF CreateCache, TypeOK
<1>4. ASSUME NEW r \in Requests, WriteTimeoutCache(r), cache'[a] # cache[a]
      PROVE  FALSE
  BY <1>4 DEF WriteTimeoutCache, TypeOK
<1>5. ASSUME NEW r \in Requests, ResolveWriteCache(r), cache'[a] # cache[a]
      PROVE  cache'[a].decision \in recorded'[a]
  <2>1. job[r].appr = a /\ cache'[a].decision = Verdict(r)
    BY <1>5 DEF ResolveWriteCache, TypeOK
  <2>2. Verdict(r) \in recorded[a]
    BY <1>5, <2>1 DEF ResolveWriteCache, RecordedFirst
  <2> QED
    BY <1>1, <2>1, <2>2
<1>6. ASSUME Tick, cache'[a] # cache[a]
      PROVE  FALSE
  BY <1>6 DEF Tick, NoEntry, NONE
<1> QED
  BY <1>2, <1>3, <1>4, <1>5, <1>6, CacheWriters

\* DecisionInv is inductive.
LEMMA DecisionInvariant == Spec => []DecisionInv
<1>1. Init => DecisionInv
  <2> SUFFICES ASSUME Init PROVE DecisionInv
    OBVIOUS
  <2>1. TypeOK /\ JobOK
    BY HitlAssumption, InitType
  <2>2. RowExists /\ DeciderOK /\ RecordedFirst /\ CacheDecisionWasRecorded
    BY DEF Init, RowExists, DeciderOK, RecordedFirst, CacheDecisionWasRecorded, InFlight, Pcs,
       NoEntry, NONE
  <2> QED
    BY <2>1, <2>2 DEF DecisionInv
<1>2. DecisionInv /\ [Next]_vars => DecisionInv'
  BY HitlAssumption, NextType, RowExistsStep, DeciderStep, RecordedFirstStep, CacheStep
  DEF DecisionInv
<1> QED
  BY <1>1, <1>2, PTL DEF Spec

\* An agent that polls is told approved or denied only after the row recorded
\* that decision.
THEOREM DecisionsRecorded == Spec => []CacheDecisionWasRecorded
<1>1. DecisionInv => CacheDecisionWasRecorded
  BY DEF DecisionInv
<1> QED
  BY <1>1, DecisionInvariant, PTL

\* The upstream runs a tool for an approval only for an approve request of a
\* decider of the owning tenant, after the row has held approved.
THEOREM ExecutionsApproved == Spec => ExecutionWasApproved
<1> DEFINE OK == \A r \in executed' \ executed :
                    /\ job[r].kind = "approve"
                    /\ MayDecide(job[r].actor, job[r].appr)
                    /\ "approved" \in recorded[job[r].appr]
<1>1. DecisionInv /\ [Next]_vars => [OK]_vars
  <2> SUFFICES ASSUME DecisionInv, [Next]_vars, NEW r \in executed' \ executed
               PROVE  /\ job[r].kind = "approve"
                      /\ MayDecide(job[r].actor, job[r].appr)
                      /\ "approved" \in recorded[job[r].appr]
    OBVIOUS
  <2>1. r \in Requests /\ Forward(r)
    <3>1. \A q \in Requests : Forward(q) => executed' \subseteq executed \cup {q}
      BY DEF Forward
    <3>2. (\E q \in Requests : Forward(q)) \/ UNCHANGED executed
      BY DEF Next, Create, CreateStart, CreateCache, CreateRow, CreateFails, ReadCache, Step,
         WriteTimeoutCache, WriteTimeoutDb, ReadDb, ResolveDb, ResolveReadCache,
         ResolveWriteCache, WriteAudit, RequestFails, SlackInteract, AdminDecide, Sweep, SweepFails,
         Tick, Restart, vars, logVars
    <3> QED
      BY <3>1, <3>2
  <2>2. pc[r] = "forward"
    BY <2>1 DEF Forward
  <2> QED
    BY <2>1, <2>2 DEF DecisionInv, DeciderOK, RecordedFirst, Verdict
<1> QED
  BY <1>1, DecisionInvariant, PTL DEF Spec, ExecutionWasApproved

(***************************************************************************)
(* No timeout while the window is open.                                    *)
(***************************************************************************)

\* An approval that nobody asked for has left no trace, and a request in the
\* timeout branch found the window closed.
TimeoutInv ==
    /\ \A a \in Approvals : stage[a] = "new" =>
          recorded[a] = {} /\ cache[a].decision = NONE
    /\ \A r \in Requests : pc[r] \in {"timeoutCache", "timeoutDb"} => Expired(job[r].appr)
    /\ TimeoutOnlyAfterWindow

\* Once closed, the window of an approval that exists stays closed.
LEMMA ExpiredStays ==
    ASSUME HitlAssumption, TypeOK, TypeOK', Monotone, NEW a \in Approvals,
           stage[a] # "new", Expired(a)
    PROVE  Expired(a)'
  BY DEF HitlAssumption, TypeOK, Monotone, Expired, ExpiresAt

\* Nobody writes timeout while the window is open.
LEMMA TimeoutStep ==
    ASSUME HitlAssumption, "timeout" \notin AdminDecisions,
           TypeOK, JobOK, RowExists, TimeoutInv, [Next]_vars
    PROVE  TimeoutInv'
<1>1. Monotone /\ OneMoves /\ TypeOK'
  BY StepMonotone, StepOneMoves, NextType
<1>2. \A r \in Requests : pc[r] \in InFlight =>
         job[r] \in Job /\ job[r].appr \in Approvals /\ stage[job[r].appr] = "inserted"
  BY HelperTypes DEF JobOK, RowExists
<1>3. ASSUME NEW a \in Approvals, stage'[a] = "new"
      PROVE  recorded'[a] = {} /\ cache'[a].decision = NONE
  <2>1. stage[a] = "new"
    BY <1>1, <1>3 DEF Monotone
  <2>2. decision[a] = NONE /\ recorded[a] = {} /\ cache[a].decision = NONE
    BY <2>1 DEF TimeoutInv, RowExists
  <2>3. \A r \in Requests : pc[r] \in InFlight => job[r].appr # a
    BY <1>2, <2>1
  <2>4. cache'[a].decision = NONE
    <3>1. ASSUME NEW b \in Approvals, CreateCache(b)
          PROVE  cache'[a].decision = NONE
      BY <2>1, <2>2, <3>1 DEF CreateCache, TypeOK
    <3>2. ASSUME NEW r \in Requests, WriteTimeoutCache(r) \/ ResolveWriteCache(r)
          PROVE  cache'[a].decision = NONE
      BY <2>2, <2>3, <3>2 DEF WriteTimeoutCache, ResolveWriteCache, TypeOK, InFlight, Pcs
    <3>3. ASSUME Tick
          PROVE  cache'[a].decision = NONE
      BY <2>2, <3>3 DEF Tick, NoEntry
    <3> QED
      BY <2>2, <3>1, <3>2, <3>3, CacheWriters
  <2>5. recorded'[a] = {}
    <3> DEFINE Same == recorded'[a] = recorded[a]
    <3>1. ASSUME NEW b \in Approvals, CreateRow(b)
          PROVE  Same
      BY <2>1, <3>1 DEF CreateRow, TypeOK
    <3>2. ASSUME NEW r \in Requests, WriteTimeoutDb(r) \/ ResolveDb(r)
          PROVE  Same
      BY <2>3, <3>2 DEF WriteTimeoutDb, ResolveDb, SetDecision, TypeOK, InFlight, Pcs
    <3>3. ASSUME NEW b \in Approvals, NEW d, SetDecision(b, d), stage[b] = "inserted"
          PROVE  Same
      BY <2>1, <3>3 DEF SetDecision, TypeOK
    <3>4. ASSUME Sweep
          PROVE  Same
      BY <2>2, <3>4 DEF Sweep, Overdue, NONE
    <3> QED
      BY <2>2, <3>1, <3>2, <3>3, <3>4, RowWriters
  <2> QED
    BY <2>4, <2>5
<1>4. ASSUME NEW r \in Requests, pc'[r] \in {"timeoutCache", "timeoutDb"}
      PROVE  Expired(job[r].appr)' /\ job'[r].appr \in Approvals
  <2>1. pc'[r] \in InFlight
    BY <1>4 DEF InFlight, Pcs
  <2>2. ASSUME pc[r] \in {"timeoutCache", "timeoutDb"}, job'[r] = job[r]
        PROVE  Expired(job[r].appr)' /\ job'[r].appr \in Approvals
    <3>1. job[r].appr \in Approvals /\ stage[job[r].appr] = "inserted"
      BY <1>2, <2>2 DEF InFlight, Pcs
    <3>2. Expired(job[r].appr)
      BY <2>2 DEF TimeoutInv
    <3>3. created'[job[r].appr] = created[job[r].appr] /\ now <= now'
      BY <1>1, <3>1 DEF Monotone
    <3> QED
      BY <1>1, <2>2, <3>1, <3>2, <3>3 DEF Expired, ExpiresAt, TypeOK, HitlAssumption
  <2>3. CASE Unmoved(r)
    BY <1>4, <2>2, <2>3 DEF Unmoved
  <2>4. ASSUME NEW j \in Job, ReadCache(r, j), job'[r] = j
        PROVE  Expired(job[r].appr)' /\ job'[r].appr \in Approvals
    <3>1. Expired(j.appr)
      BY <1>4, <2>4 DEF ReadCache, Goto, AfterRead, TypeOK
    <3>2. UNCHANGED <<now, created>>
      BY <2>4 DEF ReadCache, clockVars, createVars
    <3> QED
      BY <2>4, <3>1, <3>2, HelperTypes DEF Expired, ExpiresAt
  <2>5. CASE Step(r) /\ job'[r] = job[r]
    <3>1. pc[r] = "timeoutCache"
      BY <1>4, <2>5 DEF Step, WriteTimeoutCache, WriteTimeoutDb, ReadDb, ResolveDb,
         ResolveReadCache, ResolveWriteCache, Forward, WriteAudit, Goto, AfterRead, AfterResolve,
         TypeOK
    <3> QED
      BY <2>2, <2>5, <3>1
  <2> QED
    BY <1>1, <2>1, <2>3, <2>4, <2>5 DEF OneMoves
<1>5. ASSUME NEW a \in Approvals, "timeout" \in recorded'[a] \/ cache'[a].decision = "timeout"
      PROVE  Expired(a)'
  <2>1. ASSUME "timeout" \in recorded[a] \/ cache[a].decision = "timeout"
        PROVE  Expired(a)'
    <3>1. Expired(a) /\ stage[a] # "new"
      BY <2>1 DEF TimeoutInv, TimeoutOnlyAfterWindow, NONE
    <3> QED
      BY <1>1, <3>1, ExpiredStays
  <2>2. ASSUME NEW r \in Requests, WriteTimeoutCache(r) \/ WriteTimeoutDb(r), job[r].appr = a
        PROVE  Expired(a)'
    <3>1. pc[r] \in {"timeoutCache", "timeoutDb"}
      BY <2>2 DEF WriteTimeoutCache, WriteTimeoutDb
    <3>2. Expired(a) /\ stage[a] # "new"
      BY <1>2, <2>2, <3>1 DEF TimeoutInv, InFlight, Pcs
    <3> QED
      BY <1>1, <3>2, ExpiredStays
  <2>3. ASSUME "timeout" \in recorded'[a], "timeout" \notin recorded[a]
        PROVE  Expired(a)'
    <3>1. ASSUME NEW b \in Approvals, CreateRow(b)
          PROVE  FALSE
      BY <2>3, <3>1 DEF CreateRow, TypeOK
    <3>2. ASSUME NEW r \in Requests, ResolveDb(r)
          PROVE  FALSE
      BY <2>3, <3>2 DEF ResolveDb, SetDecision, TypeOK, Verdict
    <3>3. ASSUME NEW r \in Requests, WriteTimeoutDb(r)
          PROVE  job[r].appr = a
      BY <2>3, <3>3 DEF WriteTimeoutDb, SetDecision, TypeOK
    <3>4. ASSUME NEW b \in Approvals, NEW d \in {"approved", "denied"} \cup AdminDecisions,
                 SetDecision(b, d)
          PROVE  FALSE
      BY <2>3, <3>4 DEF SetDecision, TypeOK
    <3>5. ASSUME Sweep
          PROVE  Expired(a)'
      <4>1. a \in Overdue
        BY <2>3, <3>5 DEF Sweep
      <4> QED
        BY <3>5, <4>1 DEF Sweep, Overdue, Expired, ExpiresAt, createVars
    <3> QED
      BY <2>2, <2>3, <3>1, <3>2, <3>3, <3>4, <3>5, RowWriters
  <2>4. ASSUME cache'[a].decision = "timeout", cache[a].decision # "timeout"
        PROVE  Expired(a)'
    <3>1. ASSUME NEW b \in Approvals, CreateCache(b)
          PROVE  FALSE
      BY <2>4, <3>1 DEF CreateCache, TypeOK
    <3>2. ASSUME NEW r \in Requests, WriteTimeoutCache(r)
          PROVE  job[r].appr = a
      BY <2>4, <3>2 DEF WriteTimeoutCache, TypeOK
    <3>3. ASSUME NEW r \in Requests, ResolveWriteCache(r)
          PROVE  FALSE
      BY <2>4, <3>3 DEF ResolveWriteCache, TypeOK, Verdict
    <3>4. ASSUME Tick
          PROVE  FALSE
      BY <2>4, <3>4 DEF Tick, NoEntry, NONE
    <3> QED
      BY <2>2, <2>4, <3>1, <3>2, <3>3, <3>4, CacheWriters
  <2> QED
    BY <1>5, <2>1, <2>3, <2>4
<1> QED
  BY <1>3, <1>4, <1>5 DEF TimeoutInv, TimeoutOnlyAfterWindow

\* No store ever holds a timeout of an approval whose window is open, provided
\* no administrator submits "timeout" as a decision.
THEOREM TimeoutsOnlyAfterWindow ==
    ASSUME "timeout" \notin AdminDecisions
    PROVE  Spec => []TimeoutOnlyAfterWindow
<1>1. Init => TimeoutInv
  BY DEF Init, TimeoutInv, TimeoutOnlyAfterWindow, NoEntry, NONE
<1>2. DecisionInv /\ TimeoutInv /\ [Next]_vars => TimeoutInv'
  BY HitlAssumption, TimeoutStep DEF DecisionInv
<1>3. TimeoutInv => TimeoutOnlyAfterWindow
  BY DEF TimeoutInv
<1> QED
  BY <1>1, <1>2, <1>3, DecisionInvariant, PTL DEF Spec

(***************************************************************************)
(* A decision is accepted late by at most one sweep period.                *)
(*                                                                         *)
(* The argument is about the row: while it is pending the sweep has not    *)
(* run since it became sweepable, and the timer is never later than one    *)
(* period (SweepInv).  A request that read "pending" carries that bound.   *)
(***************************************************************************)
SweepInv ==
    /\ sweepBase <= now /\ now <= sweepBase + SweepPeriod
    /\ \A a \in Approvals : decision[a] = "pending" =>
          sweepBase <= sweepable[a] /\ ExpiresAt(a) <= sweepable[a]

AcceptedSource == \A r \in Accepted : seen[r].src \in {"cache", "db"}

WindowInv == SweepInv /\ AcceptedSource /\ AcceptedInWindow

\* A pending row is never overdue for longer than a sweep period.
LEMMA SweepStep ==
    ASSUME HitlAssumption, TypeOK, JobOK, RowExists, SweepInv, [Next]_vars
    PROVE  SweepInv'
<1>1. Monotone /\ TypeOK'
  BY StepMonotone, NextType
<1>2. CASE Sweep
  <2>1. sweepBase' = now /\ UNCHANGED <<now, created, sweepable>>
    BY <1>2 DEF Sweep, createVars
  <2>2. ASSUME NEW a \in Approvals, decision'[a] = "pending"
        PROVE  now <= sweepable[a] /\ ExpiresAt(a) <= sweepable[a]
    <3>1. decision[a] = "pending" /\ ~Expired(a)
      BY <1>2, <2>2 DEF Sweep, Overdue
    <3> QED
      BY <3>1 DEF SweepInv, Expired, ExpiresAt, TypeOK, HitlAssumption
  <2> QED
    BY <2>1, <2>2 DEF SweepInv, ExpiresAt, TypeOK, HitlAssumption
<1>3. CASE Restart \/ SweepFails
  <2> SUFFICES ASSUME NEW a \in Approvals, decision'[a] = "pending"
               PROVE  now <= sweepable'[a] /\ ExpiresAt(a) <= sweepable'[a]
    BY <1>3 DEF Restart, SweepFails, SweepInv, ExpiresAt, TypeOK, HitlAssumption
  <2>1. sweepable'[a] = Later(sweepable[a], now) /\ ExpiresAt(a) <= sweepable[a]
    BY <1>3 DEF Restart, SweepFails, SweepInv
  <2> QED
    BY <2>1 DEF Later, ExpiresAt, TypeOK, HitlAssumption
<1>4. CASE Tick
  BY <1>4 DEF Tick, SweepInv, ExpiresAt, createVars, TypeOK, HitlAssumption
<1>5. ASSUME UNCHANGED clockVars,
             \A a \in Approvals : decision'[a] = "pending" =>
                 \/ decision[a] = "pending"
                 \/ now <= sweepable'[a] /\ ExpiresAt(a)' <= sweepable'[a],
             \A a \in Approvals : decision[a] = "pending" =>
                 created'[a] = created[a] /\ sweepable[a] <= sweepable'[a]
      PROVE  SweepInv'
  BY <1>1, <1>5 DEF SweepInv, clockVars, ExpiresAt, TypeOK, HitlAssumption
<1>6. \A a \in Approvals : decision[a] = "pending" =>
         created'[a] = created[a] /\ sweepable[a] <= sweepable'[a]
  BY <1>1 DEF Monotone, RowExists, NONE
<1>7. ASSUME NEW a \in Approvals, CreateRow(a)
      PROVE  SweepInv'
  <2>1. now <= sweepable'[a] /\ ExpiresAt(a)' <= sweepable'[a]
    BY <1>7 DEF CreateRow, Later, ExpiresAt, TypeOK, HitlAssumption
  <2> QED
    BY <1>5, <1>6, <1>7, <2>1 DEF CreateRow, TypeOK
<1>8. ASSUME NEW a \in Approvals, NEW d \in Final, SetDecision(a, d), UNCHANGED clockVars
      PROVE  SweepInv'
  BY <1>5, <1>6, <1>8 DEF SetDecision, TypeOK, Final
<1>9. ASSUME NEW r \in Requests, WriteTimeoutDb(r) \/ ResolveDb(r)
      PROVE  SweepInv'
  <2>1. job[r].appr \in Approvals
    BY <1>9, HelperTypes DEF WriteTimeoutDb, ResolveDb, JobOK, InFlight, Pcs
  <2>2. PICK d \in Final : SetDecision(job[r].appr, d)
    BY <1>9 DEF WriteTimeoutDb, ResolveDb, Verdict, Final
  <2> QED
    BY <1>8, <1>9, <2>1, <2>2 DEF WriteTimeoutDb, ResolveDb
<1>10. ASSUME UNCHANGED <<decision, recorded>>, UNCHANGED clockVars
       PROVE  SweepInv'
  BY <1>5, <1>6, <1>10
<1>11. UNCHANGED clockVars \/ Sweep \/ Tick \/ Restart \/ SweepFails
  BY DEF Next, Create, CreateStart, CreateCache, CreateRow, CreateFails, ReadCache, Step,
     WriteTimeoutCache, WriteTimeoutDb, ReadDb, ResolveDb, ResolveReadCache, ResolveWriteCache,
     Forward, WriteAudit, RequestFails, SlackInteract, AdminDecide, vars
<1>12. {"approved", "denied"} \cup AdminDecisions \subseteq Final
  BY DEF HitlAssumption, Final
<1> QED
  BY <1>2, <1>3, <1>4, <1>7, <1>8, <1>9, <1>10, <1>11, <1>12, RowWriters

\* Every step keeps the bound on late decisions.
LEMMA WindowStep ==
    ASSUME HitlAssumption, TypeOK, JobOK, RowExists, WindowInv, [Next]_vars
    PROVE  WindowInv'
<1>1. Monotone /\ OneMoves /\ TypeOK' /\ SweepInv'
  BY StepMonotone, StepOneMoves, NextType, SweepStep DEF WindowInv
<1> DEFINE OK(r) == /\ seen[r].src \in {"cache", "db"}
                    /\ IF seen[r].src = "cache"
                       THEN seen[r].at <= ExpiresAt(job[r].appr)
                       ELSE seen[r].at <= sweepable[job[r].appr] + SweepPeriod
<1> SUFFICES ASSUME NEW r \in Requests, r \in Accepted'
             PROVE  OK(r)'
  BY <1>1 DEF WindowInv, AcceptedSource, AcceptedInWindow, Accepted
<1>2. pc'[r] \in InFlight
  BY DEF Accepted, InFlight, Pcs
\* An accepted request that goes on keeps what it read, and the bounds only grow.
<1>3. ASSUME r \in Accepted, job'[r] = job[r], seen'[r] = seen[r]
      PROVE  OK(r)'
  <2>1. job[r].appr \in Approvals /\ stage[job[r].appr] = "inserted"
    BY <1>3, HelperTypes DEF Accepted, InFlight, Pcs, JobOK, RowExists
  <2>2. OK(r)
    BY <1>3 DEF WindowInv, AcceptedSource, AcceptedInWindow
  <2>3. /\ created'[job[r].appr] = created[job[r].appr]
        /\ sweepable[job[r].appr] <= sweepable'[job[r].appr]
    BY <1>1, <2>1 DEF Monotone
  <2> QED
    BY <1>1, <1>3, <2>1, <2>2, <2>3 DEF ExpiresAt, TypeOK, HitlAssumption, Seen
<1>4. CASE Unmoved(r)
  BY <1>3, <1>4 DEF Unmoved, Accepted
<1>5. ASSUME NEW j \in Job, ReadCache(r, j), job'[r] = j
      PROVE  OK(r)'
  <2>1. /\ seen'[r] = [src |-> "cache", at |-> now]
        /\ cache[j.appr].decision = "pending" /\ ~Expired(j.appr)
    BY <1>2, <1>5 DEF ReadCache, Goto, AfterRead, Accepted, TypeOK
  <2>2. UNCHANGED <<created, now>> /\ j.appr \in Approvals
    BY <1>5, HelperTypes DEF ReadCache, createVars, clockVars
  <2> QED
    BY <1>5, <2>1, <2>2 DEF Expired, ExpiresAt, TypeOK, HitlAssumption
<1>6. CASE ReadDb(r) /\ job'[r] = job[r]
  <2>1. /\ seen'[r] = [src |-> "db", at |-> now]
        /\ decision[job[r].appr] = "pending"
    BY <1>2, <1>6 DEF ReadDb, Goto, AfterRead, Accepted, TypeOK
  <2>2. job[r].appr \in Approvals /\ UNCHANGED sweepable
    BY <1>6, HelperTypes DEF ReadDb, JobOK, InFlight, Pcs, createVars
  <2> QED
    BY <1>6, <2>1, <2>2 DEF WindowInv, SweepInv, TypeOK, HitlAssumption
<1>7. CASE Step(r) /\ ~ReadDb(r) /\ job'[r] = job[r]
  <2>1. r \in Accepted
    BY <1>2, <1>7 DEF Step, WriteTimeoutCache, WriteTimeoutDb, ResolveDb, ResolveReadCache,
       ResolveWriteCache, Forward, WriteAudit, Goto, AfterRead, Accepted, TypeOK
  <2>2. seen'[r] = seen[r]
    BY <1>2, <1>7 DEF Step, WriteTimeoutCache, WriteTimeoutDb, ResolveDb, ResolveReadCache,
       ResolveWriteCache, Forward, WriteAudit, Goto, TypeOK
  <2> QED
    BY <1>3, <1>7, <2>1, <2>2
<1> QED
  BY <1>1, <1>2, <1>4, <1>5, <1>6, <1>7 DEF OneMoves

\* Whatever store the route asked, it accepts a decision at most one sweep
\* period after the row expired or was inserted, the gateway restarted or a
\* sweep failed.
THEOREM AcceptedLateByOneSweep == Spec => []AcceptedInWindow
<1>1. Init => WindowInv
  BY HitlAssumption DEF Init, WindowInv, SweepInv, AcceptedSource, AcceptedInWindow, Accepted,
     HitlAssumption, NONE
<1>2. DecisionInv /\ WindowInv /\ [Next]_vars => WindowInv'
  BY HitlAssumption, WindowStep DEF DecisionInv
<1>3. WindowInv => AcceptedInWindow
  BY DEF WindowInv
<1> QED
  BY <1>1, <1>2, <1>3, DecisionInvariant, PTL DEF Spec

(***************************************************************************)
(* Executions are accounted for.                                           *)
(*                                                                         *)
(* ExecutionsAccounted alone is not inductive: it lets an executed request *)
(* be idle with an audit row.  Settled adds where such a request can be.   *)
(***************************************************************************)
Logged(r)  == \E v \in {"ALLOW", "DENY"} : <<r, v>> \in audit
Settled(r) == \/ pc[r] \in {"logAllow", "logDeny", "failed"}
              \/ pc[r] = "done" /\ Logged(r)
AllSettled == \A r \in executed : Settled(r)

\* A request that has left the handlers, or stands before its audit row, is only
\* moved by the writing of that row, a failure or a restart.
LEMMA SettledStays ==
    ASSUME TypeOK, NEW r \in Requests, Settled(r), [Next]_vars
    PROVE  Settled(r)'
<1>1. pc[r] \in {"logAllow", "logDeny", "failed", "done"}
  BY DEF Settled
<1>2. ASSUME pc'[r] = pc[r], audit \subseteq audit'
      PROVE  Settled(r)'
  BY <1>2 DEF Settled, Logged
<1>3. ASSUME NEW q \in Requests \ {r}, NEW j, NEW s, NEW next, Goto(q, j, s, next),
             audit \subseteq audit'
      PROVE  Settled(r)'
  BY <1>2, <1>3 DEF Goto, TypeOK
<1>4. ASSUME NEW q \in Requests, NEW j \in Job, ReadCache(q, j)
      PROVE  Settled(r)'
  <2>1. q # r
    BY <1>1, <1>4 DEF ReadCache
  <2> QED
    BY <1>3, <1>4, <2>1 DEF ReadCache, logVars
<1>5. ASSUME NEW q \in Requests, Step(q) \/ RequestFails(q), q # r
      PROVE  Settled(r)'
  <2>1. PICK s, next : Goto(q, job[q], s, next)
    BY <1>5 DEF Step, WriteTimeoutCache, WriteTimeoutDb, ReadDb, ResolveDb, ResolveReadCache,
       ResolveWriteCache, Forward, WriteAudit, RequestFails
  <2>2. audit \subseteq audit'
    BY <1>5 DEF Step, WriteTimeoutCache, WriteTimeoutDb, ReadDb, ResolveDb, ResolveReadCache,
       ResolveWriteCache, Forward, WriteAudit, RequestFails, logVars
  <2> QED
    BY <1>3, <1>5, <2>1, <2>2
<1>6. ASSUME Step(r)
      PROVE  Settled(r)'
  <2>1. WriteAudit(r)
    BY <1>1, <1>6 DEF Step, WriteTimeoutCache, WriteTimeoutDb, ReadDb, ResolveDb,
       ResolveReadCache, ResolveWriteCache, Forward
  <2>2. pc'[r] = "done"
    BY <2>1 DEF WriteAudit, Goto, TypeOK
  <2>3. \E v \in {"ALLOW", "DENY"} : <<r, v>> \in audit'
    BY <2>1 DEF WriteAudit
  <2> QED
    BY <2>2, <2>3 DEF Settled, Logged
<1>7. ASSUME RequestFails(r) \/ Restart
      PROVE  Settled(r)'
  <2>1. audit' = audit
    BY <1>7 DEF RequestFails, Restart, logVars
  <2>2. pc'[r] = "failed" \/ pc'[r] = pc[r]
    BY <1>7 DEF RequestFails, Restart, Goto, TypeOK
  <2> QED
    BY <1>2, <2>1, <2>2 DEF Settled
<1>8. ASSUME UNCHANGED <<requestVars, logVars>>
      PROVE  Settled(r)'
  BY <1>2, <1>8 DEF requestVars, logVars
<1>9. ASSUME (\E a \in Approvals : Create(a))
             \/ (\E a \in Approvals, d \in {"approved", "denied"} : SlackInteract(a, d))
             \/ (\E a \in Approvals, d \in AdminDecisions : AdminDecide(a, d))
             \/ Sweep \/ SweepFails \/ Tick \/ UNCHANGED vars
      PROVE  UNCHANGED <<requestVars, logVars>>
  BY <1>9 DEF Create, CreateStart, CreateCache, CreateRow, CreateFails, SlackInteract,
     AdminDecide, Sweep, SweepFails, Tick, vars, requestVars
<1> QED
  BY <1>4, <1>5, <1>6, <1>7, <1>8, <1>9 DEF Next

\* A request enters `executed` on its way to the audit row, or failing.
LEMMA ExecutionSettles ==
    ASSUME TypeOK, [Next]_vars, NEW r \in executed' \ executed
    PROVE  r \in Requests /\ Settled(r)'
<1>1. PICK q \in Requests : Forward(q)
  BY DEF Next, Create, CreateStart, CreateCache, CreateRow, CreateFails, ReadCache, Step,
     WriteTimeoutCache, WriteTimeoutDb, ReadDb, ResolveDb, ResolveReadCache, ResolveWriteCache,
     WriteAudit, RequestFails, SlackInteract, AdminDecide, Sweep, SweepFails, Tick, Restart,
     vars, logVars
<1>2. r = q
  BY <1>1 DEF Forward
<1>3. pc'[r] \in {"logAllow", "logDeny", "failed"}
  BY <1>1, <1>2 DEF Forward, Goto, TypeOK
<1> QED
  BY <1>2, <1>3 DEF Settled

\* hitl/approval.ts: every tool call that ran for an approval is in the audit log,
\* about to be written there, or its request failed.
THEOREM ExecutionsAreAccounted == Spec => []ExecutionsAccounted
<1>1. Init => AllSettled
  BY DEF Init, AllSettled
<1>2. TypeOK /\ AllSettled /\ [Next]_vars => AllSettled'
  <2> SUFFICES ASSUME TypeOK, AllSettled, [Next]_vars, NEW r \in executed'
               PROVE  Settled(r)'
    BY DEF AllSettled
  <2>1. CASE r \in executed
    BY <2>1, SettledStays DEF AllSettled, TypeOK
  <2>2. CASE r \notin executed
    BY <2>2, ExecutionSettles
  <2> QED
    BY <2>1, <2>2
<1>3. AllSettled => ExecutionsAccounted
  BY DEF AllSettled, Settled, Logged, ExecutionsAccounted
<1> QED
  BY <1>1, <1>2, <1>3, TypeCorrect, PTL DEF Spec

(***************************************************************************)
(* HitlApproval implements ApprovalPromise: every initial state and every  *)
(* step of the handlers, read through the answer a poll would get, is one  *)
(* of the promise.                                                         *)
(***************************************************************************)

\* How the two stores agree: an entry of Redis that is decided has a decided row
\* behind it, or it is the timeout entry that never expires.
PollInv ==
    /\ \A a \in Approvals :
          stage[a] # "inserted" => cache[a].decision \in {NONE, "pending"} /\ recorded[a] = {}
    /\ \A a \in Approvals : decision[a] # NONE => decision[a] \in recorded[a]
    /\ \A a \in Approvals : recorded[a] \cap Final # {} => decision[a] \in Final
    /\ \A a \in Approvals :
          cache[a].decision \in Final => cache[a].persistent \/ decision[a] \in Final
    /\ \A a \in Approvals : cache[a].persistent => cache[a].decision = "timeout"

\* What a step does to the row of one approval and its history.
RowStep(a) ==
    \/ decision'[a] = decision[a] /\ recorded'[a] = recorded[a]
    \/ CreateRow(a)
    \/ \E d \in Final :
          /\ stage[a] = "inserted" /\ d = "timeout" => Expired(a)
          /\ stage[a] = "inserted"
          /\ decision'[a] = d /\ recorded'[a] = recorded[a] \cup {d}

\* Rows change only by being inserted or by a recorded decision, a timeout only
\* once the window is over.
LEMMA RowSteps ==
    ASSUME HitlAssumption, "timeout" \notin AdminDecisions,
           TypeOK, JobOK, RowExists, TimeoutInv, [Next]_vars, NEW a \in Approvals
    PROVE  RowStep(a)
<1>1. ASSUME NEW b \in Approvals, CreateRow(b)
      PROVE  RowStep(a)
  BY <1>1 DEF CreateRow, RowStep, TypeOK
<1>2. ASSUME NEW b \in Approvals, NEW d \in Final, SetDecision(b, d), stage[b] = "inserted",
             d = "timeout" => Expired(b)
      PROVE  RowStep(a)
  BY <1>2 DEF SetDecision, RowStep, TypeOK, RowExists
<1>3. ASSUME NEW r \in Requests, WriteTimeoutDb(r) \/ ResolveDb(r)
      PROVE  RowStep(a)
  <2>1. job[r].appr \in Approvals /\ stage[job[r].appr] = "inserted"
    BY <1>3, HelperTypes DEF WriteTimeoutDb, ResolveDb, JobOK, RowExists, InFlight, Pcs
  <2>2. CASE WriteTimeoutDb(r)
    BY <1>2, <2>1, <2>2 DEF WriteTimeoutDb, TimeoutInv, Final
  <2>3. CASE ResolveDb(r)
    BY <1>2, <2>1, <2>3 DEF ResolveDb, Verdict, Final
  <2> QED
    BY <1>3, <2>2, <2>3
<1>4. ASSUME NEW b \in Approvals, NEW d \in {"approved", "denied"} \cup AdminDecisions,
             SetDecision(b, d), stage[b] = "inserted"
      PROVE  RowStep(a)
  BY <1>2, <1>4 DEF HitlAssumption, Final
<1>5. CASE Sweep
  <2>1. a \in Overdue => stage[a] = "inserted" /\ Expired(a)
    BY DEF Overdue, RowExists, NONE
  <2> QED
    BY <1>5, <2>1 DEF Sweep, RowStep, Final
<1>6. CASE UNCHANGED <<decision, recorded>>
  BY <1>6 DEF RowStep
<1> QED
  BY <1>1, <1>3, <1>4, <1>5, <1>6, RowWriters

\* What a step does to the Redis entry of one approval.
CacheStepOf(a) ==
    \/ cache'[a] = cache[a]
    \/ stage[a] # "inserted" /\ cache'[a].decision = "pending" /\ ~cache'[a].persistent
    \/ /\ stage[a] = "inserted" /\ Expired(a)
       /\ cache'[a].decision = "timeout" /\ cache'[a].persistent
    \/ /\ stage[a] = "inserted" /\ ~cache'[a].persistent
       /\ cache'[a].decision \in Final /\ cache'[a].decision \in recorded[a]
    \/ ~cache[a].persistent /\ cache'[a] = NoEntry

\* Redis entries are made pending, timed out, decided after the row, or dropped.
LEMMA CacheSteps ==
    ASSUME HitlAssumption, TypeOK, JobOK, RowExists, RecordedFirst, TimeoutInv, [Next]_vars,
           NEW a \in Approvals
    PROVE  CacheStepOf(a)
<1>1. ASSUME NEW b \in Approvals, CreateCache(b)
      PROVE  CacheStepOf(a)
  BY <1>1 DEF CreateCache, CacheStepOf, TypeOK
<1>2. \A r \in Requests : pc[r] \in InFlight =>
         job[r].appr \in Approvals /\ stage[job[r].appr] = "inserted"
  BY HelperTypes DEF JobOK, RowExists
<1>3. ASSUME NEW r \in Requests, WriteTimeoutCache(r)
      PROVE  CacheStepOf(a)
  <2>1. stage[job[r].appr] = "inserted" /\ Expired(job[r].appr) /\ job[r].appr \in Approvals
    BY <1>2, <1>3 DEF WriteTimeoutCache, TimeoutInv, InFlight, Pcs
  <2>2. CASE job[r].appr = a
    BY <1>3, <2>1, <2>2 DEF WriteTimeoutCache, CacheStepOf, TypeOK
  <2>3. CASE job[r].appr # a
    BY <1>3, <2>3 DEF WriteTimeoutCache, CacheStepOf, TypeOK
  <2> QED
    BY <2>2, <2>3
<1>4. ASSUME NEW r \in Requests, ResolveWriteCache(r)
      PROVE  CacheStepOf(a)
  <2>1. Verdict(r) \in Final /\ Verdict(r) \in recorded[job[r].appr]
    BY <1>4 DEF ResolveWriteCache, RecordedFirst, Verdict, Final
  <2> QED
    BY <1>2, <1>4, <2>1 DEF ResolveWriteCache, CacheStepOf, TypeOK, InFlight, Pcs
<1>5. CASE Tick
  BY <1>5 DEF Tick, CacheStepOf
<1> QED
  BY <1>1, <1>3, <1>4, <1>5, CacheWriters DEF CacheStepOf

\* A step keeps the stores in agreement.
LEMMA PollStep ==
    ASSUME HitlAssumption, "timeout" \notin AdminDecisions,
           DecisionInv, TimeoutInv, PollInv, [Next]_vars
    PROVE  PollInv'
<1>1. TypeOK /\ TypeOK' /\ RowExists /\ RowExists' /\ Monotone
  BY NextType, StepMonotone, RowExistsStep DEF DecisionInv
<1> SUFFICES ASSUME NEW a \in Approvals
             PROVE  /\ stage'[a] # "inserted" =>
                          cache'[a].decision \in {NONE, "pending"} /\ recorded'[a] = {}
                    /\ decision'[a] # NONE => decision'[a] \in recorded'[a]
                    /\ recorded'[a] \cap Final # {} => decision'[a] \in Final
                    /\ cache'[a].decision \in Final =>
                          cache'[a].persistent \/ decision'[a] \in Final
                    /\ cache'[a].persistent => cache'[a].decision = "timeout"
  BY DEF PollInv
<1>2. RowStep(a) /\ CacheStepOf(a)
  BY RowSteps, CacheSteps DEF DecisionInv
<1>3. stage[a] = "inserted" => stage'[a] = "inserted"
  BY <1>1 DEF Monotone
<1>4. CreateRow(a) => /\ stage[a] # "inserted" /\ stage'[a] = "inserted" /\ cache' = cache
                      /\ decision'[a] = "pending" /\ recorded'[a] = recorded[a] \cup {"pending"}
  BY <1>1 DEF CreateRow, TypeOK
<1>5. /\ decision'[a] # NONE => decision'[a] \in recorded'[a]
      /\ recorded'[a] \cap Final # {} => decision'[a] \in Final
      /\ stage'[a] # "inserted" => recorded'[a] = {}
  BY <1>2, <1>3, <1>4 DEF RowStep, PollInv, Final
<1>6. decision[a] \in Final => decision'[a] \in Final
  BY <1>1, <1>5 DEF PollInv, Monotone, Final, NONE
<1>7. cache'[a].persistent => cache'[a].decision = "timeout"
  BY <1>2 DEF CacheStepOf, PollInv, NoEntry
<1>8. cache'[a].decision \in Final => cache'[a].persistent \/ decision'[a] \in Final
  <2>1. CASE cache'[a] = cache[a]
    BY <1>6, <2>1 DEF PollInv
  <2>2. CASE cache'[a].decision \in recorded[a]
    BY <1>1, <1>5, <2>2 DEF Monotone
  <2> QED
    BY <1>2, <2>1, <2>2 DEF CacheStepOf, Final, NoEntry, NONE
<1>9. stage'[a] # "inserted" => cache'[a].decision \in {NONE, "pending"}
  BY <1>2, <1>3 DEF CacheStepOf, PollInv, NoEntry
<1> QED
  BY <1>5, <1>7, <1>8, <1>9

\* Initially no row and no entry exists.
LEMMA PollInit == ASSUME Init PROVE PollInv
  BY DEF Init, PollInv, NoEntry, NONE, Final

(***************************************************************************)
(* The refinement.                                                         *)
(***************************************************************************)

\* What the mapping gives for the answer and for the closed windows.
Answer(a) == IF stage[a] = "inserted" THEN Polled(a) ELSE NONE
Closed == {a \in Approvals : stage[a] = "inserted" /\ Expired(a)}

\* The answer of an approval that exists stays or becomes a verdict that is on
\* record or a timeout of a closed window.
LEMMA AnswerStep ==
    ASSUME HitlAssumption, "timeout" \notin AdminDecisions,
           DecisionInv, TimeoutInv, PollInv, [Next]_vars,
           NEW a \in Approvals, stage[a] = "inserted"
    PROVE  \/ Polled(a)' = Polled(a)
           \/ /\ Polled(a)' \in Final
              /\ Polled(a)' \in recorded'[a] \/ (Polled(a)' = "timeout" /\ Expired(a))
<1>1. TypeOK /\ TypeOK' /\ PollInv' /\ Monotone /\ RowExists /\ RowExists'
  BY NextType, PollStep, StepMonotone, RowExistsStep DEF DecisionInv
<1>2. RowStep(a) /\ CacheStepOf(a)
  BY RowSteps, CacheSteps DEF DecisionInv
<1>3. decision[a] \in Decision /\ decision'[a] \in Decision /\ recorded[a] \subseteq recorded'[a]
  BY <1>1 DEF TypeOK, RowExists, Monotone
<1>4. decision[a] \in Final => decision'[a] \in Final
  BY <1>1, <1>3 DEF PollInv, Final, NONE
<1>5. decision'[a] \in recorded'[a]
  BY <1>1, <1>3 DEF PollInv, Decision, Final, NONE
<1>6. decision'[a] = decision[a] \/ decision'[a] \in Final
  BY <1>2 DEF RowStep, CreateRow
<1>7. CASE cache'[a] = cache[a]
  BY <1>3, <1>5, <1>6, <1>7 DEF Polled, Live
<1>8. CASE cache'[a].decision = "timeout" /\ Expired(a)
  BY <1>8 DEF Polled, Live, Final, NONE
<1>9. CASE cache'[a].decision \in Final /\ cache'[a].decision \in recorded[a]
  BY <1>3, <1>9 DEF Polled, Live, Final, NONE
<1>10. CASE ~cache[a].persistent /\ cache'[a] = NoEntry
  <2>1. Polled(a)' = decision'[a]
    BY <1>10 DEF Polled, Live, NoEntry, NONE
  <2>2. CASE decision'[a] \in Final
    BY <1>5, <2>1, <2>2
  <2>3. CASE decision'[a] \notin Final
    <3>1. decision'[a] = "pending" /\ decision[a] = "pending"
      BY <1>3, <1>6, <2>3 DEF Decision
    <3>2. cache[a].decision \in {NONE, "pending"}
      <4>1. cache[a].decision \in Decision \cup {NONE}
        BY <1>1 DEF TypeOK
      <4>2. cache[a].decision \notin Final
        BY <1>10, <3>1 DEF PollInv, Final
      <4> QED
        BY <4>1, <4>2 DEF Decision
    <3> QED
      BY <2>1, <3>1, <3>2 DEF Polled, Live
  <2> QED
    BY <2>2, <2>3
<1> QED
  BY <1>2, <1>7, <1>8, <1>9, <1>10 DEF CacheStepOf

\* For each approval a step of the handlers is a step of the promise.
LEMMA ApprovalStep ==
    ASSUME HitlAssumption, "timeout" \notin AdminDecisions,
           DecisionInv, TimeoutInv, PollInv, [Next]_vars, NEW a \in Approvals
    PROVE  \/ Answer(a)' = Answer(a) /\ recorded'[a] = recorded[a]
           \/ /\ Answer(a) = "none" /\ Answer(a)' = "pending"
              /\ recorded'[a] = recorded[a] \cup {"pending"}
           \/ /\ Answer(a) # "none"
              /\ \E D \in SUBSET ({"approved", "denied"}
                                   \cup (IF a \in Closed THEN {"timeout"} ELSE {})) :
                     recorded'[a] = recorded[a] \cup D
              /\ \/ Answer(a)' = Answer(a)
                 \/ /\ Answer(a)' \in Final
                    /\ \/ Answer(a)' \in recorded'[a]
                       \/ Answer(a)' = "timeout" /\ a \in Closed
<1>1. TypeOK /\ TypeOK' /\ Monotone /\ RowExists /\ RowExists' /\ PollInv'
  BY NextType, StepMonotone, RowExistsStep, PollStep DEF DecisionInv
<1>2. RowStep(a)
  BY RowSteps DEF DecisionInv
<1>3. CASE stage[a] # "inserted"
  <2>1. CASE CreateRow(a)
    <3>1. cache' = cache /\ cache[a].decision \in {NONE, "pending"} /\ stage'[a] = "inserted"
          /\ decision'[a] = "pending" /\ recorded'[a] = recorded[a] \cup {"pending"}
      BY <1>1, <1>3, <2>1 DEF CreateRow, PollInv, TypeOK
    <3> QED
      BY <1>3, <3>1 DEF Answer, Polled, Live, NONE
  <2>2. CASE decision'[a] = decision[a] /\ recorded'[a] = recorded[a]
    <3>1. stage'[a] # "inserted"
      BY <1>1, <1>3, <2>2 DEF RowExists
    <3> QED
      BY <1>3, <2>2, <3>1 DEF Answer
  <2> QED
    BY <1>2, <1>3, <2>1, <2>2 DEF RowStep
<1>4. CASE stage[a] = "inserted"
  <2>1. stage'[a] = "inserted"
    BY <1>1, <1>4 DEF Monotone
  <2>2. Answer(a) = Polled(a) /\ Answer(a)' = Polled(a)'
    BY <1>4, <2>1 DEF Answer
  <2>3. Polled(a) # "none"
    BY <1>1, <1>4 DEF Polled, Live, RowExists, NONE
  <2>4. \E D \in SUBSET ({"approved", "denied"} \cup (IF a \in Closed THEN {"timeout"} ELSE {})) :
           recorded'[a] = recorded[a] \cup D
    <3>1. CASE recorded'[a] = recorded[a]
      <4>1. recorded'[a] = recorded[a] \cup {}
        BY <3>1
      <4> QED
        BY <4>1
    <3>2. ASSUME NEW d \in Final, d = "timeout" => Expired(a),
                 recorded'[a] = recorded[a] \cup {d}
          PROVE  \E D \in SUBSET ({"approved", "denied"}
                                  \cup (IF a \in Closed THEN {"timeout"} ELSE {})) :
                    recorded'[a] = recorded[a] \cup D
      <4>1. {d} \in SUBSET ({"approved", "denied"}
                           \cup (IF a \in Closed THEN {"timeout"} ELSE {}))
        BY <1>4, <3>2 DEF Closed, Final
      <4> QED
        BY <3>2, <4>1
    <3>3. ~CreateRow(a)
      BY <1>4 DEF CreateRow
    <3> QED
      BY <1>2, <1>4, <3>1, <3>2, <3>3 DEF RowStep
  <2>5. \/ Polled(a)' = Polled(a)
        \/ /\ Polled(a)' \in Final
           /\ Polled(a)' \in recorded'[a] \/ (Polled(a)' = "timeout" /\ Expired(a))
    BY <1>4, AnswerStep
  <2> QED
    BY <1>4, <2>2, <2>3, <2>4, <2>5 DEF Closed
<1> QED
  BY <1>3, <1>4

\* Tools run only while an approval with "approved" on record exists.
LEMMA RunStep ==
    ASSUME HitlAssumption, DecisionInv, [Next]_vars
    PROVE  /\ executed \subseteq executed' /\ executed' \subseteq Requests
           /\ executed' # executed => \E a \in Approvals : "approved" \in recorded[a]
<1>1. TypeOK /\ TypeOK'
  BY NextType DEF DecisionInv
<1>2. (\E r \in Requests : Forward(r)) \/ UNCHANGED executed
  BY DEF Next, Create, CreateStart, CreateCache, CreateRow, CreateFails, ReadCache, Step,
     WriteTimeoutCache, WriteTimeoutDb, ReadDb, ResolveDb, ResolveReadCache,
     ResolveWriteCache, WriteAudit, RequestFails, SlackInteract, AdminDecide, Sweep, SweepFails,
     Tick, Restart, vars, logVars
<1>3. ASSUME NEW r \in Requests, Forward(r)
      PROVE  /\ executed \subseteq executed'
             /\ \E a \in Approvals : "approved" \in recorded[a]
  <2>1. pc[r] = "forward" /\ job[r].appr \in Approvals
    BY <1>3, HelperTypes DEF Forward, DecisionInv, JobOK, InFlight, Pcs
  <2>2. "approved" \in recorded[job[r].appr]
    BY <2>1 DEF DecisionInv, DeciderOK, RecordedFirst, Verdict
  <2> QED
    BY <1>3, <2>1, <2>2 DEF Forward
<1> QED
  BY <1>1, <1>2, <1>3 DEF TypeOK

\* A window that closed stays closed.
LEMMA ClosedStep ==
    ASSUME HitlAssumption, DecisionInv, [Next]_vars
    PROVE  Closed \subseteq Closed'
<1>1. TypeOK /\ TypeOK' /\ Monotone
  BY NextType, StepMonotone DEF DecisionInv
<1>2. \A a \in Approvals : stage[a] = "inserted" /\ Expired(a)
                            => stage'[a] = "inserted" /\ Expired(a)'
  BY <1>1, ExpiredStays DEF Monotone
<1> QED
  BY <1>2 DEF Closed

\* The handlers, their stores and the sweep together implement the promise, if
\* administrators do not submit "timeout" as a decision.
THEOREM HandlersKeepPromise ==
    ASSUME "timeout" \notin AdminDecisions
    PROVE  Spec => KeepsPromise
<1> DEFINE Inv == DecisionInv /\ TimeoutInv /\ PollInv
<1>1. Init => Inv /\ Promise!Init
  <2> SUFFICES ASSUME Init PROVE Inv /\ Promise!Init
    OBVIOUS
  <2>1. TypeOK /\ JobOK /\ PollInv
    BY HitlAssumption, InitType, PollInit
  <2>2. RowExists /\ DeciderOK /\ RecordedFirst /\ CacheDecisionWasRecorded
    BY DEF Init, RowExists, DeciderOK, RecordedFirst, CacheDecisionWasRecorded, InFlight, Pcs,
       NoEntry, NONE
  <2>3. TimeoutInv
    BY DEF Init, TimeoutInv, TimeoutOnlyAfterWindow, NoEntry, NONE
  <2>4. Promise!Init
    BY DEF Init, Promise!Init, NONE
  <2> QED
    BY <2>1, <2>2, <2>3, <2>4 DEF DecisionInv
<1>2. Inv /\ [Next]_vars => Inv'
  BY HitlAssumption, NextType, RowExistsStep, DeciderStep, RecordedFirstStep, CacheStep,
     TimeoutStep, PollStep DEF DecisionInv
<1>3. Inv /\ [Next]_vars => [Promise!Next]_(Promise!vars)
  <2> SUFFICES ASSUME Inv, [Next]_vars PROVE Promise!Next
    OBVIOUS
  <2>1. \A a \in Approvals : Promise!Kept(a) \/ Promise!Ask(a) \/ Promise!Settle(a)
    BY ApprovalStep, HitlAssumption, SMTT(30) DEF Promise!Kept, Promise!Ask, Promise!Settle,
       Promise!Recordable, Promise!Verdicts, Answer, Closed, Final
  <2>2. Promise!RunsApproved
    BY RunStep, HitlAssumption DEF Promise!RunsApproved
  <2> QED
    BY <2>1, <2>2, ClosedStep, HitlAssumption DEF Promise!Next, Closed
<1> QED
  BY <1>1, <1>2, <1>3, PTL DEF Spec, KeepsPromise, Promise!Spec
=============================================================================
