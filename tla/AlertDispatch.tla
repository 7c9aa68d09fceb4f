---------------------------- MODULE AlertDispatch ----------------------------
(***************************************************************************)
(* Alert rules, their channels and the dispatch of alerts                  *)
(* (webhooks/alerting.ts): evaluateAlertRules every 60 s and fireAlert of  *)
(* the request pipelines (proxy/server.ts) call dispatchAlert for the same *)
(* rules at the same time, while administrators create and delete rules    *)
(* and channels.  Every await of dispatchAlert is a step of its own.       *)
(*                                                                         *)
(* Whether a threshold is reached is data: an evaluation may skip a rule.  *)
(* The cooldown is a flag per rule that rises with the INSERT into         *)
(* alert_log and falls at any later time.  What becomes of a failed        *)
(* delivery is module WebhookRetry.                                        *)
(***************************************************************************)
EXTENDS Integers, FiniteSets

CONSTANTS
    Rules, Channels,  \* alert_rules and alert_channels, ids are never reused
    Cron,             \* calls of evaluateAlertRules under way
    Fires,            \* calls of fireAlert under way
    OwnTargets,       \* destinations that can be stored with a rule itself, the fallback
    MaxFaults         \* bound: queries that fail

ASSUME DispatchAssumption ==
    /\ MaxFaults \in Nat
    /\ OwnTargets \cap Channels = {} /\ Rules \cap Channels = {}
    /\ IsFiniteSet(Cron) /\ IsFiniteSet(Fires) /\ "no rule" \notin Rules

Dispatchers == Cron \cup Fires
NoRule == "no rule"

VARIABLES
    rule,     \* "none", "active" or "deleted" (active=false)
    channel,  \* "none", "active", "paused" or "deleted"
    own,      \* per rule: destinations stored with it
    links,    \* alert_rule_channels: rule -> channels
    linking,  \* createRule: channels it still has to link
    cooling,  \* the latest alert_log row of the rule is younger than its cooldown
    pc,       \* per dispatcher: "idle", or the next step of dispatchAlert
    todo,     \* per dispatcher: rules read and not yet evaluated
    cur,      \* per dispatcher: rule of the dispatchAlert call
    targets,  \* per dispatcher: destinations not yet sent to
    faults,   \* queries that failed
    passed,   \* history: dispatches past the check of the present quiet period
    unlogged, \* history: of these, without a row in alert_log
    offered,  \* history, per dispatcher: what was in force at some time of the call
    steady  \* history, per dispatcher: what was in force all through the call

adminVars == <<rule, channel, own, links, linking>>
callVars  == <<pc, todo, cur, targets>>
countVars == <<passed, unlogged>>
seenVars  == <<offered, steady>>
vars == <<adminVars, cooling, callVars, faults, countVars, seenVars>>

-----------------------------------------------------------------------------
Active(r) == rule[r] = "active"

\* The JOIN of deliveryTargetsForRule.
Selected(r) == {c \in links[r] : channel[c] = "active"}

\* What is in force for a rule: itself and the channels selected for it.
InForce(r) ==
    {c \in links[r] : channel[c] = "active"} \cup (IF Active(r) THEN {r} ELSE {})

\* Mutant of Targets: the rule's own destinations first
TargetsOwnFirst(r, selected) == IF own[r] # {} THEN own[r] ELSE selected

\* deliveryTargetsForRule falls back to the rule's own destinations.
Targets(r, selected) == IF selected # {} THEN selected ELSE own[r]

Init ==
    /\ rule = [r \in Rules |-> "none"]
    /\ channel = [c \in Channels |-> "none"]
    /\ own = [r \in Rules |-> {}]
    /\ links = [r \in Rules |-> {}]
    /\ linking = [r \in Rules |-> {}]
    /\ cooling = [r \in Rules |-> FALSE]
    /\ pc = [d \in Dispatchers |-> "idle"]
    /\ todo = [d \in Dispatchers |-> {}]
    /\ cur = [d \in Dispatchers |-> NoRule]
    /\ targets = [d \in Dispatchers |-> {}]
    /\ faults = 0
    /\ passed = [r \in Rules |-> 0]
    /\ unlogged = [r \in Rules |-> 0]
    /\ offered = [d \in Dispatchers |-> {}]
    /\ steady = [d \in Dispatchers |-> {}]

-----------------------------------------------------------------------------
(* Administration.                                                         *)

\* createRule: the rule is active from its INSERT on, before any channel is
\* linked.
CreateRule(r) ==
    /\ rule[r] = "none"
    /\ rule' = [rule EXCEPT ![r] = "active"]
    /\ \E ts \in SUBSET OwnTargets : own' = [own EXCEPT ![r] = ts]
    /\ \E cs \in SUBSET Channels : linking' = [linking EXCEPT ![r] = cs]
    /\ UNCHANGED <<channel, links, cooling, callVars, faults, countVars>>

\* createRule, one INSERT of its loop; it links nothing when the channel is
\* not there, or when the INSERT fails, which is ignored.
LinkChannel(r, c) ==
    /\ c \in linking[r]
    /\ linking' = [linking EXCEPT ![r] = @ \ {c}]
    /\ \/ links' = [links EXCEPT ![r] = IF channel[c] \in {"active", "paused"}
                                        THEN @ \cup {c} ELSE @] /\ UNCHANGED faults
       \/ faults < MaxFaults /\ faults' = faults + 1 /\ UNCHANGED links
    /\ UNCHANGED <<rule, channel, own, cooling, callVars, countVars>>

DeleteRule(r) ==
    /\ Active(r)
    /\ rule' = [rule EXCEPT ![r] = "deleted"]
    /\ UNCHANGED <<channel, own, links, linking, cooling, callVars, faults, countVars>>

\* POST /api/alerts/channels (INSERT or DO UPDATE) and PATCH .../:id.
SaveChannel(c, state) ==
    /\ channel[c] # "deleted" /\ channel[c] # state
    /\ channel' = [channel EXCEPT ![c] = state]
    /\ UNCHANGED <<rule, own, links, linking, cooling, callVars, faults, countVars>>

\* DELETE /api/alerts/channels/:id, first statement.
UnlinkChannel(c) ==
    /\ channel[c] \in {"active", "paused"}
    /\ links' = [r \in Rules |-> links[r] \ {c}]
    /\ UNCHANGED <<rule, channel, own, linking, cooling, callVars, faults, countVars>>

\* Its second statement, or the delete of all channels of a type, which leaves
\* the links.
DeleteChannel(c) ==
    /\ channel[c] \in {"active", "paused"}
    /\ channel' = [channel EXCEPT ![c] = "deleted"]
    /\ UNCHANGED <<rule, own, links, linking, cooling, callVars, faults, countVars>>

\* The latest row of alert_log becomes older than cooldown_seconds.
CooldownEnds(r) ==
    /\ cooling[r]
    /\ cooling' = [cooling EXCEPT ![r] = FALSE]
    /\ passed' = [passed EXCEPT ![r] = 0]
    /\ unlogged' = [unlogged EXCEPT ![r] = 0]
    /\ UNCHANGED <<adminVars, callVars, faults>>

-----------------------------------------------------------------------------
(* Dispatch.                                                               *)

\* Mutant of Return: the rule is not left behind
ReturnKeepsRule(d) ==
    /\ pc' = [pc EXCEPT ![d] = IF todo[d] = {} THEN "idle" ELSE "evaluate"]
    /\ UNCHANGED cur

\* A return of dispatchAlert to its caller.
Return(d) ==
    /\ pc' = [pc EXCEPT ![d] = IF todo[d] = {} THEN "idle" ELSE "evaluate"]
    /\ cur' = [cur EXCEPT ![d] = NoRule]

\* evaluateAlertRules reads all active rules, fireAlert one of them.
Start(d) ==
    /\ pc[d] = "idle"
    /\ \E rs \in SUBSET {r \in Rules : Active(r)} :
          /\ rs # {}
          /\ d \in Fires => Cardinality(rs) = 1
          /\ d \in Cron => rs = {r \in Rules : Active(r)}
          /\ todo' = [todo EXCEPT ![d] = rs]
    /\ pc' = [pc EXCEPT ![d] = "evaluate"]
    /\ UNCHANGED <<adminVars, cooling, cur, targets, faults, countVars>>

\* The threshold of the next rule is reached, dispatchAlert is called ...
Call(d, r) ==
    /\ pc[d] = "evaluate" /\ r \in todo[d]
    /\ todo' = [todo EXCEPT ![d] = @ \ {r}]
    /\ cur' = [cur EXCEPT ![d] = r]
    /\ pc' = [pc EXCEPT ![d] = "rule"]
    /\ UNCHANGED <<adminVars, cooling, targets, faults, countVars>>

\* ... or it is not, or its query throws.
Skip(d, r) ==
    /\ pc[d] = "evaluate" /\ d \in Cron /\ r \in todo[d]
    /\ todo' = [todo EXCEPT ![d] = @ \ {r}]
    /\ pc' = [pc EXCEPT ![d] = IF todo[d] = {r} THEN "idle" ELSE "evaluate"]
    /\ UNCHANGED <<adminVars, cooling, cur, targets, faults, countVars>>

\* Mutant of ReadRule: a rule deleted meanwhile is not noticed
ReadRuleUnchecked(d) ==
    /\ pc[d] = "rule"
    /\ pc' = [pc EXCEPT ![d] = "cooldown"]
    /\ UNCHANGED <<adminVars, cooling, todo, cur, targets, faults, countVars>>

\* dispatchAlert, SELECT of the rule.
ReadRule(d) ==
    /\ pc[d] = "rule"
    /\ \/ Active(cur[d]) /\ pc' = [pc EXCEPT ![d] = "cooldown"] /\ UNCHANGED cur
       \/ ~Active(cur[d]) /\ Return(d)
    /\ UNCHANGED <<adminVars, cooling, todo, targets, faults, countVars>>

\* dispatchAlert, SELECT of the latest alert_log row and comparison.
CheckCooldown(d) ==
    /\ pc[d] = "cooldown"
    /\ \/ /\ cooling[cur[d]]
          /\ Return(d)
          /\ UNCHANGED countVars
       \/ /\ ~cooling[cur[d]]
          /\ pc' = [pc EXCEPT ![d] = "targets"]
          /\ passed' = [passed EXCEPT ![cur[d]] = @ + 1]
          /\ UNCHANGED <<cur, unlogged>>
    /\ UNCHANGED <<adminVars, cooling, todo, targets, faults>>

\* deliveryTargetsForRule; a failing query counts as no channel selected.
ReadTargets(d) ==
    /\ pc[d] = "targets"
    /\ \/ targets' = [targets EXCEPT ![d] = Targets(cur[d], Selected(cur[d]))] /\ UNCHANGED faults
       \/ /\ faults < MaxFaults /\ faults' = faults + 1
          /\ targets' = [targets EXCEPT ![d] = Targets(cur[d], {})]
    /\ pc' = [pc EXCEPT ![d] = "send"]
    /\ UNCHANGED <<adminVars, cooling, todo, cur, countVars>>

\* sendToChannel for one target and its recordDelivery; the targets are sent to
\* concurrently, and a failure is only recorded.
Send(d, c) ==
    /\ pc[d] = "send" /\ c \in targets[d]
    /\ targets' = [targets EXCEPT ![d] = @ \ {c}]
    /\ UNCHANGED <<adminVars, cooling, pc, todo, cur, faults, countVars>>

\* Mutant of WriteLog: only last_triggered is updated
WriteLogForgotten(d) ==
    /\ pc[d] = "send" /\ targets[d] = {}
    /\ Return(d)
    /\ UNCHANGED <<adminVars, cooling, todo, targets, faults, countVars>>

\* INSERT INTO alert_log, whoever was reached, be it nobody.
WriteLog(d) ==
    /\ pc[d] = "send" /\ targets[d] = {}
    /\ cooling' = [cooling EXCEPT ![cur[d]] = TRUE]
    /\ Return(d)
    /\ UNCHANGED <<adminVars, todo, targets, faults, countVars>>

\* The INSERT fails: dispatchAlert rejects, its caller drops the error.
LogFails(d) ==
    /\ pc[d] = "send" /\ targets[d] = {} /\ faults < MaxFaults
    /\ faults' = faults + 1
    /\ unlogged' = [unlogged EXCEPT ![cur[d]] = @ + 1]
    /\ Return(d)
    /\ UNCHANGED <<adminVars, cooling, todo, targets, passed>>

-----------------------------------------------------------------------------
\* History: at a call a dispatcher starts with what is in force then; it is
\* forgotten when the targets are known.
Observe ==
    LET now(d)   == UNION {InForce(r)' : r \in {r \in Rules : cur'[d] = r /\ pc'[d] # "send"}}
        fresh(d) == cur'[d] # cur[d] \/ pc'[d] = "send"
    IN  /\ offered' = [d \in Dispatchers |->
                          IF fresh(d) THEN now(d) ELSE offered[d] \cup now(d)]
        /\ steady' = [d \in Dispatchers |->
                          IF fresh(d) THEN now(d) ELSE steady[d] \cap now(d)]

Administer ==
    \/ \E r \in Rules :
          \/ CreateRule(r) \/ DeleteRule(r)
          \/ \E c \in Channels : LinkChannel(r, c)
    \/ \E c \in Channels :
          \/ UnlinkChannel(c) \/ DeleteChannel(c)
          \/ \E state \in {"active", "paused"} : SaveChannel(c, state)

Evaluate(d) == \E r \in Rules : Call(d, r) \/ Skip(d, r)
Dispatch(d) ==
    \/ ReadRule(d) \/ CheckCooldown(d) \/ ReadTargets(d) \/ WriteLog(d)
    \/ \E c \in Channels \cup OwnTargets : Send(d, c)

Next ==
    /\ \/ Administer
       \/ \E r \in Rules : CooldownEnds(r)
       \/ \E d \in Dispatchers : Start(d) \/ Evaluate(d) \/ Dispatch(d) \/ LogFails(d)
    /\ Observe

Spec == Init /\ [][Next]_vars

\* Cooldowns end, the timer starts evaluations, dispatchers run on.
FairSpec ==
    /\ Spec
    /\ \A r \in Rules : WF_vars(CooldownEnds(r) /\ Observe)
    /\ \A d \in Cron : WF_vars(Start(d) /\ Observe)
    /\ \A d \in Dispatchers : WF_vars(Evaluate(d) /\ Observe) /\ WF_vars(Dispatch(d) /\ Observe)

-----------------------------------------------------------------------------
(* Properties.                                                             *)

TypeOK ==
    /\ rule \in [Rules -> {"none", "active", "deleted"}]
    /\ channel \in [Channels -> {"none", "active", "paused", "deleted"}]
    /\ own \in [Rules -> SUBSET OwnTargets]
    /\ links \in [Rules -> SUBSET Channels]
    /\ linking \in [Rules -> SUBSET Channels]
    /\ cooling \in [Rules -> BOOLEAN]
    /\ pc \in [Dispatchers -> {"idle", "evaluate", "rule", "cooldown", "targets", "send"}]
    /\ todo \in [Dispatchers -> SUBSET Rules]
    /\ cur \in [Dispatchers -> Rules \cup {NoRule}]
    /\ targets \in [Dispatchers -> SUBSET (Channels \cup OwnTargets)]
    /\ faults \in Nat /\ passed \in [Rules -> Nat] /\ unlogged \in [Rules -> Nat]
    /\ offered \in [Dispatchers -> SUBSET (Channels \cup Rules)]
    /\ steady \in [Dispatchers -> SUBSET (Channels \cup Rules)]
    /\ \A d \in Dispatchers : (cur[d] = NoRule) = (pc[d] \in {"idle", "evaluate"})

\* The cooldown is checked long before it is started, so one alert may go out
\* several times, but not more often than there are dispatchers at work, plus
\* one for each row that alert_log did not get.
AlertBurstBounded ==
    \A r \in Rules : passed[r] <= Cardinality(Dispatchers) + unlogged[r]

\* However administration interleaves with a dispatch: the rule was active
\* after the call, every channel chosen was linked and active at some time of
\* the call (or is a destination of the rule itself), and, unless the query fails,
\* no channel is missed that was so all the time.
TargetsAreCurrent ==
    [][\A d \in Dispatchers :
          (pc[d] = "targets" /\ pc'[d] = "send") =>
              /\ cur[d] \in offered[d]
              /\ targets'[d] \subseteq offered[d] \cup OwnTargets
              /\ faults' = faults => steady[d] \cap Channels \subseteq targets'[d]]_vars

\* An alert that stays due keeps reaching a channel that stays linked and
\* active: neither concurrent dispatches nor failed ones hold it off for good.
AlertKeepsReaching ==
    \A r \in Rules, c \in Channels :
        (/\ <>[](Active(r) /\ c \in Selected(r))
         /\ []<><<\E d \in Cron : cur[d] # r /\ cur'[d] = r>>_vars)
        => []<><<\E d \in Dispatchers :
                   cur[d] = r /\ c \in targets[d] /\ c \notin targets'[d]>>_vars
=============================================================================
