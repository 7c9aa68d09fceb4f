------------------------------- MODULE PlanLimits -------------------------------
(***************************************************************************)
(* Plan limits (billing/plan-limits.ts) as the alert channels of a tenant  *)
(* keep them (webhooks/alerting.ts): a handler looks whether the channel   *)
(* exists, counts the active ones, compares the count with the limit of    *)
(* the plan and its overrides, and only then saves.  Other handlers save,  *)
(* switch and delete channels in between.  Agents, alert rules and team    *)
(* members are created the same way (dashboard/plugin.ts, team/roles.ts,   *)
(* terraform/provider.ts, scim/scim.ts).                                   *)
(***************************************************************************)
EXTENDS Integers, FiniteSets

CONSTANTS
    Savers,       \* concurrent POST /api/alerts/channels
    Channels,     \* keys (type, name) of alert_channels
    Type,         \* Type[c]: the type of a channel
    Integrations, \* the types that count as integrations
    LimitValues,  \* limits of plans and overrides; negative is unlimited
    TopLimit      \* the largest of them

ASSUME PlanAssumption ==
    /\ IsFiniteSet(Savers) /\ Savers # {} /\ IsFiniteSet(Channels)
    /\ LimitValues \subseteq Int
    /\ TopLimit \in LimitValues \cap Nat
    /\ \A v \in LimitValues : v <= TopLimit

Features == {"alert_channels", "integrations"}
NoSave   == [step |-> "idle"]

VARIABLES
    channelRow, \* per channel: "absent", "inactive" or "active"
    saving,     \* per saver: [step, channel, active, used, checked]
    bypassed    \* history, per feature: channels made active without a check of a count

planVars == <<channelRow, saving, bypassed>>

Concerned(f) == {c \in Channels : f = "alert_channels" \/ Type[c] \in Integrations}
Active(f)    == {c \in Concerned(f) : channelRow[c] = "active"}

PlanInit ==
    /\ channelRow = [c \in Channels |-> "absent"]
    /\ saving = [h \in Savers |-> NoSave]
    /\ bypassed = [f \in Features |-> {}]

\* c becomes active or inactive; checked are the features it was counted for.
SetActive(c, active, checked) ==
    /\ channelRow' = [channelRow EXCEPT ![c] = IF active THEN "active" ELSE "inactive"]
    /\ bypassed' = [f \in Features |->
          IF ~active \/ f \in checked THEN bypassed[f] \ {c}
          ELSE IF channelRow[c] = "active" THEN bypassed[f] ELSE bypassed[f] \cup {c}]

Asked(h) == {f \in Features : saving[h].channel \in Concerned(f)}
NoUse    == [f \in Features |-> 0]

-----------------------------------------------------------------------------
(* POST /api/alerts/channels.                                              *)

\* Only a new channel that is to be active is checked.
Look(h, c, active) ==
    /\ saving[h] = NoSave
    /\ saving' = [saving EXCEPT ![h] =
          [step |-> IF channelRow[c] = "absent" /\ active THEN "count" ELSE "save",
           channel |-> c, active |-> active,
           used |-> NoUse, checked |-> {}]]
    /\ UNCHANGED <<channelRow, bypassed>>

\* getPlanUsage, as far as the checks use it: a query that fails counts as 0.
CountUsage(h) ==
    /\ saving[h].step = "count"
    /\ \E answered \in SUBSET Asked(h) :
          saving' = [saving EXCEPT
             ![h].step = "enforce",
             ![h].used = [f \in Features |->
                             IF f \in answered THEN Cardinality(Active(f)) ELSE 0],
             ![h].checked = answered]
    /\ UNCHANGED <<channelRow, bypassed>>

\* Mutant of Within: the limit itself still passes
WithinOrAt(used, limit) == limit < 0 \/ used <= limit
\* enforcePlanLimit
Within(used, limit) == limit < 0 \/ used + 1 <= limit

\* alert_channels for every channel, integrations for those of such a type.  The
\* limits are read here, after the count; administrators change the plan,
\* plan_limits and the overrides at any time and nothing is switched off then.
Enforce(h) ==
    /\ saving[h].step = "enforce"
    /\ \E limits \in [Asked(h) -> LimitValues] :
          saving' = [saving EXCEPT ![h] =
             IF \A f \in Asked(h) : Within(saving[h].used[f], limits[f])
             THEN [@ EXCEPT !.step = "save", !.used = NoUse,
                            !.checked = {f \in saving[h].checked : limits[f] >= 0}]
             ELSE NoSave]
    /\ UNCHANGED <<channelRow, bypassed>>

\* INSERT ... ON CONFLICT (tenant_id, type, name) DO UPDATE SET active
Save(h) ==
    /\ saving[h].step = "save"
    /\ SetActive(saving[h].channel, saving[h].active, saving[h].checked)
    /\ saving' = [saving EXCEPT ![h] = NoSave]

\* A query rejects: 500.
SaveFails(h) ==
    /\ saving[h] # NoSave
    /\ saving' = [saving EXCEPT ![h] = NoSave]
    /\ UNCHANGED <<channelRow, bypassed>>

-----------------------------------------------------------------------------
(* The other routes.                                                       *)

\* PATCH /api/alerts/channels/:id asks for no limit.
Switch(c, active) ==
    /\ channelRow[c] # "absent"
    /\ SetActive(c, active, {})
    /\ UNCHANGED saving

\* DELETE /api/alerts/channels/:idOrType: one channel, or all of a type.
Delete(cs) ==
    /\ channelRow' = [c \in Channels |-> IF c \in cs THEN "absent" ELSE channelRow[c]]
    /\ bypassed' = [f \in Features |-> bypassed[f] \ cs]
    /\ UNCHANGED saving

SaverStep(h) ==
    \/ \E c \in Channels, active \in BOOLEAN : Look(h, c, active)
    \/ CountUsage(h) \/ Enforce(h) \/ Save(h) \/ SaveFails(h)

PlanNext ==
    \/ \E h \in Savers : SaverStep(h)
    \/ \E c \in Channels, active \in BOOLEAN : Switch(c, active)
    \/ \E c \in Channels : Delete({c}) \/ Delete({d \in Channels : Type[d] = Type[c]})

PlanSpec == PlanInit /\ [][PlanNext]_planVars

-----------------------------------------------------------------------------
(* Properties.                                                             *)

PlanTypes ==
    /\ channelRow \in [Channels -> {"absent", "inactive", "active"}]
    /\ saving \in [Savers -> {NoSave} \cup
          [step : {"count", "enforce", "save"}, channel : Channels, active : BOOLEAN,
           used : [Features -> Nat], checked : SUBSET Features]]
    /\ bypassed \in [Features -> SUBSET Channels]

\* Check and save are separate statements, so the limit is no limit: but of the
\* channels that were counted, no more are ever active than the largest limit plus
\* one for each further handler that may hold a count of before.
OvershootBounded ==
    \A f \in Features :
        Cardinality(Active(f) \ bypassed[f]) <= TopLimit + Cardinality(Savers) - 1
=============================================================================
