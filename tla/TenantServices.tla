----------------------------- MODULE TenantServices -----------------------------
(***************************************************************************)
(* The services around the gateway, of one tenant, side by side.  They     *)
(* share no row, key or variable, so their interleavings show nothing that *)
(* each of them alone does not: `service` picks, once, the one that moves. *)
(***************************************************************************)
EXTENDS TenantLifecycle, OverageBilling, PlanLimits, SpendShield,
        PeerMessages, IpAllowlist, AgentRuntime

VARIABLE service

servicesVars ==
    <<service, tenantVars, billVars, planVars, spendVars, peerVars, ipVars, runtimeVars>>

ServiceNames ==
    {"lifecycle", "billing", "plans", "spending", "peers", "allowlist", "runtime"}

ServicesInit ==
    /\ service \in ServiceNames
    /\ TenantInit /\ BillInit /\ PlanInit /\ SpendInit /\ PeerInit /\ IpInit /\ RuntimeInit

ServicesNext ==
    /\ UNCHANGED service
    /\ \/ /\ service = "lifecycle" /\ TenantNext
          /\ UNCHANGED <<billVars, planVars, spendVars, peerVars, ipVars, runtimeVars>>
       \/ /\ service = "billing" /\ BillNext
          /\ UNCHANGED <<tenantVars, planVars, spendVars, peerVars, ipVars, runtimeVars>>
       \/ /\ service = "plans" /\ PlanNext
          /\ UNCHANGED <<tenantVars, billVars, spendVars, peerVars, ipVars, runtimeVars>>
       \/ /\ service = "spending" /\ SpendNext
          /\ UNCHANGED <<tenantVars, billVars, planVars, peerVars, ipVars, runtimeVars>>
       \/ /\ service = "peers" /\ PeerNext
          /\ UNCHANGED <<tenantVars, billVars, planVars, spendVars, ipVars, runtimeVars>>
       \/ /\ service = "allowlist" /\ IpNext
          /\ UNCHANGED <<tenantVars, billVars, planVars, spendVars, peerVars, runtimeVars>>
       \/ /\ service = "runtime" /\ RuntimeNext
          /\ UNCHANGED <<tenantVars, billVars, planVars, spendVars, peerVars, ipVars>>

ServicesSpec == ServicesInit /\ [][ServicesNext]_servicesVars

\* Every service's state is what its rows, keys and program counters can hold.
ServiceTypes ==
    /\ TenantTypes /\ BillTypes /\ PlanTypes /\ SpendTypes
    /\ PeerTypes /\ IpTypes /\ RuntimeTypes
=============================================================================
