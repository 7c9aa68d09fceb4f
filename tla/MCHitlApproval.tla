--------------------------- MODULE MCHitlApproval ---------------------------
(* One approval, a security analyst and a viewer of its tenant and an        *)
(* analyst of another tenant; two concurrent requests.                       *)
EXTENDS HitlApproval

MCApprovals == {"a1"}
MCTenants   == {"t1", "t2"}
MCActors    == {[role |-> "security_analyst", tenant |-> "t1"],
                [role |-> "viewer", tenant |-> "t1"],
                [role |-> "security_analyst", tenant |-> "t2"]}
MCOwnerOf   == [a \in MCApprovals |-> "t1"]
MCAdminDecisions == {"approved", "denied"}
=============================================================================
