--------------------------- MODULE ApprovalPromise ---------------------------
(***************************************************************************)
(* What the human-in-the-loop service promises the agents that wait and    *)
(* the tenants that own the decisions, with no word about stores, requests *)
(* or sweeps: an approval that is answered as pending is answered by a     *)
(* decision later on, never by pending again; approved and denied are      *)
(* answered only when they are on record; a timeout comes only after the   *)
(* window closed; and the tool runs only on a recorded approval.           *)
(* HitlApproval implements it.                                             *)
(***************************************************************************)
CONSTANTS Approvals, Requests

VARIABLES
    answer,    \* what an agent that polls the approval is told, "none" before it exists
    recorded,  \* decisions that have been on record for it
    closed,    \* approvals whose window is over
    ran        \* requests whose tool call was run

vars == <<answer, recorded, closed, ran>>

Verdicts == {"approved", "denied", "timeout"}

Init ==
    /\ answer = [a \in Approvals |-> "none"]
    /\ recorded = [a \in Approvals |-> {}]
    /\ closed = {}
    /\ ran = {}

\* The agent's request is parked.
Ask(a) ==
    /\ answer[a] = "none" /\ answer'[a] = "pending"
    /\ recorded'[a] = recorded[a] \cup {"pending"}

\* What may go on record for an approval at one moment.
Recordable(a) == {"approved", "denied"} \cup (IF a \in closed THEN {"timeout"} ELSE {})

\* An approval that waits or is decided gets (further) decisions, and its answer
\* may become one of them.
Settle(a) ==
    /\ answer[a] # "none"
    /\ \E D \in SUBSET Recordable(a) : recorded'[a] = recorded[a] \cup D
    /\ \/ answer'[a] = answer[a]
       \/ answer'[a] \in Verdicts \cap (recorded'[a] \cup (Recordable(a) \cap {"timeout"}))

Kept(a) == answer'[a] = answer[a] /\ recorded'[a] = recorded[a]

\* Tools run only on behalf of an approval with "approved" on record.
RunsApproved ==
    /\ ran \subseteq ran' /\ ran' \subseteq Requests
    /\ ran' # ran => \E a \in Approvals : "approved" \in recorded[a]

Next ==
    /\ \A a \in Approvals : Kept(a) \/ Ask(a) \/ Settle(a)
    /\ closed \subseteq closed'
    /\ RunsApproved

Spec == Init /\ [][Next]_vars
=============================================================================
