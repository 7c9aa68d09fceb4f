------------------------------ MODULE AgentRuntime ------------------------------
(***************************************************************************)
(* The Python agent runtime (agent_runtime/): a run that needs a tool asks *)
(* the gateway's preflight and then its /mcp (security/gateway_client.py), *)
(* files an approval if the gateway holds the call                         *)
(* (hitl/approval_manager.py), and keeps the result of an allowed one as a *)
(* memory (orchestrator/graph.py, memory/manager.py).  Approvals and       *)
(* memories go to PostgreSQL, or to a dictionary of the process when the   *)
(* database fails or only its answer does.                                 *)
(***************************************************************************)
EXTENDS Integers

CONSTANTS
    Runs,        \* agent runs that call a tool
    ApprovalIds, \* appr_<first 8 characters of the request id>_<second>
    IdOf,        \* IdOf[r]: the id of r's approval; two runs may have the same
    Deciders     \* concurrent approve and reject requests

ASSUME RuntimeAssumption == IdOf \in [Runs -> ApprovalIds]

Verdicts == {"APPROVED", "REJECTED"}
NoDecide == [step |-> "idle"]

VARIABLES
    run,       \* per run: "new", "preflight", "mcp", "file", "save" or its outcome
    gateway,   \* per run: what the preflight decided: "none", "allowed", "held", "refused"
    executed,  \* runs whose tool /mcp executed
    unheard,   \* history: runs that got no answer of the gateway the client knows
    erred,     \* history: runs whose /mcp answered 200 with the error of the MCP server
    approvalRow,  \* per id: status of the agent_approvals row, or "none"
    approvalItem, \* per id: status of the item in process memory, or "none"
    deciding,  \* per decider: [step, id, verdict]
    memories,  \* runs whose result is kept as a completed task
    filed,     \* history, per id: approvals stored under it
    acked      \* history, per id: verdicts that were acknowledged

runtimeVars == <<run, gateway, executed, unheard, erred, approvalRow, approvalItem, deciding,
                 memories, filed, acked>>
gatewayVars  == <<gateway, executed, unheard, erred>>
approvalVars == <<approvalRow, approvalItem, filed>>

Outcomes == {"COMPLETED", "DENIED", "PENDING_APPROVAL", "lost"}

RuntimeInit ==
    /\ run = [r \in Runs |-> "new"]
    /\ gateway = [r \in Runs |-> "none"]
    /\ executed = {} /\ unheard = {} /\ erred = {} /\ memories = {}
    /\ approvalRow = [a \in ApprovalIds |-> "none"]
    /\ approvalItem = [a \in ApprovalIds |-> "none"]
    /\ deciding = [d \in Deciders |-> NoDecide]
    /\ filed = [a \in ApprovalIds |-> 0]
    /\ acked = [a \in ApprovalIds |-> 0]

Advance(r, step) == run' = [run EXCEPT ![r] = step]

-----------------------------------------------------------------------------
(* A run.                                                                  *)

\* The guardrails deny the input or the arguments, or the call is sent.
StartRun(r) ==
    /\ run[r] = "new"
    /\ Advance(r, "preflight") \/ Advance(r, "DENIED")
    /\ UNCHANGED <<gatewayVars, approvalVars, deciding, memories, acked>>

\* Mutant of AfterPreflight: a held call is executed like an allowed one
AfterPreflightHeldToo(decision) ==
    CASE decision \in {"allowed", "held"} -> "mcp"
      [] decision = "refused" -> "DENIED"

\* 200 and allowed, 202, or 401, 403 and 429.
AfterPreflight(decision) ==
    CASE decision = "allowed" -> "mcp"
      [] decision = "held"    -> "file"
      [] decision = "refused" -> "DENIED"

\* POST /api/agent/tool-call.  Any other status, and no answer at all, counts as
\* ALLOW with a simulated result, whatever the gateway decided.
Preflight(r) ==
    /\ run[r] = "preflight"
    /\ \E decision \in {"allowed", "held", "refused"} :
          /\ gateway' = [gateway EXCEPT ![r] = decision]
          /\ \/ Advance(r, AfterPreflight(decision)) /\ UNCHANGED unheard
             \/ Advance(r, "save") /\ unheard' = unheard \cup {r}
    /\ UNCHANGED <<executed, erred, approvalVars, deciding, memories, acked>>

\* POST /mcp: 200 is ALLOW and any other status DENY, though the tool may have been
\* executed before an error; no answer, or one that is not JSON, is ALLOW, though it
\* may not have been.  So is the error of the MCP server, which the gateway books as
\* DENY and sends with a 200: the client reads the body's `result` only.
CallTool(r) ==
    /\ run[r] = "mcp"
    /\ \/ /\ Advance(r, "save") /\ executed' = executed \cup {r}
          /\ UNCHANGED <<unheard, erred>>
       \/ /\ executed' \in {executed, executed \cup {r}}
          /\ \/ Advance(r, "DENIED") /\ UNCHANGED <<unheard, erred>>
             \/ Advance(r, "save") /\ erred' = erred \cup {r} /\ UNCHANGED unheard
             \/ Advance(r, "save") /\ unheard' = unheard \cup {r} /\ UNCHANGED erred
    /\ UNCHANGED <<gateway, approvalVars, deciding, memories, acked>>

\* save_long_term_memory, in either store.
SaveMemory(r) ==
    /\ run[r] = "save"
    /\ memories' = memories \cup {r}
    /\ Advance(r, "COMPLETED")
    /\ UNCHANGED <<gatewayVars, approvalVars, deciding, acked>>

\* create_approval_request: the INSERT succeeds; or it fails, as it does for an id
\* that is there, or its answer is lost, and the item is put in memory in place of
\* one with the same id.
FileApproval(r) ==
    LET a == IdOf[r]
        inserted == [approvalRow EXCEPT ![a] = "PENDING"]
        kept     == [approvalItem EXCEPT ![a] = "PENDING"] IN
    /\ run[r] = "file"
    /\ \/ /\ approvalRow[a] = "none"
          /\ approvalRow' = inserted /\ UNCHANGED approvalItem
          /\ filed' = [filed EXCEPT ![a] = @ + 1]
       \/ /\ approvalItem' = kept /\ UNCHANGED approvalRow
          /\ filed' = [filed EXCEPT ![a] = @ + 1]
       \/ /\ approvalRow[a] = "none"
          /\ approvalRow' = inserted /\ approvalItem' = kept
          /\ filed' = [filed EXCEPT ![a] = @ + 2]
    /\ Advance(r, "PENDING_APPROVAL")
    /\ UNCHANGED <<gatewayVars, deciding, memories, acked>>

-----------------------------------------------------------------------------
(* Approvers.                                                              *)

Ack(a) == acked' = [acked EXCEPT ![a] = @ + 1]

\* The UPDATE of a pending row; if there is none, or it fails, or its answer is
\* lost, the item in memory is looked up after it.
Decide(d, a, v) ==
    LET miss == deciding' = [deciding EXCEPT ![d] = [step |-> "memory", id |-> a, verdict |-> v]]
        hit  == approvalRow' = [approvalRow EXCEPT ![a] = v] IN
    /\ deciding[d] = NoDecide
    /\ \/ approvalRow[a] = "PENDING" /\ hit /\ Ack(a) /\ UNCHANGED deciding
       \/ approvalRow[a] = "PENDING" /\ hit /\ miss /\ UNCHANGED acked
       \/ miss /\ UNCHANGED <<approvalRow, acked>>
    /\ UNCHANGED <<run, gatewayVars, approvalItem, filed, memories>>

\* Mutant of DecideItem: the item's status is not looked at
DecideItemAny(d) ==
    LET a == deciding[d].id IN
    /\ deciding[d].step = "memory"
    /\ deciding' = [deciding EXCEPT ![d] = NoDecide]
    /\ IF approvalItem[a] # "none"
       THEN approvalItem' = [approvalItem EXCEPT ![a] = deciding[d].verdict] /\ Ack(a)
       ELSE UNCHANGED <<approvalItem, acked>>
    /\ UNCHANGED <<run, gatewayVars, approvalRow, filed, memories>>

DecideItem(d) ==
    LET a == deciding[d].id IN
    /\ deciding[d].step = "memory"
    /\ deciding' = [deciding EXCEPT ![d] = NoDecide]
    /\ IF approvalItem[a] = "PENDING"
       THEN approvalItem' = [approvalItem EXCEPT ![a] = deciding[d].verdict] /\ Ack(a)
       ELSE UNCHANGED <<approvalItem, acked>>
    /\ UNCHANGED <<run, gatewayVars, approvalRow, filed, memories>>

\* The process restarts: what it kept in memory is gone.
RestartRuntime ==
    /\ run' = [r \in Runs |-> IF run[r] \in Outcomes \cup {"new"} THEN run[r] ELSE "lost"]
    /\ approvalItem' = [a \in ApprovalIds |-> "none"]
    /\ deciding' = [d \in Deciders |-> NoDecide]
    /\ UNCHANGED <<gatewayVars, approvalRow, filed, memories, acked>>

RuntimeNext ==
    \/ \E r \in Runs : StartRun(r) \/ Preflight(r) \/ CallTool(r) \/ SaveMemory(r) \/ FileApproval(r)
    \/ \E d \in Deciders :
          \/ \E a \in ApprovalIds, v \in Verdicts : Decide(d, a, v)
          \/ DecideItem(d)
    \/ RestartRuntime

RuntimeSpec == RuntimeInit /\ [][RuntimeNext]_runtimeVars

-----------------------------------------------------------------------------
(* Properties.                                                             *)

RuntimeTypes ==
    /\ run \in [Runs -> Outcomes \cup {"new", "preflight", "mcp", "file", "save"}]
    /\ gateway \in [Runs -> {"none", "allowed", "held", "refused"}]
    /\ executed \subseteq Runs /\ unheard \subseteq Runs /\ erred \subseteq Runs
    /\ memories \subseteq Runs
    /\ approvalRow \in [ApprovalIds -> Verdicts \cup {"none", "PENDING"}]
    /\ approvalItem \in [ApprovalIds -> Verdicts \cup {"none", "PENDING"}]
    /\ deciding \in [Deciders -> {NoDecide} \cup
          [step : {"memory"}, id : ApprovalIds, verdict : Verdicts]]
    /\ filed \in [ApprovalIds -> Nat] /\ acked \in [ApprovalIds -> Nat]

\* However approvers, lost answers and restarts interleave, no stored approval is
\* decided twice: an id gets no more verdicts than approvals were stored under it.
\* (It may get two different ones: an INSERT whose answer is lost stores it twice,
\* and two runs of one second may have the same id.)
VerdictsAccounted == \A a \in ApprovalIds : acked[a] <= filed[a]

\* What the gateway held or refused is not executed by the run; and a run that
\* reports its task as done, or remembers it, without its tool having been executed
\* went on without an answer of the gateway, or had one only in form: a 200 with the
\* error of the MCP server, to a call that the preflight had allowed.
RunsAreHonest ==
    /\ \A r \in executed \cup erred : gateway[r] = "allowed"
    /\ \A r \in Runs : r \in memories \/ run[r] = "COMPLETED" =>
          r \in executed \cup unheard \cup erred
=============================================================================
