-------------------------------- MODULE PDP --------------------------------
(***************************************************************************)
(* The policy decision point: the pure function safety.pdp.decide and the  *)
(* request its only caller, agent.pdp_gate.evaluate, assembles for it.     *)
(*                                                                         *)
(* The wording of a reason, ids, headroom figures and the policy version   *)
(* are left out.  Amounts and hosts are reduced to the comparisons decide  *)
(* makes: bigSpend is amount_usd > 25, hostAllowed is host \in             *)
(* egress_allow, budgetHard is "some dimension at or over its hard limit". *)
(***************************************************************************)
EXTENDS Integers

\* Autonomy levels by rank, so that the clamp is a numeric minimum.
SuggestOnly == 0
ConfirmEach == 1
BoundedAuto == 2
FullAuto == 3
Levels == SuggestOnly .. FullAuto

ActionClasses ==
    {"read", "memory_write", "memory_forget_hard", "file_edit", "code_exec",
     "net_egress", "external_post", "spend", "self_modify"}

Verdicts == {"ALLOW", "DRY_RUN", "REQUIRE_APPROVAL", "DENY"}

ApprovalStates == {"none", "pending", "granted", "denied", "expired"}

\* The classes every Executive run is granted (pdp_gate.PHASE_A_GRANTED_TOOLS).
PhaseAGrantedTools ==
    {"read", "memory_write", "memory_forget_hard", "file_edit",
     "code_exec", "net_egress", "external_post"}

-----------------------------------------------------------------------------
\* The hardcoded floor.  A missing channel counts as public.
ClassFloor(q) ==
    CASE q.class = "read" -> FullAuto
      [] q.class = "spend" -> IF q.bigSpend THEN ConfirmEach ELSE FullAuto
      [] q.class = "external_post" -> IF q.private THEN FullAuto ELSE ConfirmEach
      [] q.class \in {"memory_forget_hard", "self_modify"} -> ConfirmEach
      [] OTHER -> BoundedAuto

MinOf(x, y) == IF x <= y THEN x ELSE y

\* The effective level, and which source the clamp is attributed to: the
\* floor wins a tie, then the workspace; the agent default alone clamps nothing.
ResolveLevel(agent, workspace, floor) ==
    LET m == MinOf(MinOf(agent, workspace), floor)
    IN  [level   |-> m,
         clamped |-> IF floor = m THEN "action_class_floor"
                     ELSE IF workspace = m THEN "workspace_override"
                     ELSE "none"]

Decision(verdict, resolved, reason) ==
    [verdict |-> verdict, level |-> resolved.level,
     clamped |-> resolved.clamped, reason |-> reason]

\* What decide answers before the autonomy clamp is even computed.
FailClosed(reason) ==
    Decision("DENY", [level |-> SuggestOnly, clamped |-> "action_class_floor"], reason)

\* The verdict of an action that survived every gate, by its clamped level.
BaseVerdict(level) ==
    CASE level = SuggestOnly -> "DENY"
      [] level = ConfirmEach -> "REQUIRE_APPROVAL"
      [] OTHER -> "ALLOW"

\* mutant: no look at the evaluation
SelfModifyGate_NoEval(q, resolved) ==
    CASE resolved.level = SuggestOnly -> Decision("DENY", resolved, "self_modify_autonomy_forbids")
      [] resolved.level # SuggestOnly /\ q.approval = "granted" ->
             Decision("ALLOW", resolved, "self_modify_dual_gate_satisfied")
      [] OTHER -> Decision("REQUIRE_APPROVAL", resolved, "self_modify_requires_approval")

\* The dual gate of self_modify: a passed evaluation and a granted approval.
SelfModifyGate(q, resolved) ==
    CASE ~q.evalPassed -> Decision("DENY", resolved, "self_modify_eval_gate_unsatisfied")
      [] q.evalPassed /\ resolved.level = SuggestOnly ->
             Decision("DENY", resolved, "self_modify_autonomy_forbids")
      [] q.evalPassed /\ resolved.level # SuggestOnly /\ q.approval = "granted" ->
             Decision("ALLOW", resolved, "self_modify_dual_gate_satisfied")
      [] OTHER -> Decision("REQUIRE_APPROVAL", resolved, "self_modify_requires_approval")

\* safety.pdp.decide with the order of the kill and approval tests swapped: a
\* granted approval is honoured before the kill switch is looked at.
Decide_ApprovalBeforeKill(q) ==
    LET resolved == ResolveLevel(q.agentLevel, q.workspaceLevel, ClassFloor(q))
    IN  IF q.class = "read" THEN
            Decision("ALLOW", ResolveLevel(q.agentLevel, q.workspaceLevel, FullAuto), "read_no_side_effect")
        ELSE IF resolved.level = ConfirmEach /\ q.approval = "granted" THEN
            Decision("ALLOW", resolved, "approval_granted")
        ELSE IF q.killUnreadable \/ q.killGlobal \/ q.killAgent THEN
            FailClosed("kill_switch_active")
        ELSE Decision(BaseVerdict(resolved.level), resolved, "base")

\* safety.pdp.decide: the first test that applies answers.
Decide(q) ==
    LET resolved == ResolveLevel(q.agentLevel, q.workspaceLevel, ClassFloor(q))
    IN  IF q.class = "read" THEN
            Decision("ALLOW", ResolveLevel(q.agentLevel, q.workspaceLevel, FullAuto), "read_no_side_effect")
        ELSE IF q.class \notin ActionClasses THEN FailClosed("unknown_action_class_fail_closed")
        ELSE IF q.killUnreadable THEN FailClosed("kill_switch_unreadable")
        ELSE IF q.killGlobal \/ q.killAgent THEN FailClosed("kill_switch_active")
        ELSE IF ~q.covered THEN FailClosed("capability_grant_missing")
        ELSE IF q.class = "net_egress" /\ ~q.hostAllowed THEN
            Decision("DENY", resolved, "net_egress_host_not_in_allowlist")
        ELSE IF q.budgetHard THEN Decision("DENY", resolved, "budget_hard_limit_exceeded")
        ELSE IF q.class = "self_modify" THEN SelfModifyGate(q, resolved)
        ELSE IF q.dryRun THEN Decision("DRY_RUN", resolved, "dry_run_requested")
        ELSE IF resolved.level = ConfirmEach /\ q.approval = "granted" THEN
            Decision("ALLOW", resolved, "approval_granted")
        ELSE Decision(BaseVerdict(resolved.level), resolved, "base")

-----------------------------------------------------------------------------
\* The request agent.pdp_gate.evaluate builds for a step of an Executive run:
\* the run's autonomy is both the agent default and the workspace override, the
\* capability grant is Phase A's, the budget snapshot is the zero-consumed
\* default, a tool that needs egress carries its own host on the allow-list, no
\* channel is passed (external_post counts as public) and no amount.
GateRequest(class, autonomy, kill, approval) ==
    [class |-> class, agentLevel |-> autonomy, workspaceLevel |-> autonomy,
     killGlobal |-> kill = "set", killAgent |-> FALSE, killUnreadable |-> kill = "unreadable",
     covered |-> class \in PhaseAGrantedTools, hostAllowed |-> TRUE,
     budgetHard |-> FALSE, evalPassed |-> FALSE, dryRun |-> FALSE,
     bigSpend |-> FALSE, private |-> FALSE, approval |-> approval]

Evaluate(class, autonomy, kill, approval) ==
    Decide(GateRequest(class, autonomy, kill, approval)).verdict

\* A side effect of this class, at this autonomy, is only ever permitted by a
\* human: everything alive, the gate still answers REQUIRE_APPROVAL.
NeedsApproval(class, autonomy) ==
    Evaluate(class, autonomy, "clear", "none") = "REQUIRE_APPROVAL"
=============================================================================
