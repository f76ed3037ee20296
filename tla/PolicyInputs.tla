---------------------------- MODULE PolicyInputs ----------------------------
(***************************************************************************)
(* The controls around one action, moving one at a time: the autonomy      *)
(* levels, the kill switch, the capability grant, the budget, the approval *)
(* and the facts of the action itself.  decide is pure, so what a change   *)
(* of one control may do to its verdict is what can go wrong: a test fixes *)
(* a request, an action property compares a request with its neighbours.   *)
(*                                                                         *)
(* Only the fields decide reads for a class vary with that class.          *)
(***************************************************************************)
EXTENDS PDP

VARIABLE q      \* the PDPRequest

\* A class ActionClass gained without a floor: the integrity error decide
\* refuses first of all.
UnknownClass == "unheard_of"

\* The PDPRequests, by the comparisons decide makes on them.
Requests ==
    {r \in [class : ActionClasses \cup {UnknownClass},
            agentLevel : Levels, workspaceLevel : Levels,
            killGlobal : BOOLEAN, killAgent : BOOLEAN, killUnreadable : BOOLEAN,
            covered : BOOLEAN, hostAllowed : BOOLEAN, budgetHard : BOOLEAN,
            evalPassed : BOOLEAN, dryRun : BOOLEAN, bigSpend : BOOLEAN,
            private : BOOLEAN, approval : ApprovalStates] :
        /\ r.class # "net_egress" => r.hostAllowed
        /\ r.class # "self_modify" => ~r.evalPassed
        /\ r.class # "spend" => ~r.bigSpend
        /\ r.class # "external_post" => ~r.private}

\* The request of a class before any control is loosened.
Closed(class) ==
    [class |-> class, agentLevel |-> SuggestOnly, workspaceLevel |-> SuggestOnly,
     killGlobal |-> FALSE, killAgent |-> FALSE, killUnreadable |-> FALSE,
     covered |-> FALSE, hostAllowed |-> class # "net_egress", budgetHard |-> TRUE,
     evalPassed |-> FALSE, dryRun |-> FALSE, bigSpend |-> class = "spend",
     private |-> FALSE, approval |-> "none"]

Init == q \in {Closed(class) : class \in ActionClasses \cup {UnknownClass}}

SetAgentLevel == \E l \in Levels \ {q.agentLevel} : q' = [q EXCEPT !.agentLevel = l]
SetWorkspaceLevel == \E l \in Levels \ {q.workspaceLevel} : q' = [q EXCEPT !.workspaceLevel = l]

\* One kill flag at a time: read_kill reports the scopes it could read, or a
\* failed read.
KillFlags(g, a, u) == [q EXCEPT !.killGlobal = g, !.killAgent = a, !.killUnreadable = u]
EngageKill ==
    /\ ~q.killGlobal /\ ~q.killAgent /\ ~q.killUnreadable
    /\ q' \in {KillFlags(TRUE, FALSE, FALSE), KillFlags(FALSE, TRUE, FALSE),
               KillFlags(FALSE, FALSE, TRUE)}
ReleaseKill ==
    /\ q.killGlobal \/ q.killAgent \/ q.killUnreadable
    /\ q' = KillFlags(FALSE, FALSE, FALSE)

GrantCapability == q' = [q EXCEPT !.covered = ~@]
ChargeBudget == q' = [q EXCEPT !.budgetHard = ~@]
ToggleDryRun == q' = [q EXCEPT !.dryRun = ~@]
MoveApproval == \E s \in ApprovalStates \ {q.approval} : q' = [q EXCEPT !.approval = s]

\* The facts of the action, for the class that is judged by them.
AllowHost == q.class = "net_egress" /\ q' = [q EXCEPT !.hostAllowed = ~@]
RunEval == q.class = "self_modify" /\ q' = [q EXCEPT !.evalPassed = ~@]
ChangeAmount == q.class = "spend" /\ q' = [q EXCEPT !.bigSpend = ~@]
ChangeChannel == q.class = "external_post" /\ q' = [q EXCEPT !.private = ~@]

Next ==
    \/ SetAgentLevel
    \/ SetWorkspaceLevel
    \/ EngageKill
    \/ ReleaseKill
    \/ GrantCapability
    \/ ChargeBudget
    \/ ToggleDryRun
    \/ MoveApproval
    \/ AllowHost
    \/ RunEval
    \/ ChangeAmount
    \/ ChangeChannel

Spec == Init /\ [][Next]_q

-----------------------------------------------------------------------------
\* request n is no looser than request o in any control, dry-run aside.
Tighter(n, o) ==
    /\ n.class = o.class
    /\ n.dryRun = o.dryRun
    /\ n.agentLevel <= o.agentLevel
    /\ n.workspaceLevel <= o.workspaceLevel
    /\ o.killGlobal => n.killGlobal
    /\ o.killAgent => n.killAgent
    /\ o.killUnreadable => n.killUnreadable
    /\ n.covered => o.covered
    /\ n.hostAllowed => o.hostAllowed
    /\ o.budgetHard => n.budgetHard
    /\ n.evalPassed => o.evalPassed
    /\ o.bigSpend => n.bigSpend
    /\ n.private => o.private
    /\ n.approval = "granted" => o.approval = "granted"

\* How much a verdict lets happen.
Permits(verdict) ==
    CASE verdict = "DENY" -> 0
      [] verdict = "REQUIRE_APPROVAL" -> 1
      [] verdict = "DRY_RUN" -> 2
      [] verdict = "ALLOW" -> 3

\* Tightening a control never loosens the verdict (safety.pdp.decide): no order
\* of its tests lets a lower autonomy, a kill or a lost grant open a path.
TighteningNeverLoosens ==
    [][Tighter(q', q) => Permits(Decide(q').verdict) <= Permits(Decide(q).verdict)]_q

\* The classes no autonomy level opens, the "hard floors" that full_auto keeps.
HardFloor(r) ==
    \/ r.class \in {"memory_forget_hard", "self_modify"}
    \/ r.class = "external_post" /\ ~r.private
    \/ r.class = "spend" /\ r.bigSpend

\* What must be in place for an action to be executed, stated without an order.
MayExecute(r) ==
    \/ r.class = "read"
    \/ /\ r.class \in ActionClasses
       /\ ~r.killGlobal /\ ~r.killAgent /\ ~r.killUnreadable
       /\ r.covered /\ ~r.budgetHard
       /\ r.class = "net_egress" => r.hostAllowed
       /\ SuggestOnly \notin {r.agentLevel, r.workspaceLevel}
       /\ r.class = "self_modify" => r.evalPassed
       /\ r.class # "self_modify" => ~r.dryRun
       /\ \/ r.approval = "granted"
          \/ ConfirmEach \notin {r.agentLevel, r.workspaceLevel} /\ ~HardFloor(r)

\* decide's cascade of early returns allows exactly that.
AllowsExactly == Decide(q).verdict = "ALLOW" <=> MayExecute(q)

=============================================================================
