------------------------ MODULE ExecutiveRun_proofs ------------------------
(***************************************************************************)
(* For any number of runs, steps, classes and faults: types, gated side    *)
(* effects, the agreement of row and task, and the finality of decisions.  *)
(* They share the inductive invariant IInv of ExecutiveRun.                *)
(***************************************************************************)
EXTENDS ExecutiveRun, FiniteSetTheorems, TLAPS

-----------------------------------------------------------------------------
(* What the policy decision point guarantees, for every action class and at  *)
(* every level.                                                              *)

\* The level decide clamps a request to.
Level(q) == ResolveLevel(q.agentLevel, q.workspaceLevel, ClassFloor(q)).level

\* What an ALLOW says of a side effect that is not a change of the system.
LEMMA AllowMeans ==
    ASSUME NEW q, q.class # "read", q.class # "self_modify",
           Decide(q).verdict = "ALLOW"
    PROVE  \/ q.approval = "granted"
           \/ Level(q) # ConfirmEach
  BY DEF Level, Decide, FailClosed, Decision, BaseVerdict, ConfirmEach, SuggestOnly

\* What a REQUIRE_APPROVAL says: the action is clamped to confirm_each, or it
\* is a change of the system whose evaluation passed.
LEMMA AskMeans ==
    ASSUME NEW q, Decide(q).verdict = "REQUIRE_APPROVAL"
    PROVE  /\ q.class # "read"
           /\ q.class = "self_modify" => q.evalPassed
           /\ q.class # "self_modify" => Level(q) = ConfirmEach
  <1>1. q.class # "read"
    BY DEF Decide, Decision
  <1>2. CASE q.class = "self_modify"
    BY <1>2, <1>1 DEF Decide, Decision, FailClosed, SelfModifyGate
  <1>3. CASE q.class # "self_modify"
    BY <1>3, <1>1 DEF Level, Decide, FailClosed, Decision, BaseVerdict, ConfirmEach, SuggestOnly
  <1>. QED
    BY <1>1, <1>2, <1>3

\* The fields of the request the gate builds.
LEMMA GateFields ==
    ASSUME NEW class, NEW level, NEW killed, NEW approval
    PROVE  LET q == GateRequest(class, level, killed, approval)
           IN  /\ q.class = class
               /\ q.agentLevel = level
               /\ q.workspaceLevel = level
               /\ q.approval = approval
               /\ ~q.evalPassed
               /\ ~q.bigSpend
               /\ ~q.private
  BY DEF GateRequest

\* Where the live gate needs a human, nothing but a granted approval opens it,
\* in any state of the kill switch (agent.pdp_gate.evaluate).
THEOREM OnlyGrantOpens ==
    ASSUME NEW class, NEW level, NEW killed, NEW approval,
           NeedsApproval(class, level),
           Evaluate(class, level, killed, approval) = "ALLOW"
    PROVE  approval = "granted"
  <1>. DEFINE q == GateRequest(class, level, killed, approval)
              o == GateRequest(class, level, "clear", "none")
  <1>1. Decide(o).verdict = "REQUIRE_APPROVAL"
    BY DEF NeedsApproval, Evaluate
  <1>2. Decide(q).verdict = "ALLOW"
    BY DEF Evaluate
  <1>3. /\ o.class = class /\ ~o.evalPassed
        /\ q.class = class /\ q.approval = approval
    BY GateFields
  <1>4. Level(q) = Level(o)
    <2>1. /\ o.class = q.class /\ o.agentLevel = q.agentLevel
          /\ o.workspaceLevel = q.workspaceLevel
      BY GateFields
    <2>2. ~o.bigSpend /\ ~q.bigSpend /\ ~o.private /\ ~q.private
      BY GateFields
    <2>. HIDE DEF q, o
    <2>3. ClassFloor(q) = ClassFloor(o)
      BY <2>1, <2>2 DEF ClassFloor
    <2>. QED
      BY <2>1, <2>3 DEF Level
  <1>. HIDE DEF q, o
  <1>5. class # "read" /\ class # "self_modify" /\ Level(o) = ConfirmEach
    BY <1>1, <1>3, AskMeans
  <1>. QED
    BY <1>2, <1>3, <1>4, <1>5, AllowMeans

\* While the kill switch is engaged or unreadable, only reads are allowed.
THEOREM KillStopsAll ==
    ASSUME NEW class, NEW level, NEW killed, NEW approval,
           killed \in {"set", "unreadable"},
           Evaluate(class, level, killed, approval) = "ALLOW"
    PROVE  class = "read"
  BY DEF Evaluate, GateRequest, Decide, FailClosed, Decision

-----------------------------------------------------------------------------
(* Cursors.                                                                  *)

LEMMA CursorFacts == /\ Cursors \subseteq Nat
                     /\ 0 \in Cursors
                     /\ Cursors \subseteq 0 .. MaxSteps
                     /\ \A c \in Cursors : c + 1 \in 0 .. MaxSteps
                     /\ \A c \in Cursors : c + 1 < MaxSteps => c + 1 \in Cursors
  BY RunnerAssumption DEF Cursors

-----------------------------------------------------------------------------
(* How the records of a run are built                                      *)

LEMMA TaskTypes ==
    /\ \A p \in Places : TaskAt(p) \in Tasks
    /\ \A t \in Tasks, p \in Places : [t EXCEPT !.at = p] \in Tasks
    /\ \A i \in Inputs : [TaskAt("queued") EXCEPT !.input = i] \in Tasks
    /\ \A k \in Classes : [TaskAt("gate") EXCEPT !.class = k] \in Tasks
    /\ \A a \in ApprovalRows :
          [TaskAt("gate") EXCEPT !.class = a.class, !.seen = a.state] \in Tasks
    /\ NoTask \in Tasks
  <1>1. NoTask \in Tasks /\ \A p \in Places : TaskAt(p) \in Tasks
    BY DEF TaskAt, NoTask, Tasks, Places, Inputs, ApprovalStates
  <1>2. \A t \in Tasks, p \in Places : [t EXCEPT !.at = p] \in Tasks
    BY DEF Tasks
  <1>3. "queued" \in Places /\ "gate" \in Places
    BY DEF Places, Holding, InGraph, InAct
  <1>4. \A t \in Tasks : /\ \A i \in Inputs : [t EXCEPT !.input = i] \in Tasks
                         /\ \A k \in Classes : [t EXCEPT !.class = k] \in Tasks
    BY DEF Tasks
  <1>5. \A t \in Tasks, a \in ApprovalRows :
           [t EXCEPT !.class = a.class, !.seen = a.state] \in Tasks
    BY DEF Tasks, ApprovalRows
  <1>. QED
    BY <1>1, <1>2, <1>3, <1>4, <1>5

LEMMA CheckpointTypes ==
    /\ \A n \in {"none", "hydrate", "act", "synthesize", "end"}, c \in 0 .. MaxSteps, b \in BOOLEAN :
          [next |-> n, cursor |-> c, answered |-> b] \in Checkpoints
    /\ \A k \in Checkpoints, n \in {"none", "hydrate", "act", "synthesize", "end"} :
          [k EXCEPT !.next = n] \in Checkpoints
    /\ \A k \in Checkpoints, b \in BOOLEAN : [k EXCEPT !.answered = b] \in Checkpoints
    /\ \A k \in Checkpoints : [k EXCEPT !.answered = TRUE] \in Checkpoints
  BY DEF Checkpoints

LEMMA ApprovalTypes ==
    /\ \A k \in Classes : [state |-> "pending", class |-> k, lapsed |-> FALSE] \in ApprovalRows
    /\ \A a \in ApprovalRows, s \in ApprovalStates : [a EXCEPT !.state = s] \in ApprovalRows
    /\ \A a \in ApprovalRows : [a EXCEPT !.lapsed = TRUE] \in ApprovalRows
    /\ NoApproval \in ApprovalRows
  BY DEF ApprovalRows, ApprovalStates, NoClass, NoApproval

LEMMA GoToType ==
    ASSUME task \in [Runs -> Tasks], NEW r \in Runs, NEW p \in Places, GoTo(r, p)
    PROVE  task' \in [Runs -> Tasks]
  BY TaskTypes DEF GoTo

LEMMA LeaveType ==
    ASSUME task \in [Runs -> Tasks], NEW r \in Runs, NEW p \in Places, Leave(r, p)
    PROVE  task' \in [Runs -> Tasks]
  BY TaskTypes DEF Leave

LEMMA SpawnType ==
    ASSUME task \in [Runs -> Tasks], reg \in [Runs -> {"none", "driver", "tail"}],
           NEW r \in Runs, NEW i \in Inputs, Spawn(r, i)
    PROVE  /\ task' \in [Runs -> Tasks]
           /\ reg' \in [Runs -> {"none", "driver", "tail"}]
  BY TaskTypes DEF Spawn

LEMMA AdvanceType ==
    ASSUME task \in [Runs -> Tasks], ckpt \in [Runs -> Checkpoints],
           NEW r \in Runs, Cursor(r) \in Cursors, Advance(r)
    PROVE  /\ task' \in [Runs -> Tasks]
           /\ ckpt' \in [Runs -> Checkpoints]
  <1>. DEFINE n == Cursor(r) + 1
              next == IF n >= MaxSteps THEN "synthesize" ELSE "act"
  <1>1. n \in 0 .. MaxSteps
    BY CursorFacts
  <1>2. next \in {"none", "hydrate", "act", "synthesize", "end"} /\ next \in Places
    BY DEF Places, Holding, InGraph, InAct
  <1>3. Leave(r, next) /\ ckpt' = [ckpt EXCEPT ![r] = [next |-> next, cursor |-> n, answered |-> FALSE]]
    BY DEF Advance
  <1>. HIDE DEF n, next
  <1>4. [next |-> next, cursor |-> n, answered |-> FALSE] \in Checkpoints
    BY <1>1, <1>2, CheckpointTypes
  <1>. QED
    BY <1>2, <1>3, <1>4, LeaveType

LEMMA CancelTasksType ==
    ASSUME task \in [Runs -> Tasks], reg \in [Runs -> {"none", "driver", "tail"}],
           tails \in [Runs -> Nat], breaks \in [Runs -> Nat], NodeAgrees,
           NEW S \in SUBSET Runs, CancelTasks(S)
    PROVE  /\ task' \in [Runs -> Tasks]
           /\ reg' \in [Runs -> {"none", "driver", "tail"}]
           /\ tails' \in [Runs -> Nat]
           /\ breaks' \in [Runs -> Nat]
  <1>1. task' \in [Runs -> Tasks]
    BY TaskTypes DEF CancelTasks
  <1>2. reg' \in [Runs -> {"none", "driver", "tail"}]
    BY DEF CancelTasks
  <1>3. tails' \in [Runs -> Nat]
    <2>1. \A r \in Runs : reg[r] = "tail" => tails[r] - 1 \in Nat
      BY DEF NodeAgrees
    <2>. QED
      BY <2>1 DEF CancelTasks
  <1>4. breaks' \in [Runs -> Nat]
    BY DEF CancelTasks
  <1>. QED
    BY <1>1, <1>2, <1>3, <1>4

-----------------------------------------------------------------------------
LEMMA InitEstablishes == Init => IInv
  <1>. SUFFICES ASSUME Init PROVE IInv
    OBVIOUS
  <1>1. TypeOK
    <2>1. [next |-> "none", cursor |-> 0, answered |-> FALSE] \in Checkpoints
      BY CheckpointTypes, CursorFacts
    <2>2. ckpt \in [Runs -> Checkpoints] /\ apv \in [Runs -> [Cursors -> ApprovalRows]]
      BY <2>1, ApprovalTypes DEF Init
    <2>3. task \in [Runs -> Tasks]
      BY TaskTypes DEF Init
    <2>4. log \in [Runs -> [Cursors -> Seq(Classes)]]
      <3>1. <<>> \in Seq(Classes)
        OBVIOUS
      <3>. QED
        BY <3>1 DEF Init
    <2>5. faults \in 0 .. MaxFaults /\ kill \in KillStates
      BY RunnerAssumption DEF Init
    <2>6. autonomy \in [Runs -> Autonomies] /\ row \in [Runs -> RowStates]
      BY DEF Init, Autonomies, RowStates
    <2>. QED
      BY <2>2, <2>3, <2>4, <2>5, <2>6 DEF Init, TypeOK
  <1>2. RowMatchesTask /\ NodeAgrees
    BY CursorFacts DEF Init, RowMatchesTask, NodeAgrees, NoTask, TaskAt, InAct
  <1>3. LocalsAgree /\ GatedEffects
    BY DEF Init, LocalsAgree, GatedEffects, NoTask, TaskAt, InAct, NoApproval
  <1>. QED
    BY <1>1, <1>2, <1>3 DEF IInv

\* The types.
LEMMA TypeStep == IInv /\ [Next]_vars => TypeOK'
  <1>. SUFFICES ASSUME IInv, [Next]_vars PROVE TypeOK'
    OBVIOUS
  <1>1. TypeOK /\ NodeAgrees /\ LocalsAgree
    BY DEF IInv
  <1>2. UNCHANGED vars => TypeOK'
    BY <1>1 DEF TypeOK, vars
  <1>3. ASSUME NEW r \in Runs, RunNext(r) PROVE TypeOK'
    <2>0. /\ task[r].at \in InAct => Cursor(r) \in Cursors
          /\ Cursor(r) \in Cursors => Approval(r) \in ApprovalRows
          /\ task[r].at \in InAct \ {"act"} => task[r].class \in Classes
      BY <1>1 DEF NodeAgrees, LocalsAgree, Approval, Cursor, TypeOK
    <2>1. CASE StartRun(r)
      <3>1. task' \in [Runs -> Tasks] /\ reg' \in [Runs -> {"none", "driver", "tail"}]
        BY <2>1, <1>1, SpawnType DEF StartRun, TypeOK, Inputs
      <3>. QED
        BY <2>1, <1>1, <3>1 DEF StartRun, TypeOK, RowStates, env, ghosts
    <2>2. CASE Resume(r)
      <3>1. task' \in [Runs -> Tasks] /\ reg' \in [Runs -> {"none", "driver", "tail"}]
        BY <2>2, <1>1, SpawnType DEF Resume, TypeOK, Inputs
      <3>. QED
        BY <2>2, <1>1, <3>1 DEF Resume, TypeOK, RowStates, env, ghosts
    <2>3. CASE RequestResume(r)
      <3>1. faults' \in 0 .. MaxFaults
        BY <2>3, <1>1, RunnerAssumption DEF RequestResume, Fault, TypeOK
      <3>. QED
        BY <2>3, <1>1, <3>1 DEF RequestResume, TypeOK, db, ghosts
    <2>4. CASE Acquire(r)
      <3>1. task' \in [Runs -> Tasks]
        BY <2>4, <1>1, LeaveType DEF Acquire, TypeOK, Checkpoints, Places, Holding, InGraph, InAct
      <3>2. ckpt' \in [Runs -> Checkpoints]
        <4>1. ckpt[r] \in Checkpoints
          BY <1>1 DEF TypeOK
        <4>2. [ckpt[r] EXCEPT !.next = "hydrate"] \in Checkpoints
          BY <4>1, CheckpointTypes
        <4>3. [ckpt[r] EXCEPT !.answered = TRUE] \in Checkpoints
          BY <4>1, CheckpointTypes
        <4>. QED
          BY <2>4, <1>1, <4>2, <4>3 DEF Acquire, TypeOK
      <3>. QED
        BY <2>4, <1>1, <3>1, <3>2 DEF Acquire, TypeOK, env, ghosts
    <2>5. CASE Hydrate(r)
      <3>1. task' \in [Runs -> Tasks]
        BY <2>5, <1>1, LeaveType DEF Hydrate, TypeOK, Places, Holding, InGraph, InAct
      <3>2. ckpt' \in [Runs -> Checkpoints]
        BY <2>5, <1>1, CheckpointTypes, CursorFacts DEF Hydrate, TypeOK
      <3>. QED
        BY <2>5, <1>1, <3>1, <3>2 DEF Hydrate, TypeOK, env, ghosts
    <2>6. CASE ActReplay(r)
      <3>1. task' \in [Runs -> Tasks] /\ ckpt' \in [Runs -> Checkpoints]
        BY <2>6, <2>0, <1>1, AdvanceType DEF ActReplay, TypeOK, InAct
      <3>. QED
        BY <2>6, <1>1, <3>1 DEF ActReplay, TypeOK, env, ghosts
    <2>7. CASE ActFromApproval(r)
      <3>1. task' \in [Runs -> Tasks]
        BY <2>7, <2>0, <1>1, TaskTypes DEF ActFromApproval, TypeOK, InAct
      <3>. QED
        BY <2>7, <1>1, <3>1 DEF ActFromApproval, TypeOK, db, env, ghosts
    <2>8. CASE ActDecideNothing(r)
      <3>1. task' \in [Runs -> Tasks] /\ ckpt' \in [Runs -> Checkpoints]
        <4>1. [ckpt[r] EXCEPT !.next = "synthesize"] \in Checkpoints
          BY <1>1, CheckpointTypes DEF TypeOK
        <4>2. CASE Advance(r)
          BY <4>2, <2>8, <2>0, <1>1, AdvanceType DEF ActDecideNothing, TypeOK, InAct
        <4>3. CASE /\ ckpt' = [ckpt EXCEPT ![r].next = "synthesize"]
                   /\ Leave(r, "synthesize")
          <5>1. task' \in [Runs -> Tasks]
            BY <4>3, <1>1, LeaveType DEF TypeOK, Places, Holding, InGraph
          <5>. QED
            BY <4>1, <4>3, <5>1, <1>1 DEF TypeOK
        <4>. QED
          BY <2>8, <4>2, <4>3 DEF ActDecideNothing
      <3>. QED
        BY <2>8, <1>1, <3>1 DEF ActDecideNothing, TypeOK, env, ghosts
    <2>9. CASE ActDecide(r)
      <3>1. task' \in [Runs -> Tasks]
        <4>1. PICK k \in Classes : task' = [task EXCEPT ![r] = [TaskAt("gate") EXCEPT !.class = k]]
          BY <2>9 DEF ActDecide
        <4>2. [TaskAt("gate") EXCEPT !.class = k] \in Tasks
          BY TaskTypes
        <4>3. task \in [Runs -> Tasks]
          BY <1>1 DEF TypeOK
        <4>. QED
          BY <4>1, <4>2, <4>3
      <3>. QED
        BY <2>9, <1>1, <3>1 DEF ActDecide, TypeOK, db, env, ghosts
    <2>10. CASE Gate(r)
      <3>1. task' \in [Runs -> Tasks]
        BY <2>10, <2>0, <1>1, AdvanceType, GoToType DEF Gate, TypeOK, Places, Holding, InGraph, InAct
      <3>2. ckpt' \in [Runs -> Checkpoints]
        BY <2>10, <2>0, <1>1, AdvanceType DEF Gate, TypeOK, InAct
      <3>3. apv' \in [Runs -> [Cursors -> ApprovalRows]]
        <4>1. [state |-> "pending", class |-> task[r].class, lapsed |-> FALSE] \in ApprovalRows
          BY <2>10, <2>0, ApprovalTypes DEF Gate, InAct
        <4>2. \/ UNCHANGED apv
              \/ \E a \in ApprovalRows : apv' = [apv EXCEPT ![r][Cursor(r)] = a]
          BY <2>10, <4>1 DEF Gate
        <4>3. \A a \in ApprovalRows : [apv[r] EXCEPT ![Cursor(r)] = a] \in [Cursors -> ApprovalRows]
          BY <1>1 DEF TypeOK
        <4>4. apv \in [Runs -> [Cursors -> ApprovalRows]]
          BY <1>1 DEF TypeOK
        <4>5. ASSUME NEW a \in ApprovalRows, apv' = [apv EXCEPT ![r][Cursor(r)] = a]
              PROVE  apv' \in [Runs -> [Cursors -> ApprovalRows]]
          <5>1. apv' = [apv EXCEPT ![r] = [apv[r] EXCEPT ![Cursor(r)] = a]]
            BY <4>5
          <5>. QED
            BY <4>3, <4>4, <5>1
        <4>. QED
          BY <4>2, <4>4, <4>5
      <3>. QED
        BY <2>10, <1>1, <3>1, <3>2, <3>3 DEF Gate, TypeOK, env, ghosts
    <2>11. CASE Interrupt(r)
      <3>1. task' \in [Runs -> Tasks] /\ ckpt' \in [Runs -> Checkpoints]
        BY <2>11, <2>0, <1>1, AdvanceType, GoToType, LeaveType
           DEF Interrupt, TypeOK, Places, Holding, InGraph, InAct
      <3>. QED
        BY <2>11, <1>1, <3>1 DEF Interrupt, TypeOK, env, ghosts
    <2>12. CASE Regate(r)
      <3>1. task' \in [Runs -> Tasks] /\ ckpt' \in [Runs -> Checkpoints]
        BY <2>12, <2>0, <1>1, AdvanceType, GoToType
           DEF Regate, TypeOK, Places, Holding, InGraph, InAct
      <3>. QED
        BY <2>12, <1>1, <3>1 DEF Regate, TypeOK, env, ghosts
    <2>13. CASE Effect(r)
      <3>1. task' \in [Runs -> Tasks]
        BY <2>13, <1>1, GoToType DEF Effect, TypeOK, Places, Holding, InGraph, InAct
      <3>2. log' \in [Runs -> [Cursors -> Seq(Classes)]]
        BY <2>13, <2>0, <1>1 DEF Effect, TypeOK, InAct
      <3>. QED
        BY <2>13, <1>1, <3>1, <3>2 DEF Effect, TypeOK, db, env
    <2>14. CASE Audit(r)
      <3>1. task' \in [Runs -> Tasks]
        BY <2>14, <1>1, GoToType DEF Audit, TypeOK, Places, Holding, InGraph, InAct
      <3>2. audit' \in [Runs -> [Cursors -> Nat]]
        BY <2>14, <2>0, <1>1 DEF Audit, TypeOK, InAct
      <3>. QED
        BY <2>14, <1>1, <3>1, <3>2 DEF Audit, TypeOK, env, ghosts
    <2>15. CASE ActReturn(r)
      <3>1. task' \in [Runs -> Tasks] /\ ckpt' \in [Runs -> Checkpoints]
        BY <2>15, <2>0, <1>1, AdvanceType DEF ActReturn, TypeOK, InAct
      <3>. QED
        BY <2>15, <1>1, <3>1 DEF ActReturn, TypeOK, env, ghosts
    <2>16. CASE Synthesize(r)
      <3>1. task' \in [Runs -> Tasks] /\ ckpt' \in [Runs -> Checkpoints]
        BY <2>16, <1>1, LeaveType, CheckpointTypes DEF Synthesize, TypeOK, Places
      <3>. QED
        BY <2>16, <1>1, <3>1 DEF Synthesize, TypeOK, env, ghosts
    <2>17. CASE Park(r)
      <3>1. task' \in [Runs -> Tasks]
        BY <2>17, <1>1, LeaveType DEF Park, TypeOK, Places
      <3>. QED
        BY <2>17, <1>1, <3>1 DEF Park, TypeOK, RowStates, env, ghosts
    <2>18. CASE Finish(r)
      <3>1. task' \in [Runs -> Tasks]
        BY <2>18, <1>1, LeaveType DEF Finish, TypeOK, Places, Holding
      <3>. QED
        BY <2>18, <1>1, <3>1 DEF Finish, TypeOK, RowStates, env, ghosts
    <2>19. CASE HookDone(r)
      <3>1. task' \in [Runs -> Tasks]
        BY <2>19, <1>1, LeaveType DEF HookDone, TypeOK, Places
      <3>. QED
        BY <2>19, <1>1, <3>1 DEF HookDone, TypeOK, db, env, ghosts
    <2>20. CASE NodeError(r)
      <3>1. task' \in [Runs -> Tasks]
        BY <2>20, <1>1, LeaveType DEF NodeError, TypeOK, Places, Holding
      <3>2. faults' \in 0 .. MaxFaults
        BY <2>20, <1>1, RunnerAssumption DEF NodeError, Fault, TypeOK
      <3>. QED
        BY <2>20, <1>1, <3>1, <3>2 DEF NodeError, TypeOK, db
    <2>21. CASE TailDone(r)
      BY <2>21, <1>1 DEF TailDone, TypeOK, db, env, ghosts
    <2>22. CASE CancelTask(r)
      <3>1. CancelTasks({r}) /\ faults' \in 0 .. MaxFaults
        BY <2>22, <1>1, RunnerAssumption DEF CancelTask, Fault, TypeOK
      <3>2. /\ task' \in [Runs -> Tasks] /\ reg' \in [Runs -> {"none", "driver", "tail"}]
            /\ tails' \in [Runs -> Nat] /\ breaks' \in [Runs -> Nat]
        BY <3>1, <1>1, CancelTasksType DEF TypeOK
      <3>. QED
        BY <2>22, <1>1, <3>1, <3>2 DEF CancelTask, TypeOK, db
    <2>23. CASE CancelRow(r)
      BY <2>23, <1>1 DEF CancelRow, TypeOK, RowStates, env, ghosts
    <2>24. CASE Lapse(r)
      BY <2>24, <1>1, ApprovalTypes DEF Lapse, TypeOK, Approval, Cursor, mem, env, ghosts
    <2>25. ASSUME NEW c \in Cursors, NEW d \in {"granted", "denied"}, DecideApproval(r, c, d)
           PROVE  TypeOK'
      <3>1. apv' \in [Runs -> [Cursors -> ApprovalRows]]
        BY <2>25, <1>1, ApprovalTypes DEF DecideApproval, TypeOK, ApprovalStates
      <3>. QED
        BY <2>25, <1>1, <3>1 DEF DecideApproval, TypeOK, env, ghosts
    <2>. QED
      BY <1>3, <2>1, <2>2, <2>3, <2>4, <2>5, <2>6, <2>7, <2>8, <2>9, <2>10, <2>11, <2>12, <2>13,
         <2>14, <2>15, <2>16, <2>17, <2>18, <2>19, <2>20, <2>21, <2>22, <2>23, <2>24, <2>25
      DEF RunNext, Drive
  <1>4. CASE ExpireApprovals
    <2>1. apv' \in [Runs -> [Cursors -> ApprovalRows]]
      BY <1>4, <1>1, ApprovalTypes DEF ExpireApprovals, TypeOK, ApprovalStates
    <2>. QED
      BY <1>4, <1>1, <2>1 DEF ExpireApprovals, TypeOK, mem, env, ghosts
  <1>5. CASE KillChange
    BY <1>5, <1>1 DEF KillChange, TypeOK, db, mem
  <1>6. CASE Stop
    <2>1. CancelTasks(Runs) /\ faults' \in 0 .. MaxFaults
      BY <1>6, <1>1, RunnerAssumption DEF Stop, Fault, TypeOK
    <2>2. /\ task' \in [Runs -> Tasks] /\ reg' \in [Runs -> {"none", "driver", "tail"}]
          /\ tails' \in [Runs -> Nat] /\ breaks' \in [Runs -> Nat]
      BY <2>1, <1>1, CancelTasksType DEF TypeOK
    <2>. QED
      BY <1>6, <1>1, <2>1, <2>2 DEF Stop, TypeOK, db
  <1>7. CASE Crash \/ Exit
    <2>1. ProcessEnds /\ faults' \in 0 .. MaxFaults
      BY <1>7, <1>1, RunnerAssumption DEF Crash, Exit, Fault, TypeOK
    <2>. QED
      <3>0. task' \in [Runs -> Tasks]
        BY <2>1, TaskTypes DEF ProcessEnds
      <3>1. breaks' \in [Runs -> Nat]
        BY <2>1, <1>1 DEF ProcessEnds, TypeOK
      <3>2. /\ reg' \in [Runs -> {"none", "driver", "tail"}] /\ tails' \in [Runs -> Nat]
            /\ wake' \in [Runs -> BOOLEAN] /\ cancelling' \in [Runs -> BOOLEAN]
            /\ up' \in {"up", "draining"} \cup Gone
        BY <2>1, <1>7 DEF ProcessEnds, Crash, Exit, Gone
      <3>. QED
        BY <2>1, <1>1, <3>0, <3>1, <3>2 DEF ProcessEnds, TypeOK, db
  <1>8. CASE Boot
    <2>1. task' \in [Runs -> Tasks]
      BY <1>8, TaskTypes DEF Boot, Inputs
    <2>2. ckpt' \in [Runs -> Checkpoints]
      <3>1. PICK kept \in BOOLEAN :
              ckpt' = [r \in Runs |-> [ckpt[r] EXCEPT !.answered = @ /\ kept]]
        BY <1>8 DEF Boot
      <3>2. ASSUME NEW r \in Runs PROVE [ckpt[r] EXCEPT !.answered = @ /\ kept] \in Checkpoints
        <4>1. ckpt[r] \in Checkpoints
          BY <1>1 DEF TypeOK
        <4>2. CASE kept
          <5>1. [ckpt[r] EXCEPT !.answered = @ /\ kept] = [ckpt[r] EXCEPT !.answered = @]
            BY <4>1, <4>2 DEF Checkpoints
          <5>. QED
            BY <4>1, <5>1 DEF Checkpoints
        <4>3. CASE ~ kept
          <5>1. [ckpt[r] EXCEPT !.answered = @ /\ kept] = [ckpt[r] EXCEPT !.answered = FALSE]
            BY <4>3
          <5>. QED
            BY <4>1, <5>1 DEF Checkpoints
        <4>. QED
          BY <3>1, <4>2, <4>3
      <3>. QED
        BY <3>1, <3>2
    <2>. QED
      BY <1>8, <1>1, <2>1, <2>2 DEF Boot, TypeOK, ghosts
  <1>. QED
    BY <1>2, <1>3, <1>4, <1>5, <1>6, <1>7, <1>8 DEF Next

-----------------------------------------------------------------------------
(* Where a task is after its step                                          *)

LEMMA GoToEffect ==
    ASSUME task \in [Runs -> Tasks], NEW r \in Runs, NEW p, GoTo(r, p)
    PROVE  /\ task'[r].at = p
           /\ task'[r].class = task[r].class
           /\ \A s \in Runs \ {r} : task'[s] = task[s]
  BY DEF GoTo, Tasks

LEMMA LeaveEffect ==
    ASSUME task \in [Runs -> Tasks], NEW r \in Runs, NEW p, Leave(r, p)
    PROVE  /\ task'[r].at = p
           /\ \A s \in Runs \ {r} : task'[s] = task[s]
  BY DEF Leave, TaskAt

LEMMA SpawnEffect ==
    ASSUME task \in [Runs -> Tasks], reg \in [Runs -> {"none", "driver", "tail"}],
           NEW r \in Runs, NEW i, Spawn(r, i)
    PROVE  /\ task'[r].at = "queued"
           /\ task'[r].input = i
           /\ reg'[r] = "driver"
           /\ \A s \in Runs \ {r} : task'[s] = task[s] /\ reg'[s] = reg[s]
  BY DEF Spawn, TaskAt

LEMMA AdvanceEffect ==
    ASSUME task \in [Runs -> Tasks], ckpt \in [Runs -> Checkpoints],
           NEW r \in Runs, Cursor(r) \in Cursors, Advance(r)
    PROVE  /\ task'[r].at \in {"act", "synthesize"}
           /\ ckpt'[r].next = task'[r].at
           /\ ckpt'[r].next = "act" => ckpt'[r].cursor \in Cursors
           /\ \A s \in Runs \ {r} : task'[s] = task[s] /\ ckpt'[s] = ckpt[s]
  <1>. DEFINE n == Cursor(r) + 1
              next == IF n >= MaxSteps THEN "synthesize" ELSE "act"
  <1>1. next = "act" => n \in Cursors
    BY CursorFacts, RunnerAssumption DEF Cursors
  <1>2. Leave(r, next) /\ ckpt' = [ckpt EXCEPT ![r] = [next |-> next, cursor |-> n, answered |-> FALSE]]
    BY DEF Advance
  <1>3. next \in {"act", "synthesize"}
    OBVIOUS
  <1>. HIDE DEF n, next
  <1>. QED
    BY <1>1, <1>2, <1>3, LeaveEffect

\* The driving task stays where its row and its checkpoint say.
Agrees(r) ==
    /\ row[r] \in {"none", "parked"} => task[r].at = "none"
    /\ row[r] = "running" /\ up = "up" => task[r].at # "none" \/ cancelling[r]
    /\ ckpt[r].next = "act" => ckpt[r].cursor \in Cursors
    /\ task[r].at \in InAct \cup {"parking"} => ckpt[r].next = "act"
    /\ task[r].at = "queued" /\ task[r].input = "wake" => ckpt[r].next = "act"
    /\ row[r] = "parked" => ckpt[r].next = "act"
    /\ task[r].at \in {"hook", "hookHeld"} => row[r] \in {"completed", "failed"}
    /\ reg[r] = "tail" => tails[r] > 0

LEMMA AgreesIs == RowMatchesTask /\ NodeAgrees <=> \A r \in Runs : Agrees(r)
  BY DEF RowMatchesTask, NodeAgrees, Agrees, Cursor

LEMMA AgreesFrame ==
    ASSUME NEW r \in Runs, Agrees(r), up' = up, row'[r] = row[r], task'[r] = task[r],
           ckpt'[r] = ckpt[r], reg'[r] = reg[r], tails'[r] = tails[r],
           cancelling'[r] = cancelling[r]
    PROVE  Agrees(r)'
  BY DEF Agrees

\* A step of one run's own task.
LEMMA AgreesDrive ==
    ASSUME TypeOK, NEW r \in Runs, \A s \in Runs : Agrees(s), Drive(r)
    PROVE  \A s \in Runs : Agrees(s)'
  <1>1. /\ task \in [Runs -> Tasks] /\ ckpt \in [Runs -> Checkpoints] /\ row \in [Runs -> RowStates]
        /\ reg \in [Runs -> {"none", "driver", "tail"}] /\ tails \in [Runs -> Nat]
    BY DEF TypeOK
  <1>2. Agrees(r) /\ (task[r].at \in InAct => Cursor(r) \in Cursors)
    BY DEF Agrees, Cursor
  <1>3. up' = up /\ UNCHANGED cancelling
    BY DEF Drive, Hydrate, ActReplay, ActFromApproval, ActDecideNothing, ActDecide, Gate, Interrupt,
       Regate, Effect, Audit, ActReturn, Synthesize, Park, Finish, HookDone, db, env
  <1>4. ASSUME Advance(r), task[r].at \in InAct, UNCHANGED <<row, reg, tails>>
        PROVE  \A s \in Runs : Agrees(s)'
    <2>1. Agrees(r)'
      BY <1>1, <1>2, <1>3, <1>4, AdvanceEffect DEF Agrees, InAct
    <2>2. ASSUME NEW s \in Runs \ {r} PROVE Agrees(s)'
      BY <1>1, <1>2, <1>3, <1>4, AdvanceEffect, AgreesFrame
    <2>. QED
      BY <2>1, <2>2
  <1>5. ASSUME NEW p \in InAct \cup {"parking"}, GoTo(r, p) \/ Leave(r, p),
               task[r].at \in InAct, UNCHANGED <<row, ckpt, reg, tails>>
        PROVE  \A s \in Runs : Agrees(s)'
    <2>1. task'[r].at = p /\ \A s \in Runs \ {r} : task'[s] = task[s]
      BY <1>1, <1>5, GoToEffect, LeaveEffect
    <2>2. Agrees(r)'
      BY <1>2, <1>3, <1>5, <2>1 DEF Agrees, InAct
    <2>3. ASSUME NEW s \in Runs \ {r} PROVE Agrees(s)'
      BY <1>3, <1>5, <2>1, AgreesFrame
    <2>. QED
      BY <2>2, <2>3
  <1>6. CASE Hydrate(r)
    <2>1. /\ task'[r].at = "act" /\ ckpt'[r].next = "act" /\ ckpt'[r].cursor = 0
          /\ \A s \in Runs \ {r} : task'[s] = task[s] /\ ckpt'[s] = ckpt[s]
      BY <1>1, <1>6, LeaveEffect DEF Hydrate
    <2>2. UNCHANGED <<row, reg, tails>> /\ task[r].at = "hydrate"
      BY <1>6 DEF Hydrate
    <2>3. Agrees(r)'
      BY <1>2, <1>3, <2>1, <2>2, CursorFacts DEF Agrees
    <2>. QED
      BY <1>3, <2>1, <2>2, <2>3, AgreesFrame
  <1>7. CASE ActReplay(r)
    BY <1>7, <1>4 DEF ActReplay, InAct
  <1>8. CASE ActFromApproval(r)
    <2>1. task'[r].at = "gate" /\ \A s \in Runs \ {r} : task'[s] = task[s]
      BY <1>1, <1>8 DEF ActFromApproval, TaskAt
    <2>2. UNCHANGED <<row, ckpt, reg, tails>> /\ task[r].at = "act"
      BY <1>8 DEF ActFromApproval, db
    <2>3. Agrees(r)'
      BY <1>2, <1>3, <2>1, <2>2 DEF Agrees, InAct
    <2>. QED
      BY <1>3, <2>1, <2>2, <2>3, AgreesFrame
  <1>9. CASE ActDecideNothing(r)
    <2>1. CASE Advance(r)
      BY <1>9, <2>1, <1>4 DEF ActDecideNothing, InAct
    <2>2. CASE /\ ckpt' = [ckpt EXCEPT ![r].next = "synthesize"]
               /\ Leave(r, "synthesize")
      <3>1. /\ task'[r].at = "synthesize" /\ ckpt'[r].next = "synthesize"
            /\ \A s \in Runs \ {r} : task'[s] = task[s] /\ ckpt'[s] = ckpt[s]
        BY <1>1, <2>2, LeaveEffect DEF Checkpoints
      <3>2. UNCHANGED <<row, reg, tails>> /\ task[r].at = "act"
        BY <1>9 DEF ActDecideNothing
      <3>3. Agrees(r)'
        BY <1>2, <1>3, <3>1, <3>2 DEF Agrees, InAct
      <3>. QED
        BY <1>3, <3>1, <3>2, <3>3, AgreesFrame
    <2>. QED
      BY <1>9, <2>1, <2>2 DEF ActDecideNothing
  <1>10. CASE ActDecide(r)
    <2>1. task'[r].at = "gate" /\ \A s \in Runs \ {r} : task'[s] = task[s]
      BY <1>1, <1>10 DEF ActDecide, TaskAt
    <2>2. UNCHANGED <<row, ckpt, reg, tails>> /\ task[r].at = "act"
      BY <1>10 DEF ActDecide, db
    <2>3. Agrees(r)'
      BY <1>2, <1>3, <2>1, <2>2 DEF Agrees, InAct
    <2>. QED
      BY <1>3, <2>1, <2>2, <2>3, AgreesFrame
  <1>11. CASE Gate(r)
    <2>1. task[r].at \in InAct /\ UNCHANGED <<row, reg, tails>>
      BY <1>11 DEF Gate, InAct
    <2>2. \/ Advance(r)
          \/ UNCHANGED ckpt /\ \E p \in {"effect", "interrupt", "regate"} : GoTo(r, p)
      BY <1>11 DEF Gate
    <2>. QED
      BY <2>1, <2>2, <1>4, <1>5 DEF InAct
  <1>12. CASE Interrupt(r)
    <2>1. task[r].at \in InAct /\ UNCHANGED <<row, reg, tails>>
      BY <1>12 DEF Interrupt, InAct
    <2>2. \/ Advance(r)
          \/ UNCHANGED ckpt /\ (GoTo(r, "regate") \/ Leave(r, "parking"))
      BY <1>12 DEF Interrupt
    <2>. QED
      BY <2>1, <2>2, <1>4, <1>5 DEF InAct
  <1>13. CASE Regate(r)
    <2>1. task[r].at \in InAct /\ UNCHANGED <<row, reg, tails>>
      BY <1>13 DEF Regate, InAct
    <2>2. Advance(r) \/ (UNCHANGED ckpt /\ GoTo(r, "effect"))
      BY <1>13 DEF Regate
    <2>. QED
      BY <2>1, <2>2, <1>4, <1>5 DEF InAct
  <1>14. CASE Effect(r)
    BY <1>14, <1>5 DEF Effect, InAct, db
  <1>15. CASE Audit(r)
    BY <1>15, <1>5 DEF Audit, InAct
  <1>16. CASE ActReturn(r)
    BY <1>16, <1>4 DEF ActReturn, InAct
  <1>17. CASE Synthesize(r)
    <2>1. /\ task'[r].at = "finishing" /\ ckpt'[r].next = "end"
          /\ \A s \in Runs \ {r} : task'[s] = task[s] /\ ckpt'[s] = ckpt[s]
      BY <1>1, <1>17, LeaveEffect DEF Synthesize, Checkpoints
    <2>2. UNCHANGED <<row, reg, tails>> /\ task[r].at = "synthesize"
      BY <1>17 DEF Synthesize
    <2>3. Agrees(r)'
      BY <1>2, <1>3, <2>1, <2>2 DEF Agrees, InAct
    <2>. QED
      BY <1>3, <2>1, <2>2, <2>3, AgreesFrame
  <1>18. CASE Park(r)
    <2>1. /\ task'[r].at = "none" /\ task[r].at = "parking" /\ UNCHANGED ckpt
          /\ \A s \in Runs \ {r} : task'[s] = task[s]
      BY <1>1, <1>18, LeaveEffect DEF Park
    <2>2. /\ row'[r] = IF row[r] = "running" THEN "parked" ELSE row[r]
          /\ tails'[r] > 0
          /\ \A s \in Runs \ {r} : row'[s] = row[s] /\ reg'[s] = reg[s] /\ tails'[s] = tails[s]
      BY <1>1, <1>18 DEF Park
    <2>3. Agrees(r)'
      BY <1>2, <1>3, <2>1, <2>2 DEF Agrees, InAct
    <2>. QED
      BY <1>3, <2>1, <2>2, <2>3, AgreesFrame
  <1>19. CASE Finish(r)
    <2>1. /\ task[r].at \in {"finishing", "failing"} /\ UNCHANGED <<ckpt, reg, tails>>
          /\ task'[r].at \in {"hook", "hookHeld"}
          /\ \A s \in Runs \ {r} : task'[s] = task[s]
      BY <1>1, <1>19, LeaveEffect DEF Finish
    <2>2. row'[r] \in {"completed", "failed"} /\ \A s \in Runs \ {r} : row'[s] = row[s]
      BY <1>1, <1>19 DEF Finish
    <2>3. Agrees(r)'
      BY <1>2, <1>3, <2>1, <2>2 DEF Agrees, InAct
    <2>. QED
      BY <1>3, <2>1, <2>2, <2>3, AgreesFrame
  <1>20. CASE HookDone(r)
    <2>1. /\ task[r].at \in {"hook", "hookHeld"} /\ UNCHANGED <<row, ckpt, tails>>
          /\ task'[r].at = "none" /\ reg'[r] = "none"
          /\ \A s \in Runs \ {r} : task'[s] = task[s] /\ reg'[s] = reg[s]
      BY <1>1, <1>20, LeaveEffect DEF HookDone, db
    <2>2. Agrees(r)'
      BY <1>2, <1>3, <2>1 DEF Agrees, InAct
    <2>. QED
      BY <1>3, <2>1, <2>2, AgreesFrame
  <1>. QED
    BY <1>6, <1>7, <1>8, <1>9, <1>10, <1>11, <1>12, <1>13, <1>14, <1>15, <1>16, <1>17, <1>18,
       <1>19, <1>20 DEF Drive

\* A step of the runner around the tasks, of the user, of the process.
LEMMA AgreesStep == IInv /\ [Next]_vars => (RowMatchesTask /\ NodeAgrees)'
  <1>. SUFFICES ASSUME IInv, [Next]_vars PROVE \A s \in Runs : Agrees(s)'
    BY DEF RowMatchesTask, NodeAgrees, Agrees, Cursor
  <1>1. /\ task \in [Runs -> Tasks] /\ ckpt \in [Runs -> Checkpoints] /\ row \in [Runs -> RowStates]
        /\ reg \in [Runs -> {"none", "driver", "tail"}] /\ tails \in [Runs -> Nat]
        /\ wake \in [Runs -> BOOLEAN] /\ cancelling \in [Runs -> BOOLEAN]
    BY DEF IInv, TypeOK
  <1>2. \A s \in Runs : Agrees(s)
    BY AgreesIs DEF IInv
  <1>3. UNCHANGED <<row, task, ckpt, reg, tails, cancelling, up>> => \A s \in Runs : Agrees(s)'
    BY <1>2, AgreesFrame
  <1>4. ASSUME NEW r \in Runs, RunNext(r) PROVE \A s \in Runs : Agrees(s)'
    <2>1. CASE StartRun(r)
      <3>1. /\ row[r] = "none" /\ row'[r] = "running" /\ task'[r].at = "queued"
            /\ task'[r].input = "initial" /\ reg'[r] = "driver"
            /\ UNCHANGED <<ckpt, tails, cancelling, up>>
            /\ \A s \in Runs \ {r} : row'[s] = row[s] /\ task'[s] = task[s] /\ reg'[s] = reg[s]
        BY <1>1, <2>1, SpawnEffect DEF StartRun, env
      <3>2. Agrees(r)'
        BY <1>2, <3>1 DEF Agrees, InAct
      <3>. QED
        BY <1>2, <3>1, <3>2, AgreesFrame
    <2>2. CASE Resume(r)
      <3>1. UNCHANGED <<ckpt, tails, cancelling, up>>
        BY <2>2 DEF Resume, env
      <3>2. CASE row[r] = "parked" /\ row' = [row EXCEPT ![r] = "running"] /\ Spawn(r, "wake")
        <4>1. /\ row'[r] = "running" /\ task'[r].at = "queued" /\ reg'[r] = "driver"
              /\ \A s \in Runs \ {r} : row'[s] = row[s] /\ task'[s] = task[s] /\ reg'[s] = reg[s]
          BY <1>1, <3>2, SpawnEffect
        <4>2. Agrees(r)'
          BY <1>2, <3>1, <3>2, <4>1 DEF Agrees, InAct
        <4>. QED
          BY <1>2, <3>1, <4>1, <4>2, AgreesFrame
      <3>3. CASE UNCHANGED <<row, task, reg>>
        BY <3>1, <3>3, <1>3
      <3>. QED
        BY <2>2, <3>2, <3>3 DEF Resume
    <2>3. CASE RequestResume(r)
      BY <2>3, <1>3 DEF RequestResume, db
    <2>4. CASE Acquire(r)
      <3>1. task[r].at = "queued" /\ UNCHANGED <<row, reg, tails, cancelling, up>>
        BY <2>4 DEF Acquire, env
      <3>2. CASE ckpt' = [ckpt EXCEPT ![r].next = "hydrate"] /\ Leave(r, "hydrate")
        <4>1. /\ task'[r].at = "hydrate" /\ ckpt'[r].next = "hydrate"
              /\ \A s \in Runs \ {r} : task'[s] = task[s] /\ ckpt'[s] = ckpt[s]
          BY <1>1, <3>2, LeaveEffect DEF Checkpoints
        <4>2. Agrees(r)'
          BY <1>2, <3>1, <4>1 DEF Agrees, InAct
        <4>. QED
          BY <1>2, <3>1, <4>1, <4>2, AgreesFrame
      <3>3. CASE /\ task[r].input = "wake"
                 /\ ckpt' = [ckpt EXCEPT ![r].answered = TRUE] /\ Leave(r, "act")
        <4>1. /\ task'[r].at = "act" /\ ckpt'[r].next = ckpt[r].next
              /\ ckpt'[r].cursor = ckpt[r].cursor
              /\ \A s \in Runs \ {r} : task'[s] = task[s] /\ ckpt'[s] = ckpt[s]
          BY <1>1, <3>3, LeaveEffect DEF Checkpoints
        <4>2. Agrees(r)'
          BY <1>2, <3>1, <3>3, <4>1 DEF Agrees, InAct
        <4>. QED
          BY <1>2, <3>1, <4>1, <4>2, AgreesFrame
      <3>4. CASE UNCHANGED ckpt /\ Leave(r, CASE ckpt[r].next = "none" -> "failing"
                                              [] ckpt[r].next = "end" -> "finishing"
                                              [] OTHER -> ckpt[r].next)
        <4>1. \A s \in Runs \ {r} : task'[s] = task[s]
          BY <1>1, <3>4, LeaveEffect
        <4>2. /\ task'[r].at \in {"failing", "finishing", "hydrate", "act", "synthesize"}
              /\ task'[r].at = "act" => ckpt[r].next = "act"
          BY <1>1, <3>4, LeaveEffect DEF Checkpoints
        <4>3. Agrees(r)'
          BY <1>2, <3>1, <3>4, <4>2 DEF Agrees, InAct
        <4>. QED
          BY <1>2, <3>1, <3>4, <4>1, <4>3, AgreesFrame
      <3>. QED
        BY <2>4, <3>2, <3>3, <3>4 DEF Acquire
    <2>5. CASE Drive(r)
      BY <2>5, <1>2, AgreesDrive DEF IInv
    <2>6. CASE NodeError(r)
      <3>1. /\ task[r].at \in InGraph /\ task'[r].at = "failing"
            /\ UNCHANGED <<row, ckpt, reg, tails, cancelling, up>>
            /\ \A s \in Runs \ {r} : task'[s] = task[s]
        BY <1>1, <2>6, LeaveEffect DEF NodeError, db
      <3>2. Agrees(r)'
        BY <1>2, <3>1 DEF Agrees, InGraph, InAct
      <3>. QED
        BY <1>2, <3>1, <3>2, AgreesFrame
    <2>7. CASE TailDone(r)
      <3>1. /\ reg'[r] = "none" /\ UNCHANGED <<row, ckpt, task, cancelling, up>>
            /\ \A s \in Runs \ {r} : reg'[s] = reg[s] /\ tails'[s] = tails[s]
        BY <1>1, <2>7 DEF TailDone, db, env
      <3>2. Agrees(r)'
        BY <1>2, <3>1 DEF Agrees
      <3>. QED
        BY <1>2, <3>1, <3>2, AgreesFrame
    <2>8. CASE CancelTask(r)
      <3>1. /\ cancelling'[r] = TRUE /\ UNCHANGED <<row, ckpt, up>>
            /\ \A s \in Runs \ {r} : cancelling'[s] = cancelling[s]
        BY <1>1, <2>8 DEF CancelTask, db
      <3>2. /\ task'[r].at = "none" \/ task'[r] = task[r]
            /\ reg'[r] = "none"
            /\ \A s \in Runs \ {r} : task'[s] = task[s] /\ reg'[s] = reg[s] /\ tails'[s] = tails[s]
        BY <2>8 DEF CancelTask, CancelTasks, NoTask, TaskAt
      <3>3. Agrees(r)'
        <4>1. CASE task'[r].at = "none"
          BY <4>1, <1>2, <3>1, <3>2 DEF Agrees, InAct
        <4>2. CASE task'[r] = task[r]
          BY <4>2, <1>2, <3>1, <3>2 DEF Agrees
        <4>. QED
          BY <3>2, <4>1, <4>2
      <3>. QED
        BY <1>2, <3>1, <3>2, <3>3, AgreesFrame
    <2>9. CASE CancelRow(r)
      <3>1. /\ row'[r] = IF row[r] \in {"running", "parked"} THEN "cancelled" ELSE row[r]
            /\ UNCHANGED <<ckpt, task, reg, tails, up>>
            /\ \A s \in Runs \ {r} : row'[s] = row[s] /\ cancelling'[s] = cancelling[s]
        BY <1>1, <2>9 DEF CancelRow, env
      <3>2. Agrees(r)'
        BY <1>2, <3>1 DEF Agrees
      <3>. QED
        BY <1>2, <3>1, <3>2, AgreesFrame
    <2>10. CASE Lapse(r)
      BY <2>10, <1>3 DEF Lapse, mem, env
    <2>11. CASE \E c \in Cursors, d \in {"granted", "denied"} : DecideApproval(r, c, d)
      BY <2>11, <1>3 DEF DecideApproval, env
    <2>. QED
      BY <1>4, <2>1, <2>2, <2>3, <2>4, <2>5, <2>6, <2>7, <2>8, <2>9, <2>10, <2>11 DEF RunNext
  <1>5. CASE UNCHANGED vars
    BY <1>5, <1>3 DEF vars
  <1>6. CASE ExpireApprovals
    BY <1>6, <1>3 DEF ExpireApprovals, mem, env
  <1>7. CASE KillChange
    BY <1>7, <1>3 DEF KillChange, mem, db
  <1>8. CASE Stop
    <2>1. UNCHANGED <<row, ckpt, cancelling>> /\ up' = "draining" /\ CancelTasks(Runs)
      BY <1>8 DEF Stop, db
    <2>2. ASSUME NEW s \in Runs PROVE Agrees(s)'
      <3>1. reg'[s] = "none" /\ (task'[s].at = "none" \/ task'[s] = task[s])
        BY <2>1 DEF CancelTasks, NoTask, TaskAt
      <3>. QED
        BY <1>2, <2>1, <3>1 DEF Agrees, InAct
    <2>. QED
      BY <2>2
  <1>9. CASE Crash \/ Exit
    <2>1. ProcessEnds
      BY <1>9 DEF Crash, Exit
    <2>2. ASSUME NEW s \in Runs PROVE Agrees(s)'
      <3>1. task'[s].at = "none" /\ reg'[s] = "none" /\ UNCHANGED <<row, ckpt>> /\ up' \in Gone
        BY <1>9, <2>1 DEF Crash, Exit, Gone, ProcessEnds, NoTask, TaskAt, db
      <3>. QED
        BY <1>2, <3>1 DEF Agrees, InAct, Gone
    <2>. QED
      BY <2>2
  <1>10. CASE Boot
    <2>1. ASSUME NEW s \in Runs PROVE Agrees(s)'
      <3>1. /\ UNCHANGED <<row, tails, cancelling>> /\ reg'[s] \in {"none", "driver"}
            /\ row[s] = "running" => task'[s].at = "queued" /\ task'[s].input = "checkpoint"
            /\ row[s] # "running" => task'[s].at = "none"
        BY <1>10 DEF Boot, NoTask, TaskAt
      <3>2. ckpt'[s].next = ckpt[s].next /\ ckpt'[s].cursor = ckpt[s].cursor
        BY <1>1, <1>10 DEF Boot, Checkpoints
      <3>. QED
        BY <1>2, <3>1, <3>2 DEF Agrees, InAct
    <2>. QED
      BY <2>1
  <1>. QED
    BY <1>4, <1>5, <1>6, <1>7, <1>8, <1>9, <1>10 DEF Next

-----------------------------------------------------------------------------
(* Approvals: what the act node knows, and what it may do                  *)

\* Created approvals keep their class and decided ones their state.
Final(r, c) == apv[r][c].state # "none" =>
                  /\ apv'[r][c].class = apv[r][c].class
                  /\ apv[r][c].state # "pending" => apv'[r][c].state = apv[r][c].state

\* How an approval row changes in one step: created at the cursor of a task in
\* its gate, or decided, lapsed or expired.
LEMMA ApprovalSteps == IInv /\ [Next]_vars =>
    \/ UNCHANGED apv
    \/ \E r \in Runs : /\ task[r].at = "gate" /\ task[r].seen = "none"
                       /\ task'[r].at = "interrupt"
                       /\ UNCHANGED log
                       /\ apv' = [apv EXCEPT ![r][Cursor(r)] =
                             [state |-> "pending", class |-> task[r].class, lapsed |-> FALSE]]
    \/ /\ UNCHANGED <<row, autonomy, ckpt, task, log>>
       /\ \A r \in Runs, c \in Cursors : apv'[r][c].class = apv[r][c].class
       /\ \A r \in Runs, c \in Cursors :
             apv[r][c].state # "pending" => apv'[r][c].state = apv[r][c].state
       /\ \A r \in Runs, c \in Cursors : apv'[r][c].state = "none" <=> apv[r][c].state = "none"
  <1>. SUFFICES ASSUME IInv, [Next]_vars, ~ UNCHANGED apv
       PROVE  \/ \E r \in Runs : /\ task[r].at = "gate" /\ task[r].seen = "none"
                       /\ task'[r].at = "interrupt"
                       /\ UNCHANGED log
                       /\ apv' = [apv EXCEPT ![r][Cursor(r)] =
                             [state |-> "pending", class |-> task[r].class, lapsed |-> FALSE]]
              \/ /\ UNCHANGED <<row, autonomy, ckpt, task, log>>
                 /\ \A r \in Runs, c \in Cursors : apv'[r][c].class = apv[r][c].class
                 /\ \A r \in Runs, c \in Cursors :
                       apv[r][c].state # "pending" => apv'[r][c].state = apv[r][c].state
                 /\ \A r \in Runs, c \in Cursors : apv'[r][c].state = "none" <=> apv[r][c].state = "none"
    OBVIOUS
  <1>1. /\ apv \in [Runs -> [Cursors -> ApprovalRows]] /\ task \in [Runs -> Tasks]
    BY DEF IInv, TypeOK
  <1>2. ASSUME NEW r \in Runs, Gate(r)
        PROVE  /\ task[r].at = "gate" /\ task[r].seen = "none"
               /\ task'[r].at = "interrupt"
               /\ UNCHANGED log
               /\ apv' = [apv EXCEPT ![r][Cursor(r)] =
                             [state |-> "pending", class |-> task[r].class, lapsed |-> FALSE]]
    BY <1>1, <1>2, GoToEffect DEF Gate, ghosts
  <1>3. ASSUME NEW r \in Runs, Lapse(r)
        PROVE  /\ UNCHANGED <<row, autonomy, ckpt, task, log>>
               /\ \A s \in Runs, c \in Cursors : /\ apv'[s][c].class = apv[s][c].class
                                                 /\ apv'[s][c].state = apv[s][c].state
    BY <1>1, <1>3 DEF Lapse, mem, ghosts, ApprovalRows
  <1>4. ASSUME NEW r \in Runs, NEW k \in Cursors, NEW d \in {"granted", "denied"},
               DecideApproval(r, k, d)
        PROVE  /\ UNCHANGED <<row, autonomy, ckpt, task, log>>
               /\ apv[r][k].state = "pending"
               /\ apv'[r][k].state = d
               /\ \A s \in Runs, c \in Cursors :
                     /\ apv'[s][c].class = apv[s][c].class
                     /\ s # r \/ c # k => apv'[s][c].state = apv[s][c].state
    BY <1>1, <1>4 DEF DecideApproval, ghosts, ApprovalRows
  <1>5. ASSUME ExpireApprovals
        PROVE  /\ UNCHANGED <<row, autonomy, ckpt, task, log>>
               /\ \A s \in Runs, c \in Cursors :
                     /\ apv'[s][c].class = apv[s][c].class
                     /\ \/ apv'[s][c].state = apv[s][c].state
                        \/ apv[s][c].state = "pending" /\ apv'[s][c].state = "expired"
    BY <1>1, <1>5 DEF ExpireApprovals, mem, ghosts, ApprovalRows
  <1>6. \/ \E r \in Runs : Gate(r) \/ Lapse(r)
        \/ \E r \in Runs, c \in Cursors, d \in {"granted", "denied"} : DecideApproval(r, c, d)
        \/ ExpireApprovals
    <2>1. ASSUME NEW r \in Runs, Drive(r) PROVE Gate(r)
      <3>1. CASE Hydrate(r) \/ ActReplay(r) \/ ActFromApproval(r) \/ ActDecideNothing(r)
                 \/ ActDecide(r) \/ Interrupt(r) \/ Regate(r)
        BY <3>1 DEF Hydrate, ActReplay, ActFromApproval, ActDecideNothing, ActDecide,
           Interrupt, Regate, db
      <3>2. CASE Effect(r) \/ Audit(r) \/ ActReturn(r) \/ Synthesize(r) \/ Park(r)
                 \/ Finish(r) \/ HookDone(r)
        BY <3>2 DEF Effect, Audit, ActReturn, Synthesize, Park, Finish, HookDone, db
      <3>. QED
        BY <2>1, <3>1, <3>2 DEF Drive
    <2>2. ASSUME NEW r \in Runs, RunNext(r)
          PROVE  \/ Gate(r) \/ Lapse(r)
                 \/ \E c \in Cursors, d \in {"granted", "denied"} : DecideApproval(r, c, d)
      BY <2>1, <2>2 DEF RunNext, StartRun, Resume, RequestResume, Acquire, NodeError, TailDone,
         CancelTask, CancelRow, db
    <2>3. ~ (KillChange \/ Stop \/ Crash \/ Exit \/ Boot \/ UNCHANGED vars)
      BY DEF KillChange, Stop, Crash, Exit, ProcessEnds, Boot, vars, db
    <2>. QED
      BY <2>2, <2>3 DEF Next
  <1>. QED
    BY <1>2, <1>3, <1>4, <1>5, <1>6

\* A decided approval is final, for every step of every instance.
LEMMA FinalStep == IInv /\ [Next]_vars => \A r \in Runs, c \in Cursors : Final(r, c)
  <1>. SUFFICES ASSUME IInv, [Next]_vars, NEW r \in Runs, NEW c \in Cursors PROVE Final(r, c)
    OBVIOUS
  <1>1. apv \in [Runs -> [Cursors -> ApprovalRows]]
    BY DEF IInv, TypeOK
  <1>2. CASE UNCHANGED apv
    BY <1>2 DEF Final
  <1>3. ASSUME NEW s \in Runs, task[s].at = "gate", task[s].seen = "none",
               apv' = [apv EXCEPT ![s][Cursor(s)] =
                             [state |-> "pending", class |-> task[s].class, lapsed |-> FALSE]]
        PROVE  Final(r, c)
    <2>1. apv[s][Cursor(s)].state = "none"
      BY <1>3 DEF IInv, LocalsAgree, Approval
    <2>2. s # r \/ c # Cursor(s) => apv'[r][c] = apv[r][c]
      BY <1>1, <1>3
    <2>. QED
      BY <2>1, <2>2 DEF Final
  <1>. QED
    BY <1>2, <1>3, ApprovalSteps DEF Final

\* What a run's task is after a step, from the gate of the act node on.
Moved(r) ==
    \/ task'[r] = task[r] /\ ckpt'[r].cursor = ckpt[r].cursor
    \/ task'[r].at \notin InAct \ {"act"}
    \/ /\ task'[r].at = "gate" /\ task'[r].class \in Classes
       /\ task'[r].seen = Approval(r).state
       /\ UNCHANGED <<apv, ckpt>>
    \/ /\ task[r].at \in InAct \ {"act"} /\ task'[r].at \in InAct \ {"act", "gate"}
       /\ task'[r].class = task[r].class
       /\ ckpt'[r].cursor = ckpt[r].cursor
       /\ task'[r].at = "effect" =>
             /\ UNCHANGED <<apv, autonomy, ckpt>>
             /\ NeedsApproval(task[r].class, autonomy[r]) =>
                   Approval(r).state = "granted" /\ Approval(r).class = task[r].class

\* The gates of the act node let an action that needs a human through only on
\* the granted approval of its class.
LEMMA MovedByDrive ==
    ASSUME IInv, NEW r \in Runs, Drive(r)
    PROVE  Moved(r)
  <1>1. /\ task \in [Runs -> Tasks] /\ ckpt \in [Runs -> Checkpoints]
        /\ apv \in [Runs -> [Cursors -> ApprovalRows]]
    BY DEF IInv, TypeOK
  <1>2. /\ task[r].at \in InAct => Cursor(r) \in Cursors
        /\ \A c \in Cursors : apv[r][c].state # "none" => apv[r][c].class \in Classes
    BY DEF IInv, NodeAgrees, LocalsAgree
  <1>3. ASSUME Advance(r), task[r].at \in InAct PROVE Moved(r)
    BY <1>1, <1>2, <1>3, AdvanceEffect DEF Moved, InAct
  <1>4. ASSUME NEW p, p \notin InAct \ {"act"}, Leave(r, p) PROVE Moved(r)
    BY <1>1, <1>4, LeaveEffect DEF Moved
  <1>5. ASSUME NEW p \in InAct \ {"act", "gate", "effect"}, GoTo(r, p),
               task[r].at \in InAct \ {"act"}, UNCHANGED ckpt
        PROVE  Moved(r)
    BY <1>1, <1>5, GoToEffect DEF Moved
  <1>6. CASE Hydrate(r)
    BY <1>6, <1>4 DEF Hydrate
  <1>7. CASE ActReplay(r)
    BY <1>7, <1>3 DEF ActReplay, InAct
  <1>8. CASE ActFromApproval(r)
    <2>1. /\ task'[r].at = "gate" /\ task'[r].class = Approval(r).class
          /\ task'[r].seen = Approval(r).state /\ UNCHANGED <<apv, ckpt>>
      BY <1>1, <1>8 DEF ActFromApproval, TaskAt, db
    <2>. QED
      BY <1>2, <1>8, <2>1 DEF ActFromApproval, Moved, InAct, Approval
  <1>9. CASE ActDecideNothing(r)
    BY <1>9, <1>3, <1>4 DEF ActDecideNothing, InAct
  <1>10. CASE ActDecide(r)
    <2>1. /\ task'[r].at = "gate" /\ task'[r].class \in Classes /\ task'[r].seen = "none"
          /\ UNCHANGED <<apv, ckpt>>
      BY <1>1, <1>10 DEF ActDecide, TaskAt, db
    <2>. QED
      BY <1>10, <2>1 DEF ActDecide, Moved
  <1>11. CASE Gate(r)
    <2>1. task[r].at = "gate" /\ UNCHANGED autonomy
      BY <1>11 DEF Gate
    <2>2. CASE Advance(r)
      BY <1>3, <2>1, <2>2 DEF InAct
    <2>3. CASE UNCHANGED ckpt /\ \E p \in {"interrupt", "regate"} : GoTo(r, p)
      BY <1>5, <2>1, <2>3 DEF InAct
    <2>4. CASE /\ Evaluate(task[r].class, autonomy[r], kill, "none") = "ALLOW"
               /\ GoTo(r, "effect") /\ UNCHANGED <<ckpt, apv>>
      <3>1. ~ NeedsApproval(task[r].class, autonomy[r])
        BY <2>4, OnlyGrantOpens
      <3>2. task'[r].at = "effect" /\ task'[r].class = task[r].class
        BY <1>1, <2>4, GoToEffect
      <3>. QED
        BY <2>1, <2>4, <3>1, <3>2 DEF Moved, InAct
    <2>. QED
      BY <1>11, <2>2, <2>3, <2>4 DEF Gate
  <1>12. CASE Interrupt(r)
    <2>1. \/ Advance(r)
          \/ UNCHANGED ckpt /\ GoTo(r, "regate")
          \/ Leave(r, "parking")
      BY <1>12 DEF Interrupt
    <2>. QED
      BY <1>3, <1>4, <1>5, <1>12, <2>1 DEF Interrupt, InAct
  <1>13. CASE Regate(r)
    <2>1. task[r].at = "regate" /\ UNCHANGED <<apv, autonomy>>
      BY <1>13 DEF Regate
    <2>2. CASE Advance(r)
      BY <1>3, <2>1, <2>2 DEF InAct
    <2>3. ASSUME NEW found,
                 found = IF Approval(r).lapsed \/ Approval(r).class # task[r].class THEN "none"
                         ELSE Approval(r).state,
                 Evaluate(task[r].class, autonomy[r], kill, found) = "ALLOW",
                 GoTo(r, "effect"), UNCHANGED ckpt
          PROVE  Moved(r)
      <3>1. NeedsApproval(task[r].class, autonomy[r]) => found = "granted"
        BY <2>3, OnlyGrantOpens
      <3>2. task'[r].at = "effect" /\ task'[r].class = task[r].class
        BY <1>1, <2>3, GoToEffect
      <3>. QED
        BY <2>1, <2>3, <3>1, <3>2 DEF Moved, InAct
    <2>. QED
      BY <1>13, <2>2, <2>3 DEF Regate
  <1>14. CASE Effect(r)
    BY <1>14, <1>5 DEF Effect, InAct, db
  <1>15. CASE Audit(r)
    BY <1>15, <1>5 DEF Audit, InAct
  <1>16. CASE ActReturn(r)
    BY <1>16, <1>3 DEF ActReturn, InAct
  <1>17. CASE Synthesize(r)
    BY <1>17, <1>4 DEF Synthesize, InAct
  <1>18. CASE Park(r)
    BY <1>18, <1>4 DEF Park, InAct
  <1>19. CASE Finish(r)
    BY <1>19, <1>4 DEF Finish, InAct
  <1>20. CASE HookDone(r)
    BY <1>20, <1>4 DEF HookDone, InAct
  <1>. QED
    BY <1>6, <1>7, <1>8, <1>9, <1>10, <1>11, <1>12, <1>13, <1>14, <1>15, <1>16, <1>17, <1>18,
       <1>19, <1>20 DEF Drive

LEMMA MovedStep == IInv /\ [Next]_vars => \A r \in Runs : Moved(r)
  <1>. SUFFICES ASSUME IInv, [Next]_vars, NEW r \in Runs PROVE Moved(r)
    OBVIOUS
  <1>1. /\ task \in [Runs -> Tasks] /\ ckpt \in [Runs -> Checkpoints]
        /\ reg \in [Runs -> {"none", "driver", "tail"}]
    BY DEF IInv, TypeOK
  <1>2. ASSUME task'[r] = task[r], ckpt'[r] = ckpt[r] PROVE Moved(r)
    BY <1>2 DEF Moved
  <1>3. ASSUME task'[r].at \in {"none", "queued", "failing"} PROVE Moved(r)
    BY <1>3 DEF Moved, InAct
  <1>4. ASSUME NEW s \in Runs, RunNext(s), s # r PROVE Moved(r)
    <2>1. ckpt'[r] = ckpt[r]
      BY <1>1, <1>4 DEF RunNext, Drive, StartRun, Resume, RequestResume, Acquire, Hydrate, ActReplay,
         ActFromApproval, ActDecideNothing, ActDecide, Gate, Interrupt, Regate, Effect, Audit,
         ActReturn, Synthesize, Park, Finish, HookDone, NodeError, TailDone, CancelTask, CancelRow,
         Lapse, DecideApproval, Advance, db
    <2>2. task'[r] = task[r]
      BY <1>1, <1>4 DEF RunNext, Drive, StartRun, Resume, RequestResume, Acquire, Hydrate, ActReplay,
         ActFromApproval, ActDecideNothing, ActDecide, Gate, Interrupt, Regate, Effect, Audit,
         ActReturn, Synthesize, Park, Finish, HookDone, NodeError, TailDone, CancelTask, CancelRow,
         Lapse, DecideApproval, Advance, Leave, GoTo, Spawn, CancelTasks, mem
    <2>. QED
      BY <2>1, <2>2, <1>2
  <1>5. ASSUME RunNext(r) PROVE Moved(r)
    <2>1. CASE Drive(r)
      BY <2>1, MovedByDrive
    <2>2. CASE StartRun(r)
      BY <2>2, <1>1, <1>3, SpawnEffect DEF StartRun
    <2>3. CASE Resume(r)
      BY <2>3, <1>1, <1>2, <1>3, SpawnEffect DEF Resume
    <2>4. CASE Acquire(r)
      <3>1. \E p \in {"hydrate", "act", "failing", "finishing", "none", "synthesize", "end"} : Leave(r, p)
        BY <2>4, <1>1 DEF Acquire, Checkpoints
      <3>. QED
        BY <3>1, <1>1, LeaveEffect DEF Moved, InAct
    <2>5. CASE NodeError(r)
      BY <2>5, <1>1, <1>3, LeaveEffect DEF NodeError
    <2>6. CASE CancelTask(r)
      <3>1. task'[r].at = "none" \/ task'[r] = task[r]
        BY <2>6 DEF CancelTask, CancelTasks, NoTask, TaskAt
      <3>. QED
        BY <2>6, <3>1, <1>2, <1>3 DEF CancelTask, db
    <2>7. CASE \/ RequestResume(r) \/ TailDone(r) \/ CancelRow(r) \/ Lapse(r)
               \/ \E c \in Cursors, d \in {"granted", "denied"} : DecideApproval(r, c, d)
      BY <2>7, <1>2 DEF RequestResume, TailDone, CancelRow, Lapse, DecideApproval, db, mem
    <2>. QED
      BY <1>5, <2>1, <2>2, <2>3, <2>4, <2>5, <2>6, <2>7 DEF RunNext
  <1>6. CASE UNCHANGED vars \/ ExpireApprovals \/ KillChange
    BY <1>6, <1>2 DEF vars, ExpireApprovals, KillChange, mem, db
  <1>7. CASE Stop
    <2>1. task'[r].at = "none" \/ task'[r] = task[r]
      BY <1>7 DEF Stop, CancelTasks, NoTask, TaskAt
    <2>. QED
      BY <1>7, <2>1, <1>2, <1>3 DEF Stop, db
  <1>8. CASE Crash \/ Exit
    BY <1>8, <1>3 DEF Crash, Exit, ProcessEnds, NoTask, TaskAt
  <1>9. CASE Boot
    <2>1. task'[r].at \in {"none", "queued"}
      BY <1>9 DEF Boot, NoTask, TaskAt
    <2>. QED
      BY <2>1, <1>3
  <1>. QED
    BY <1>4, <1>5, <1>6, <1>7, <1>8, <1>9 DEF Next

\* The history grows by the effect of a task, and a run's autonomy is set by
\* the step that creates the run.
LEMMA LogSteps == IInv /\ [Next]_vars =>
    \/ UNCHANGED <<autonomy, log>>
    \/ \E r \in Runs : row[r] = "none" /\ UNCHANGED log
                       /\ \A s \in Runs \ {r} : autonomy'[s] = autonomy[s]
    \/ \E r \in Runs : /\ task[r].at = "effect"
                       /\ UNCHANGED <<row, autonomy, ckpt, apv>>
                       /\ log' = [log EXCEPT ![r][Cursor(r)] = Append(@, task[r].class)]
  <1>. SUFFICES ASSUME IInv, [Next]_vars, ~ UNCHANGED <<autonomy, log>>
       PROVE  \/ \E r \in Runs : row[r] = "none" /\ UNCHANGED log
                                 /\ \A s \in Runs \ {r} : autonomy'[s] = autonomy[s]
              \/ \E r \in Runs : /\ task[r].at = "effect"
                                 /\ UNCHANGED <<row, autonomy, ckpt, apv>>
                                 /\ log' = [log EXCEPT ![r][Cursor(r)] = Append(@, task[r].class)]
    OBVIOUS
  <1>1. autonomy \in [Runs -> Autonomies]
    BY DEF IInv, TypeOK
  <1>2. \E r \in Runs : StartRun(r) \/ Effect(r)
    <2>1. ASSUME NEW r \in Runs, Drive(r) PROVE Effect(r)
      <3>1. CASE Hydrate(r) \/ ActReplay(r) \/ ActFromApproval(r) \/ ActDecideNothing(r)
                 \/ ActDecide(r) \/ Gate(r) \/ Interrupt(r) \/ Regate(r)
        BY <3>1 DEF Hydrate, ActReplay, ActFromApproval, ActDecideNothing, ActDecide, Gate,
           Interrupt, Regate, db, ghosts
      <3>2. CASE Audit(r) \/ ActReturn(r) \/ Synthesize(r) \/ Park(r) \/ Finish(r) \/ HookDone(r)
        BY <3>2 DEF Audit, ActReturn, Synthesize, Park, Finish, HookDone, db, ghosts
      <3>. QED
        BY <2>1, <3>1, <3>2 DEF Drive
    <2>2. ASSUME NEW r \in Runs, RunNext(r) PROVE StartRun(r) \/ Effect(r)
      BY <2>1, <2>2 DEF RunNext, Resume, RequestResume, Acquire, NodeError, TailDone, CancelTask,
         CancelRow, Lapse, DecideApproval, db, ghosts
    <2>3. ~ (ExpireApprovals \/ KillChange \/ Stop \/ Crash \/ Exit \/ Boot \/ UNCHANGED vars)
      BY DEF ExpireApprovals, KillChange, Stop, Crash, Exit, ProcessEnds, Boot, vars, db, ghosts
    <2>. QED
      BY <2>2, <2>3 DEF Next
  <1>3. PICK r \in Runs : StartRun(r) \/ Effect(r)
    BY <1>2
  <1>4. CASE StartRun(r)
    BY <1>1, <1>4 DEF StartRun, ghosts
  <1>5. CASE Effect(r)
    BY <1>5 DEF Effect, db
  <1>. QED
    BY <1>3, <1>4, <1>5

LEMMA RowSteps == IInv /\ [Next]_vars => \A r \in Runs : row'[r] = "none" => row[r] = "none"
  <1>. SUFFICES ASSUME IInv, [Next]_vars, NEW r \in Runs, row'[r] = "none"
       PROVE  row[r] = "none"
    OBVIOUS
  <1>1. row \in [Runs -> RowStates]
    BY DEF IInv, TypeOK
  <1>2. \/ UNCHANGED row
        \/ \E s \in Runs : StartRun(s) \/ Resume(s) \/ Park(s) \/ Finish(s) \/ CancelRow(s)
    <2>1. ASSUME NEW s \in Runs, Drive(s) PROVE UNCHANGED row \/ Park(s) \/ Finish(s)
      <3>1. CASE Hydrate(s) \/ ActReplay(s) \/ ActFromApproval(s) \/ ActDecideNothing(s)
                 \/ ActDecide(s) \/ Gate(s) \/ Interrupt(s) \/ Regate(s)
        BY <3>1 DEF Hydrate, ActReplay, ActFromApproval, ActDecideNothing, ActDecide, Gate,
           Interrupt, Regate, db
      <3>2. CASE Effect(s) \/ Audit(s) \/ ActReturn(s) \/ Synthesize(s) \/ HookDone(s)
        BY <3>2 DEF Effect, Audit, ActReturn, Synthesize, HookDone, db
      <3>. QED
        BY <2>1, <3>1, <3>2 DEF Drive
    <2>2. ASSUME NEW s \in Runs, RunNext(s)
          PROVE  \/ UNCHANGED row
                 \/ StartRun(s) \/ Resume(s) \/ Park(s) \/ Finish(s) \/ CancelRow(s)
      BY <2>1, <2>2 DEF RunNext, RequestResume, Acquire, NodeError, TailDone, CancelTask, Lapse,
         DecideApproval, db
    <2>3. ASSUME ExpireApprovals \/ KillChange \/ Stop \/ Crash \/ Exit \/ Boot \/ UNCHANGED vars
          PROVE  UNCHANGED row
      BY <2>3 DEF ExpireApprovals, KillChange, Stop, Crash, Exit, ProcessEnds, Boot, vars, db
    <2>. QED
      BY <2>2, <2>3 DEF Next
  <1>. QED
    BY <1>1, <1>2 DEF StartRun, Resume, Park, Finish, CancelRow

LEMMA LocalsStep == IInv /\ [Next]_vars => LocalsAgree'
  <1>. SUFFICES ASSUME IInv, [Next]_vars PROVE LocalsAgree'
    OBVIOUS
  <1>1. /\ apv \in [Runs -> [Cursors -> ApprovalRows]] /\ log \in [Runs -> [Cursors -> Seq(Classes)]]
        /\ task \in [Runs -> Tasks]
    BY DEF IInv, TypeOK
  <1>2. LocalsAgree /\ RowMatchesTask /\ \A r \in Runs : task[r].at \in InAct => Cursor(r) \in Cursors
    BY DEF IInv, NodeAgrees
  <1>3. (RowMatchesTask /\ NodeAgrees)' /\ TypeOK'
    BY AgreesStep, TypeStep
  <1>4. ASSUME NEW r \in Runs PROVE \A c \in Cursors : apv'[r][c].state # "none" => apv'[r][c].class \in Classes
    <2>1. CASE UNCHANGED apv
      BY <1>2, <2>1 DEF LocalsAgree
    <2>2. ASSUME NEW s \in Runs, task[s].at = "gate",
                 apv' = [apv EXCEPT ![s][Cursor(s)] =
                           [state |-> "pending", class |-> task[s].class, lapsed |-> FALSE]]
          PROVE  \A c \in Cursors : apv'[r][c].state # "none" => apv'[r][c].class \in Classes
      <3>1. task[s].class \in Classes
        BY <1>2, <2>2 DEF LocalsAgree, InAct
      <3>. QED
        BY <1>1, <1>2, <2>2, <3>1 DEF LocalsAgree
    <2>. QED
      BY <1>2, <2>1, <2>2, ApprovalSteps DEF LocalsAgree
  <1>5. ASSUME NEW r \in Runs PROVE task'[r].at \in InAct \ {"act"} => task'[r].class \in Classes
    BY <1>2, MovedStep DEF Moved, LocalsAgree, InAct
  <1>6. ASSUME NEW r \in Runs, task'[r].at = "gate", task'[r].seen = "none"
        PROVE  apv'[r][ckpt'[r].cursor].state = "none"
    <2>1. \/ task'[r] = task[r] /\ ckpt'[r].cursor = ckpt[r].cursor
          \/ Approval(r).state = "none" /\ UNCHANGED <<apv, ckpt>>
      BY <1>6, MovedStep DEF Moved, InAct
    <2>2. CASE Approval(r).state = "none" /\ UNCHANGED <<apv, ckpt>>
      BY <2>2 DEF Approval, Cursor
    <2>3. CASE task'[r] = task[r] /\ ckpt'[r].cursor = ckpt[r].cursor
      <3>1. apv[r][ckpt[r].cursor].state = "none" /\ ckpt[r].cursor \in Cursors
        BY <1>2, <1>6, <2>3 DEF LocalsAgree, Approval, Cursor, InAct
      <3>2. CASE UNCHANGED apv
        BY <2>3, <3>1, <3>2
      <3>3. ASSUME NEW s \in Runs, task'[s].at = "interrupt",
                   apv' = [apv EXCEPT ![s][Cursor(s)] =
                           [state |-> "pending", class |-> task[s].class, lapsed |-> FALSE]]
            PROVE  apv'[r][ckpt'[r].cursor].state = "none"
        <4>1. s # r
          BY <1>6, <3>3
        <4>. QED
          BY <1>1, <2>3, <3>1, <3>3, <4>1
      <3>. QED
        BY <2>3, <3>1, <3>2, <3>3, ApprovalSteps
    <2>. QED
      BY <2>1, <2>2, <2>3
  <1>7. ASSUME NEW r \in Runs, task'[r].at = "effect", NeedsApproval(task'[r].class, autonomy'[r])
        PROVE  /\ apv'[r][ckpt'[r].cursor].state = "granted"
               /\ apv'[r][ckpt'[r].cursor].class = task'[r].class
    <2>1. CASE task'[r] = task[r] /\ ckpt'[r].cursor = ckpt[r].cursor
      <3>1. row[r] # "none" /\ Cursor(r) \in Cursors
        BY <1>2, <1>7, <2>1 DEF RowMatchesTask, InAct
      <3>2. autonomy'[r] = autonomy[r]
        BY <3>1, LogSteps
      <3>3. Approval(r).state = "granted" /\ Approval(r).class = task[r].class
        BY <1>2, <1>7, <2>1, <3>2 DEF LocalsAgree
      <3>. QED
        BY <2>1, <3>1, <3>3, FinalStep DEF Final, Approval, Cursor
    <2>2. CASE /\ UNCHANGED <<apv, autonomy, ckpt>> /\ task'[r].class = task[r].class
               /\ NeedsApproval(task[r].class, autonomy[r]) =>
                     Approval(r).state = "granted" /\ Approval(r).class = task[r].class
      BY <1>7, <2>2 DEF Approval, Cursor
    <2>. QED
      BY <1>7, <2>1, <2>2, MovedStep DEF Moved, InAct
  <1>8. ASSUME NEW r \in Runs, row'[r] = "none" PROVE \A c \in Cursors : log'[r][c] = <<>>
    <2>1. row[r] = "none" /\ (task[r].at # "effect") /\ \A c \in Cursors : log[r][c] = <<>>
      BY <1>2, <1>8, RowSteps DEF LocalsAgree, RowMatchesTask
    <2>. QED
      BY <1>1, <2>1, LogSteps
  <1>. QED
    BY <1>4, <1>5, <1>6, <1>7, <1>8 DEF LocalsAgree, Approval, Cursor

LEMMA GatedStep == IInv /\ [Next]_vars => GatedEffects'
  <1>. SUFFICES ASSUME IInv, [Next]_vars, NEW r \in Runs, NEW c \in Cursors,
                       NEW i \in DOMAIN log'[r][c],
                       NeedsApproval(log'[r][c][i], autonomy'[r])
       PROVE  apv'[r][c].state = "granted" /\ apv'[r][c].class = log'[r][c][i]
    BY DEF GatedEffects
  <1>1. log \in [Runs -> [Cursors -> Seq(Classes)]] /\ GatedEffects /\ LocalsAgree
    BY DEF IInv, TypeOK
  <1>2. CASE i \in DOMAIN log[r][c] /\ log'[r][c][i] = log[r][c][i]
    <2>1. row[r] # "none"
      BY <1>1, <1>2 DEF LocalsAgree
    <2>2. autonomy'[r] = autonomy[r]
      BY <2>1, LogSteps
    <2>3. apv[r][c].state = "granted" /\ apv[r][c].class = log[r][c][i]
      BY <1>1, <1>2, <2>2 DEF GatedEffects
    <2>. QED
      BY <1>2, <2>3, FinalStep DEF Final
  <1>3. ASSUME NEW s \in Runs, task[s].at = "effect", UNCHANGED <<autonomy, apv>>,
               log' = [log EXCEPT ![s][Cursor(s)] = Append(@, task[s].class)],
               ~ (i \in DOMAIN log[r][c] /\ log'[r][c][i] = log[r][c][i])
        PROVE  apv'[r][c].state = "granted" /\ apv'[r][c].class = log'[r][c][i]
    <2>1. s = r /\ c = Cursor(r)
      BY <1>1, <1>3
    <2>2. log'[r][c] = Append(log[r][c], task[r].class) /\ log[r][c] \in Seq(Classes)
      BY <1>1, <1>3, <2>1
    <2>3. log'[r][c][i] = task[r].class
      <3>1. task[r].class \in Classes
        BY <1>1, <1>3, <2>1 DEF LocalsAgree, InAct
      <3>. QED
        BY <1>3, <2>2, <3>1
    <2>. QED
      BY <1>1, <1>3, <2>1, <2>3 DEF LocalsAgree, Approval
  <1>. QED
    BY <1>2, <1>3, LogSteps

-----------------------------------------------------------------------------
(* One record per step                                                     *)

\* What a step does to the audit rows, the effects and the task of run r.
Recorded(r) ==
    /\ up' \in Gone => task'[r].at = "none"
    /\ \/ /\ audit'[r] = audit[r] /\ log'[r] = log[r]
          /\ \/ /\ breaks'[r] = breaks[r] /\ task'[r].at = task[r].at
                /\ ckpt'[r].cursor = ckpt[r].cursor
             \/ breaks'[r] = breaks[r] + 1 /\ task'[r].at \notin Unrecorded
             \/ /\ breaks'[r] = breaks[r] /\ task[r].at # "audit"
                /\ task'[r].at \notin Unrecorded
             \/ /\ breaks'[r] = breaks[r] /\ ckpt'[r].cursor = ckpt[r].cursor
                /\ audit[r][Cursor(r)] = 0
                /\ task[r].at # "audit" /\ task'[r].at \in Unrecorded \ {"audit"}
       \/ /\ audit'[r] = audit[r] /\ breaks'[r] = breaks[r]
          /\ ckpt'[r].cursor = ckpt[r].cursor
          /\ task[r].at = "effect" /\ task'[r].at = "audit"
          /\ log'[r] = [log[r] EXCEPT ![Cursor(r)] = Append(@, task[r].class)]
       \/ /\ log'[r] = log[r] /\ breaks'[r] = breaks[r]
          /\ task[r].at = "audit" /\ task'[r].at = "audited"
          /\ audit'[r] = [audit[r] EXCEPT ![Cursor(r)] = @ + 1]

LEMMA RecordedByDrive ==
    ASSUME RecordInv, NEW r \in Runs, Drive(r)
    PROVE  Recorded(r)
  <1>1. /\ task \in [Runs -> Tasks] /\ ckpt \in [Runs -> Checkpoints]
        /\ audit \in [Runs -> [Cursors -> Nat]] /\ log \in [Runs -> [Cursors -> Seq(Classes)]]
    BY DEF RecordInv, IInv, TypeOK
  <1>2. /\ task[r].at \in InAct => Cursor(r) \in Cursors
        /\ task[r].at \in Unrecorded => audit[r][Cursor(r)] = 0
        /\ up \in Gone => task[r].at = "none"
    BY DEF RecordInv, IInv, NodeAgrees, RecordsAgree
  <1>3. up' \notin Gone
    BY <1>2 DEF Drive, Hydrate, ActReplay, ActFromApproval, ActDecideNothing, ActDecide, Gate,
       Interrupt, Regate, Effect, Audit, ActReturn, Synthesize, Park, Finish, HookDone, env
  <1>4. ASSUME UNCHANGED <<audit, log, breaks>>, Advance(r), task[r].at \in InAct \ {"audit"}
        PROVE  Recorded(r)
    BY <1>1, <1>2, <1>3, <1>4, AdvanceEffect DEF Recorded, Unrecorded, InAct
  <1>5. ASSUME UNCHANGED <<audit, log, breaks>>, NEW p, p \notin Unrecorded, Leave(r, p),
               task[r].at # "audit"
        PROVE  Recorded(r)
    BY <1>1, <1>3, <1>5, LeaveEffect DEF Recorded
  <1>6. ASSUME UNCHANGED <<audit, log, breaks, ckpt>>, NEW p \in Unrecorded \ {"audit"}, GoTo(r, p),
               task[r].at \in Unrecorded \ {"audit"}
        PROVE  Recorded(r)
    BY <1>1, <1>2, <1>3, <1>6, GoToEffect DEF Recorded
  <1>7. CASE Hydrate(r)
    BY <1>7, <1>5 DEF Hydrate, Unrecorded, InAct, ghosts
  <1>8. CASE ActReplay(r)
    BY <1>8, <1>4 DEF ActReplay, InAct, ghosts
  <1>9. CASE ActFromApproval(r) \/ ActDecide(r)
    <2>1. /\ task[r].at = "act" /\ audit[r][Cursor(r)] = 0
          /\ task'[r].at = "gate" /\ UNCHANGED <<audit, log, breaks, ckpt>>
      BY <1>1, <1>9 DEF ActFromApproval, ActDecide, TaskAt, db, ghosts
    <2>. QED
      BY <1>3, <2>1 DEF Recorded, Unrecorded, InAct
  <1>10. CASE ActDecideNothing(r)
    BY <1>10, <1>4, <1>5 DEF ActDecideNothing, Unrecorded, InAct, ghosts
  <1>11. CASE Gate(r)
    <2>1. task[r].at = "gate" /\ UNCHANGED <<audit, log, breaks>>
      BY <1>11 DEF Gate, ghosts
    <2>2. \/ Advance(r)
          \/ UNCHANGED ckpt /\ \E p \in {"effect", "interrupt", "regate"} : GoTo(r, p)
      BY <1>11 DEF Gate
    <2>. QED
      BY <1>4, <1>6, <2>1, <2>2 DEF Unrecorded, InAct
  <1>12. CASE Interrupt(r)
    <2>1. task[r].at = "interrupt" /\ UNCHANGED <<audit, log, breaks>>
      BY <1>12 DEF Interrupt, ghosts
    <2>2. \/ Advance(r)
          \/ UNCHANGED ckpt /\ GoTo(r, "regate")
          \/ Leave(r, "parking")
      BY <1>12 DEF Interrupt
    <2>. QED
      BY <1>4, <1>5, <1>6, <2>1, <2>2 DEF Unrecorded, InAct
  <1>13. CASE Regate(r)
    <2>1. task[r].at = "regate" /\ UNCHANGED <<audit, log, breaks>>
      BY <1>13 DEF Regate, ghosts
    <2>2. Advance(r) \/ (UNCHANGED ckpt /\ GoTo(r, "effect"))
      BY <1>13 DEF Regate
    <2>. QED
      BY <1>4, <1>6, <2>1, <2>2 DEF Unrecorded, InAct
  <1>14. CASE Effect(r)
    <2>1. task'[r].at = "audit" /\ task[r].at = "effect"
      BY <1>1, <1>14, GoToEffect DEF Effect
    <2>. QED
      BY <1>1, <1>3, <1>14, <2>1 DEF Effect, Recorded, db
  <1>15. CASE Audit(r)
    <2>1. task'[r].at = "audited" /\ task[r].at = "audit"
      BY <1>1, <1>15, GoToEffect DEF Audit
    <2>. QED
      BY <1>1, <1>3, <1>15, <2>1 DEF Audit, Recorded, ghosts
  <1>16. CASE ActReturn(r)
    BY <1>16, <1>4 DEF ActReturn, InAct, ghosts
  <1>17. CASE Synthesize(r) \/ Park(r) \/ Finish(r) \/ HookDone(r)
    BY <1>17, <1>5 DEF Synthesize, Park, Finish, HookDone, Unrecorded, InAct, db, ghosts
  <1>. QED
    BY <1>7, <1>8, <1>9, <1>10, <1>11, <1>12, <1>13, <1>14, <1>15, <1>16, <1>17 DEF Drive

LEMMA RecordedByStep == RecordInv /\ [Next]_vars => \A r \in Runs : Recorded(r)
  <1>. SUFFICES ASSUME RecordInv, [Next]_vars, NEW r \in Runs PROVE Recorded(r)
    OBVIOUS
  <1>1. /\ task \in [Runs -> Tasks] /\ ckpt \in [Runs -> Checkpoints]
        /\ reg \in [Runs -> {"none", "driver", "tail"}] /\ breaks \in [Runs -> Nat]
        /\ audit \in [Runs -> [Cursors -> Nat]] /\ log \in [Runs -> [Cursors -> Seq(Classes)]]
    BY DEF RecordInv, IInv, TypeOK
  <1>2. /\ up \in Gone => task[r].at = "none"
        /\ row[r] \in {"none", "parked"} => task[r].at = "none"
    BY DEF RecordInv, RecordsAgree, IInv, RowMatchesTask
  <1>3. ASSUME task'[r].at = task[r].at, ckpt'[r].cursor = ckpt[r].cursor, audit'[r] = audit[r],
               log'[r] = log[r], breaks'[r] = breaks[r], UNCHANGED up
        PROVE  Recorded(r)
    BY <1>2, <1>3 DEF Recorded
  <1>4. ASSUME NEW s \in Runs, RunNext(s), s # r PROVE Recorded(r)
    <2>1. ckpt'[r] = ckpt[r] /\ audit'[r] = audit[r]
      BY <1>1, <1>4 DEF RunNext, Drive, StartRun, Resume, RequestResume, Acquire, Hydrate, ActReplay,
         ActFromApproval, ActDecideNothing, ActDecide, Gate, Interrupt, Regate, Effect, Audit,
         ActReturn, Synthesize, Park, Finish, HookDone, NodeError, TailDone, CancelTask, CancelRow,
         Lapse, DecideApproval, Advance, db
    <2>2. task'[r] = task[r]
      BY <1>1, <1>4 DEF RunNext, Drive, StartRun, Resume, RequestResume, Acquire, Hydrate, ActReplay,
         ActFromApproval, ActDecideNothing, ActDecide, Gate, Interrupt, Regate, Effect, Audit,
         ActReturn, Synthesize, Park, Finish, HookDone, NodeError, TailDone, CancelTask, CancelRow,
         Lapse, DecideApproval, Advance, Leave, GoTo, Spawn, CancelTasks, mem
    <2>3. log'[r] = log[r] /\ breaks'[r] = breaks[r]
      BY <1>1, <1>4 DEF RunNext, Drive, StartRun, Resume, RequestResume, Acquire, Hydrate, ActReplay,
         ActFromApproval, ActDecideNothing, ActDecide, Gate, Interrupt, Regate, Effect, Audit,
         ActReturn, Synthesize, Park, Finish, HookDone, NodeError, TailDone, CancelTask, CancelRow,
         Lapse, DecideApproval, CancelTasks, ghosts
    <2>4. UNCHANGED up
      BY <1>4 DEF RunNext, Drive, StartRun, Resume, RequestResume, Acquire, Hydrate, ActReplay,
         ActFromApproval, ActDecideNothing, ActDecide, Gate, Interrupt, Regate, Effect, Audit,
         ActReturn, Synthesize, Park, Finish, HookDone, NodeError, TailDone, CancelTask, CancelRow,
         Lapse, DecideApproval, env
    <2>. QED
      BY <2>1, <2>2, <2>3, <2>4, <1>3
  <1>5. ASSUME RunNext(r) PROVE Recorded(r)
    <2>1. CASE Drive(r)
      BY <2>1, RecordedByDrive
    <2>2. CASE StartRun(r) \/ Resume(r)
      <3>1. /\ UNCHANGED <<audit, log, breaks, ckpt, up>> /\ up = "up"
            /\ \/ UNCHANGED task
               \/ task[r].at = "none" /\ task'[r].at = "queued"
        BY <1>1, <1>2, <2>2, SpawnEffect DEF StartRun, Resume, env, ghosts, Inputs
      <3>. QED
        BY <3>1 DEF Recorded, Unrecorded, InAct, Gone
    <2>3. CASE Acquire(r)
      <3>1. \E p \in {"hydrate", "act", "failing", "finishing", "none", "synthesize", "end"} : Leave(r, p)
        BY <2>3, <1>1 DEF Acquire, Checkpoints
      <3>2. task'[r].at \notin Unrecorded /\ task[r].at = "queued" /\ up \notin Gone
        BY <1>1, <1>2, <2>3, <3>1, LeaveEffect DEF Unrecorded, InAct, Acquire
      <3>. QED
        BY <2>3, <3>2 DEF Recorded, Acquire, env, ghosts
    <2>4. CASE NodeError(r)
      <3>1. task'[r].at = "failing" /\ task[r].at # "none"
        BY <1>1, <2>4, LeaveEffect DEF NodeError, InGraph, InAct
      <3>. QED
        BY <1>1, <1>2, <2>4, <3>1 DEF NodeError, Recorded, Unrecorded, InAct, db
    <2>5. CASE CancelTask(r)
      <3>1. \/ task'[r].at = "none" /\ breaks'[r] = breaks[r] + 1
            \/ task'[r] = task[r] /\ breaks'[r] = breaks[r]
        BY <1>1, <2>5 DEF CancelTask, CancelTasks, NoTask, TaskAt
      <3>. QED
        BY <1>2, <2>5, <3>1 DEF CancelTask, Recorded, Unrecorded, InAct, db
    <2>6. CASE \/ RequestResume(r) \/ TailDone(r) \/ CancelRow(r) \/ Lapse(r)
               \/ \E c \in Cursors, d \in {"granted", "denied"} : DecideApproval(r, c, d)
      BY <2>6, <1>3 DEF RequestResume, TailDone, CancelRow, Lapse, DecideApproval, db, mem, env, ghosts
    <2>. QED
      BY <1>5, <2>1, <2>2, <2>3, <2>4, <2>5, <2>6 DEF RunNext
  <1>6. CASE UNCHANGED vars \/ ExpireApprovals \/ KillChange
    BY <1>6, <1>3 DEF vars, ExpireApprovals, KillChange, mem, db, env, ghosts
  <1>7. CASE Stop
    <2>1. \/ task'[r].at = "none" /\ breaks'[r] = breaks[r] + 1
          \/ task'[r] = task[r] /\ breaks'[r] = breaks[r]
      BY <1>1, <1>7 DEF Stop, CancelTasks, NoTask, TaskAt
    <2>. QED
      BY <1>2, <1>7, <2>1 DEF Stop, Recorded, Unrecorded, InAct, Gone, db
  <1>8. CASE Crash \/ Exit
    <2>1. /\ task'[r].at = "none"
          /\ \/ breaks'[r] = breaks[r] + 1
             \/ breaks'[r] = breaks[r] /\ task[r].at = "none"
      BY <1>1, <1>8 DEF Crash, Exit, ProcessEnds, NoTask, TaskAt
    <2>. QED
      BY <1>8, <2>1 DEF Crash, Exit, ProcessEnds, Recorded, Unrecorded, InAct, db
  <1>9. CASE Boot
    <2>1. task'[r].at \in {"none", "queued"} /\ task[r].at = "none"
      BY <1>2, <1>9 DEF Boot, NoTask, TaskAt
    <2>. QED
      BY <1>9, <2>1 DEF Boot, Recorded, Unrecorded, InAct, Gone, ghosts
  <1>. QED
    BY <1>4, <1>5, <1>6, <1>7, <1>8, <1>9 DEF Next

LEMMA RecordStep == RecordInv /\ [Next]_vars => (RecordsAgree /\ OneRecordPerStep)'
  <1>. SUFFICES ASSUME RecordInv, [Next]_vars, NEW r \in Runs
                PROVE  /\ task'[r].at \in Unrecorded => audit'[r][ckpt'[r].cursor] = 0
                       /\ up' \in Gone => task'[r].at = "none"
                       /\ \A c \in Cursors :
                            /\ audit'[r][c] <= 1
                            /\ Len(log'[r][c]) <= audit'[r][c] + breaks'[r]
                                  + (IF task'[r].at = "audit" /\ ckpt'[r].cursor = c THEN 1 ELSE 0)
    BY DEF RecordsAgree, OneRecordPerStep, Cursor
  <1>1. /\ breaks[r] \in Nat /\ audit[r] \in [Cursors -> Nat] /\ log[r] \in [Cursors -> Seq(Classes)]
        /\ task[r] \in Tasks
    BY DEF RecordInv, IInv, TypeOK
  <1>2. /\ task[r].at \in InAct => Cursor(r) \in Cursors /\ ckpt[r].cursor \in Cursors
        /\ task[r].at \in Unrecorded => audit[r][ckpt[r].cursor] = 0
        /\ task[r].at \in InAct \ {"act"} => task[r].class \in Classes
        /\ \A c \in Cursors : /\ audit[r][c] <= 1 /\ audit[r][c] \in Nat /\ Len(log[r][c]) \in Nat
                              /\ Len(log[r][c]) <= audit[r][c] + breaks[r]
                                   + (IF task[r].at = "audit" /\ ckpt[r].cursor = c THEN 1 ELSE 0)
    BY <1>1 DEF RecordInv, IInv, NodeAgrees, LocalsAgree, RecordsAgree, OneRecordPerStep, Cursor
  <1>3. Recorded(r)
    BY RecordedByStep
  <1>4. CASE /\ log'[r] = log[r] /\ audit'[r] = audit[r]
             /\ \/ breaks'[r] = breaks[r] + 1 /\ task'[r].at \notin Unrecorded
                \/ /\ breaks'[r] = breaks[r] /\ task[r].at # "audit"
                   /\ \/ task'[r].at \notin Unrecorded
                      \/ /\ ckpt'[r].cursor = ckpt[r].cursor /\ audit[r][Cursor(r)] = 0
                         /\ task'[r].at \in Unrecorded \ {"audit"}
    <2>1. /\ \/ breaks'[r] = breaks[r] + 1
             \/ breaks'[r] = breaks[r] /\ task[r].at # "audit"
          /\ task'[r].at # "audit"
          /\ task'[r].at \in Unrecorded => audit'[r][ckpt'[r].cursor] = 0
          /\ up' \in Gone => task'[r].at = "none"
      BY <1>3, <1>4 DEF Recorded, Unrecorded, InAct, Cursor
    <2>2. ASSUME NEW c \in Cursors
          PROVE  Len(log[r][c]) <= audit[r][c] + breaks'[r]
      BY SMTT(30), <1>1, <1>2, <2>1
    <2>. QED
      BY <1>1, <1>2, <1>4, <2>1, <2>2
  <1>5. CASE /\ log'[r] = log[r] /\ audit'[r] = audit[r]
             /\ breaks'[r] = breaks[r] /\ task'[r].at = task[r].at /\ ckpt'[r].cursor = ckpt[r].cursor
    BY <1>2, <1>3, <1>5 DEF Recorded
  <1>6. CASE /\ task[r].at = "effect" /\ task'[r].at = "audit"
             /\ audit'[r] = audit[r] /\ breaks'[r] = breaks[r] /\ ckpt'[r].cursor = ckpt[r].cursor
             /\ log'[r] = [log[r] EXCEPT ![Cursor(r)] = Append(@, task[r].class)]
    <2>1. /\ Cursor(r) \in Cursors /\ Cursor(r) = ckpt[r].cursor /\ task[r].class \in Classes
          /\ audit[r][ckpt[r].cursor] = 0
      BY <1>2, <1>6 DEF InAct, Unrecorded, Cursor
    <2>2. \A c \in Cursors : Len(log'[r][c]) = IF c = ckpt[r].cursor THEN Len(log[r][c]) + 1
                                               ELSE Len(log[r][c])
      BY <1>1, <1>6, <2>1
    <2>. QED
      BY <1>1, <1>2, <1>3, <1>6, <2>1, <2>2 DEF Recorded
  <1>7. CASE /\ task[r].at = "audit" /\ task'[r].at = "audited"
             /\ log'[r] = log[r] /\ breaks'[r] = breaks[r]
             /\ audit'[r] = [audit[r] EXCEPT ![Cursor(r)] = @ + 1]
    <2>1. Cursor(r) \in Cursors /\ Cursor(r) = ckpt[r].cursor /\ audit[r][ckpt[r].cursor] = 0
      BY <1>2, <1>7 DEF InAct, Unrecorded, Cursor
    <2>2. \A c \in Cursors : audit'[r][c] = IF c = ckpt[r].cursor THEN 1 ELSE audit[r][c]
      BY <1>1, <1>7, <2>1
    <2>3. task'[r].at \notin Unrecorded /\ up' \notin Gone
      BY <1>3, <1>7 DEF Recorded, Unrecorded, InAct
    <2>4. ASSUME NEW c \in Cursors
          PROVE  /\ audit'[r][c] \in Nat /\ breaks'[r] \in Nat /\ audit'[r][c] <= 1
                 /\ Len(log'[r][c]) <= audit'[r][c] + breaks'[r]
      <3>1. CASE c = ckpt[r].cursor
        BY <1>1, <1>2, <1>7, <2>1, <2>2, <3>1
      <3>2. CASE c # ckpt[r].cursor
        BY <1>1, <1>2, <1>7, <2>2, <3>2
      <3>. QED
        BY <3>1, <3>2
    <2>. QED
      BY <1>7, <2>3, <2>4
  <1>. QED
    BY <1>3, <1>4, <1>5, <1>6, <1>7 DEF Recorded

LEMMA InitRecords == Init => RecordsAgree /\ OneRecordPerStep
  <1>. SUFFICES ASSUME Init PROVE RecordsAgree /\ OneRecordPerStep
    OBVIOUS
  <1>1. \A r \in Runs, c \in Cursors :
            audit[r][c] = 0 /\ Len(log[r][c]) = 0 /\ breaks[r] = 0 /\ task[r].at = "none"
    BY DEF Init, NoTask, TaskAt
  <1>2. up = "up" /\ \A r \in Runs : task[r].at = "none"
    BY DEF Init, NoTask, TaskAt
  <1>3. RecordsAgree
    BY <1>2 DEF RecordsAgree, Unrecorded, InAct
  <1>4. ASSUME NEW r \in Runs, NEW c \in Cursors
        PROVE  /\ audit[r][c] <= 1
               /\ Len(log[r][c]) <= audit[r][c] + breaks[r]
                     + (IF task[r].at = "audit" /\ Cursor(r) = c THEN 1 ELSE 0)
    <2>1. ~ (task[r].at = "audit" /\ Cursor(r) = c)
      BY <1>2
    <2>. QED
      BY <1>1, <2>1
  <1>. QED
    BY <1>3, <1>4 DEF OneRecordPerStep

-----------------------------------------------------------------------------
(* The panic button                                                        *)

\* What a driving step does to the semaphore's places and the late effects.
Fires(r) ==
    /\ UNCHANGED kill
    /\ \A s \in Runs \ {r} : task'[s] = task[s]
    /\ task'[r].at \in Holding => task[r].at \in Holding
    /\ \/ /\ late' = late
          /\ kill # "clear" => r \notin Armed'
       \/ /\ late' = late + 1 /\ kill # "clear"
          /\ r \in Armed /\ r \notin Armed'

\* The gate is the only way to a side effect, and an engaged kill switch lets
\* it allow nothing but reads.
LEMMA FiresByDrive ==
    ASSUME IInv, NEW r \in Runs, Drive(r)
    PROVE  Fires(r)
  <1>1. /\ task \in [Runs -> Tasks] /\ ckpt \in [Runs -> Checkpoints]
        /\ kill # "clear" => kill \in {"set", "unreadable"}
        /\ task[r].at \in InAct => Cursor(r) \in Cursors
    BY RunnerAssumption DEF IInv, TypeOK, NodeAgrees
  <1>2. ASSUME UNCHANGED <<kill, late>>, NEW p, Leave(r, p) \/ GoTo(r, p), p # "effect",
               p \in Holding => task[r].at \in Holding
        PROVE  Fires(r)
    <2>1. task'[r].at = p /\ \A s \in Runs \ {r} : task'[s] = task[s]
      BY <1>1, <1>2, LeaveEffect, GoToEffect
    <2>. QED
      BY <1>2, <2>1 DEF Fires, Armed
  <1>3. ASSUME UNCHANGED <<kill, late>>, Advance(r), task[r].at \in InAct
        PROVE  Fires(r)
    <2>1. task'[r].at \in {"act", "synthesize"} /\ \A s \in Runs \ {r} : task'[s] = task[s]
      BY <1>1, <1>3, AdvanceEffect
    <2>. QED
      BY <1>3, <2>1 DEF Fires, Armed, Holding, InGraph
  <1>4. ASSUME UNCHANGED <<kill, late>>, GoTo(r, "effect"), task[r].at \in InAct,
               NEW state, Evaluate(task[r].class, autonomy[r], kill, state) = "ALLOW"
        PROVE  Fires(r)
    <2>1. /\ task'[r].at = "effect" /\ task'[r].class = task[r].class
          /\ \A s \in Runs \ {r} : task'[s] = task[s]
      BY <1>1, <1>4, GoToEffect
    <2>2. kill # "clear" => task[r].class = "read"
      BY <1>1, <1>4, KillStopsAll
    <2>. QED
      BY <1>4, <2>1, <2>2 DEF Fires, Armed, Holding, InGraph
  <1>5. CASE Hydrate(r)
    BY <1>5, <1>2 DEF Hydrate, Holding, InGraph, InAct, env, ghosts
  <1>6. CASE ActReplay(r)
    BY <1>6, <1>3 DEF ActReplay, InAct, env, ghosts
  <1>7. CASE ActFromApproval(r) \/ ActDecide(r)
    <2>1. /\ task[r].at = "act" /\ task'[r].at = "gate" /\ UNCHANGED <<kill, late>>
          /\ \A s \in Runs \ {r} : task'[s] = task[s]
      BY <1>1, <1>7 DEF ActFromApproval, ActDecide, TaskAt, env, ghosts
    <2>. QED
      BY <2>1 DEF Fires, Armed, Holding, InGraph, InAct
  <1>8. CASE ActDecideNothing(r)
    BY <1>8, <1>2, <1>3 DEF ActDecideNothing, Holding, InGraph, InAct, env, ghosts
  <1>9. CASE Gate(r)
    <2>1. task[r].at = "gate" /\ UNCHANGED <<kill, late>>
      BY <1>9 DEF Gate, env, ghosts
    <2>2. \/ Advance(r) \/ \E p \in {"interrupt", "regate"} : GoTo(r, p)
          \/ GoTo(r, "effect") /\ Evaluate(task[r].class, autonomy[r], kill, "none") = "ALLOW"
      BY <1>9 DEF Gate
    <2>. QED
      BY <1>2, <1>3, <1>4, <2>1, <2>2 DEF Holding, InGraph, InAct
  <1>10. CASE Interrupt(r)
    <2>1. task[r].at = "interrupt" /\ UNCHANGED <<kill, late>>
      BY <1>10 DEF Interrupt, env, ghosts
    <2>2. Advance(r) \/ GoTo(r, "regate") \/ Leave(r, "parking")
      BY <1>10 DEF Interrupt
    <2>. QED
      BY <1>2, <1>3, <2>1, <2>2 DEF Holding, InGraph, InAct
  <1>11. CASE Regate(r)
    <2>1. task[r].at = "regate" /\ UNCHANGED <<kill, late>>
      BY <1>11 DEF Regate, env, ghosts
    <2>2. \/ Advance(r)
          \/ /\ GoTo(r, "effect")
             /\ \E state : Evaluate(task[r].class, autonomy[r], kill, state) = "ALLOW"
      BY <1>11 DEF Regate
    <2>. QED
      BY <1>3, <1>4, <2>1, <2>2 DEF InAct
  <1>12. CASE Effect(r)
    <2>1. /\ task[r].at = "effect" /\ task'[r].at = "audit" /\ UNCHANGED kill
          /\ \A s \in Runs \ {r} : task'[s] = task[s]
      BY <1>1, <1>12, GoToEffect DEF Effect, env
    <2>2. late' = late \/ (late' = late + 1 /\ kill # "clear" /\ task[r].class # "read")
      BY <1>12 DEF Effect
    <2>. QED
      BY <2>1, <2>2 DEF Fires, Armed, Holding, InGraph, InAct
  <1>13. CASE Audit(r)
    BY <1>13, <1>2 DEF Audit, Holding, InGraph, InAct, env, ghosts
  <1>14. CASE ActReturn(r)
    BY <1>14, <1>3 DEF ActReturn, InAct, env, ghosts
  <1>15. CASE Synthesize(r) \/ Park(r) \/ Finish(r) \/ HookDone(r)
    BY <1>15, <1>2 DEF Synthesize, Park, Finish, HookDone, Holding, InGraph, InAct, env, ghosts
  <1>. QED
    BY <1>5, <1>6, <1>7, <1>8, <1>9, <1>10, <1>11, <1>12, <1>13, <1>14, <1>15 DEF Drive

\* Every other step: only Acquire takes a place, and nobody reaches an effect.
LEMMA HolderSteps == IInv /\ [Next]_vars =>
    \/ \E r \in Runs : Drive(r)
    \/ /\ Armed' \subseteq Armed
       /\ \/ UNCHANGED <<kill, late>>
          \/ kill' # kill /\ late' = IF kill' = "clear" THEN 0 ELSE late
       /\ \/ Holders' \subseteq Holders
          \/ \E r \in Runs : Holders' \subseteq Holders \cup {r} /\ Cardinality(Holders) < MaxConcurrent
  <1>. SUFFICES ASSUME IInv, [Next]_vars, \A r \in Runs : ~ Drive(r)
                PROVE  /\ Armed' \subseteq Armed
                       /\ \/ UNCHANGED <<kill, late>>
                          \/ kill' # kill /\ late' = IF kill' = "clear" THEN 0 ELSE late
                       /\ \/ Holders' \subseteq Holders
                          \/ \E r \in Runs : /\ Holders' \subseteq Holders \cup {r}
                                             /\ Cardinality(Holders) < MaxConcurrent
    OBVIOUS
  <1>1. /\ task \in [Runs -> Tasks] /\ reg \in [Runs -> {"none", "driver", "tail"}]
        /\ ckpt \in [Runs -> Checkpoints]
    BY DEF IInv, TypeOK
  <1>2. ASSUME \A s \in Runs : task'[s] = task[s] \/ task'[s].at \notin Holding
        PROVE  Armed' \subseteq Armed /\ Holders' \subseteq Holders
    BY <1>2 DEF Armed, Holders, Holding, InGraph, InAct
  <1>3. ASSUME NEW r \in Runs, Acquire(r)
        PROVE  /\ Armed' \subseteq Armed /\ UNCHANGED <<kill, late>>
               /\ Holders' \subseteq Holders \cup {r} /\ Cardinality(Holders) < MaxConcurrent
    <2>1. /\ \E p \in {"hydrate", "act", "failing", "finishing", "none", "synthesize", "end"} : Leave(r, p)
          /\ UNCHANGED <<kill, late>> /\ Cardinality(Holders) < MaxConcurrent
      BY <1>1, <1>3 DEF Acquire, Checkpoints, env, ghosts
    <2>2. task'[r].at # "effect" /\ \A s \in Runs \ {r} : task'[s] = task[s]
      BY <1>1, <2>1, LeaveEffect
    <2>. QED
      BY <2>1, <2>2 DEF Armed, Holders
  <1>4. ASSUME NEW r \in Runs, StartRun(r) \/ Resume(r)
        PROVE  /\ UNCHANGED <<kill, late>>
               /\ \A s \in Runs : task'[s] = task[s] \/ task'[s].at \notin Holding
    BY <1>1, <1>4, SpawnEffect DEF StartRun, Resume, env, ghosts, Inputs, Holding, InGraph, InAct
  <1>5. ASSUME NEW r \in Runs, NodeError(r)
        PROVE  Armed' \subseteq Armed /\ Holders' \subseteq Holders /\ UNCHANGED <<kill, late>>
    <2>1. /\ Leave(r, "failing") /\ task[r].at \in InGraph /\ UNCHANGED <<kill, late>>
      BY <1>5 DEF NodeError
    <2>2. task'[r].at = "failing" /\ \A s \in Runs \ {r} : task'[s] = task[s]
      BY <1>1, <2>1, LeaveEffect
    <2>. QED
      BY <2>1, <2>2 DEF Armed, Holders, Holding
  <1>6. ASSUME \/ Stop \/ Crash \/ Exit \/ Boot \/ ExpireApprovals \/ UNCHANGED vars
               \/ \E r \in Runs : \/ RequestResume(r) \/ TailDone(r) \/ CancelTask(r)
                                  \/ CancelRow(r) \/ Lapse(r)
                                  \/ \E c \in Cursors, d \in {"granted", "denied"} : DecideApproval(r, c, d)
        PROVE  UNCHANGED <<kill, late>>
    BY <1>6 DEF Stop, Crash, Exit, ProcessEnds, Boot, ExpireApprovals, vars, RequestResume, TailDone,
       CancelTask, CancelRow, Lapse, DecideApproval, env, ghosts
  <1>7. ASSUME \/ Stop \/ Crash \/ Exit \/ Boot \/ \E r \in Runs : CancelTask(r)
        PROVE  \A s \in Runs : task'[s] = task[s] \/ task'[s].at \notin Holding
    BY <1>7 DEF Stop, Crash, Exit, ProcessEnds, Boot, CancelTask, CancelTasks, NoTask, TaskAt,
       Holding, InGraph, InAct
  <1>8. ASSUME \/ ExpireApprovals \/ UNCHANGED vars \/ KillChange
               \/ \E r \in Runs : \/ RequestResume(r) \/ TailDone(r) \/ CancelRow(r) \/ Lapse(r)
                                  \/ \E c \in Cursors, d \in {"granted", "denied"} : DecideApproval(r, c, d)
        PROVE  UNCHANGED task
    BY <1>8 DEF ExpireApprovals, vars, KillChange, RequestResume, TailDone, CancelRow, Lapse,
       DecideApproval, mem
  <1>9. CASE KillChange
    BY <1>9, <1>8, <1>2 DEF KillChange
  <1>10. CASE \/ Stop \/ Crash \/ Exit \/ Boot \/ ExpireApprovals \/ UNCHANGED vars
    BY <1>10, <1>2, <1>6, <1>7, <1>8
  <1>11. ASSUME NEW r \in Runs, RunNext(r)
         PROVE  /\ Armed' \subseteq Armed /\ UNCHANGED <<kill, late>>
                /\ \/ Holders' \subseteq Holders
                   \/ Holders' \subseteq Holders \cup {r} /\ Cardinality(Holders) < MaxConcurrent
    BY <1>11, <1>2, <1>3, <1>4, <1>5, <1>6, <1>7, <1>8 DEF RunNext
  <1>. QED
    BY <1>9, <1>10, <1>11 DEF Next

LEMMA KillStep == IInv /\ KillInv /\ [Next]_vars => KillInv'
  <1>. SUFFICES ASSUME IInv, KillInv, [Next]_vars PROVE KillInv'
    OBVIOUS
  <1>1. /\ MaxConcurrent \in Nat /\ late \in Nat
        /\ IsFiniteSet(Holders) /\ Cardinality(Holders) \in Nat
        /\ Cardinality(Holders) <= MaxConcurrent
    BY RunnerAssumption, FS_CardinalityType DEF IInv, TypeOK, KillInv
  <1>2. IsFiniteSet(Armed) /\ Cardinality(Armed) \in Nat /\ Cardinality(Armed) <= MaxConcurrent
    <2>1. Armed \subseteq Holders
      BY DEF Armed, Holders, Holding, InGraph, InAct
    <2>. QED
      BY <1>1, <2>1, FS_Subset, FS_CardinalityType
  <1>3. ASSUME Holders' \subseteq Holders
        PROVE  IsFiniteSet(Holders') /\ Cardinality(Holders') <= MaxConcurrent
    BY <1>1, <1>3, FS_Subset, FS_CardinalityType
  <1>4. ASSUME NEW r \in Runs, Holders' \subseteq Holders \cup {r}, Cardinality(Holders) < MaxConcurrent
        PROVE  IsFiniteSet(Holders') /\ Cardinality(Holders') <= MaxConcurrent
    <2>1. /\ IsFiniteSet(Holders \cup {r}) /\ Cardinality(Holders \cup {r}) \in Nat
          /\ Cardinality(Holders \cup {r}) <= MaxConcurrent
      <3>1. /\ IsFiniteSet(Holders \cup {r})
            /\ \/ Cardinality(Holders \cup {r}) = Cardinality(Holders)
               \/ Cardinality(Holders \cup {r}) = Cardinality(Holders) + 1
        BY <1>1, FS_AddElement
      <3>. QED
        BY <1>1, <1>4, <3>1
    <2>. QED
      BY <1>1, <1>4, <2>1, FS_Subset, FS_CardinalityType
  <1>5. ASSUME Armed' \subseteq Armed
        PROVE  Cardinality(Armed') \in Nat /\ Cardinality(Armed') <= Cardinality(Armed)
    BY <1>2, <1>5, FS_Subset, FS_CardinalityType
  <1>6. ASSUME NEW r \in Runs, Drive(r) PROVE KillInv'
    <2>1. Fires(r)
      BY <1>6, FiresByDrive
    <2>2. Holders' \subseteq Holders
      BY <2>1 DEF Fires, Holders
    <2>3. CASE late' = late /\ (kill # "clear" => r \notin Armed')
      <3>1. kill # "clear" => Armed' \subseteq Armed
        BY <2>1, <2>3 DEF Fires, Armed
      <3>. QED
        BY <1>1, <1>2, <1>3, <1>5, <2>1, <2>2, <2>3, <3>1 DEF Fires, KillInv
    <2>4. CASE late' = late + 1 /\ r \in Armed /\ r \notin Armed' /\ kill # "clear"
      <3>1. Armed' \subseteq Armed \ {r}
        BY <2>1, <2>4 DEF Fires, Armed
      <3>2. IsFiniteSet(Armed \ {r}) /\ Cardinality(Armed \ {r}) = Cardinality(Armed) - 1
        BY <1>2, <2>4, FS_RemoveElement
      <3>3. Cardinality(Armed') \in Nat /\ Cardinality(Armed') <= Cardinality(Armed) - 1
        BY <1>2, <3>1, <3>2, FS_Subset, FS_CardinalityType
      <3>. QED
        BY <1>1, <1>2, <1>3, <2>1, <2>2, <2>4, <3>3 DEF Fires, KillInv
    <2>. QED
      BY <2>1, <2>3, <2>4 DEF Fires
  <1>7. CASE /\ Armed' \subseteq Armed
             /\ \/ UNCHANGED <<kill, late>>
                \/ kill' # kill /\ late' = IF kill' = "clear" THEN 0 ELSE late
             /\ \/ Holders' \subseteq Holders
                \/ \E r \in Runs : Holders' \subseteq Holders \cup {r} /\ Cardinality(Holders) < MaxConcurrent
    BY <1>1, <1>2, <1>3, <1>4, <1>5, <1>7 DEF KillInv
  <1>. QED
    BY <1>6, <1>7, HolderSteps

-----------------------------------------------------------------------------
(* The theorems                                                            *)

LEMMA Inductive == Spec => []IInv
  <1>1. IInv /\ [Next]_vars => IInv'
    BY TypeStep, AgreesStep, LocalsStep, GatedStep DEF IInv
  <1>. QED
    BY InitEstablishes, <1>1, PTL DEF Spec

\* Every variable keeps its type: no cursor leaves the step cap and no counter
\* of notifying tasks goes below zero.
THEOREM TypeCorrect == Spec => []TypeOK
  <1>1. IInv => TypeOK
    BY DEF IInv
  <1>. QED
    BY Inductive, <1>1, PTL

\* No side effect that needs a human happens without the granted approval of
\* its class, whatever crashes, resumes, denials and expiries come in between.
THEOREM EffectsAreGated == Spec => []GatedEffects
  <1>1. IInv => GatedEffects
    BY DEF IInv
  <1>. QED
    BY Inductive, <1>1, PTL

\* A parked run has no driver, and a running one has one unless a cancel is
\* under way or the process is going down.
THEOREM RowsMatchTasks == Spec => []RowMatchesTask
  <1>1. IInv => RowMatchesTask
    BY DEF IInv
  <1>. QED
    BY Inductive, <1>1, PTL

\* A step has at most one audit record, and more effects than records only by as
\* many as times its task was cut short, and by the one about to be recorded.
THEOREM RecordedOnce == Spec => []OneRecordPerStep
  <1>1. Init => RecordsAgree /\ OneRecordPerStep
    BY InitRecords
  <1>2. IInv /\ (RecordsAgree /\ OneRecordPerStep) /\ [Next]_vars
            => (RecordsAgree /\ OneRecordPerStep)'
    BY RecordStep DEF RecordInv
  <1>. QED
    BY Inductive, <1>1, <1>2, PTL DEF Spec

\* Engaging the kill switch leaves at most one more side effect per place of
\* the semaphore, and the semaphore never lets more runs in than it has places.
THEOREM KillIsBounded == Spec => []KillBound
  <1>1. Init => KillInv
    <2>. SUFFICES ASSUME Init PROVE KillInv
      OBVIOUS
    <2>1. Holders = {} /\ kill = "clear" /\ late = 0
      BY DEF Init, Holders, Holding, InGraph, InAct, NoTask, TaskAt
    <2>. QED
      BY <2>1, FS_EmptySet, RunnerAssumption DEF KillInv
  <1>2. IInv /\ KillInv => KillBound
    <2>. SUFFICES ASSUME IInv, KillInv PROVE KillBound
      OBVIOUS
    <2>1. Armed \subseteq Holders /\ late \in Nat /\ MaxConcurrent \in Nat
      BY RunnerAssumption DEF Armed, Holders, Holding, InGraph, InAct, IInv, TypeOK
    <2>2. Cardinality(Armed) \in Nat
      BY <2>1, FS_Subset, FS_CardinalityType DEF KillInv
    <2>. QED
      BY <2>1, <2>2 DEF KillInv, KillBound
  <1>. QED
    BY Inductive, <1>1, <1>2, KillStep, PTL DEF Spec

\* A decision on an approval is never taken back or replaced.
THEOREM DecisionsAreFinal == Spec => DecisionFinal
  <1>1. IInv /\ [Next]_vars =>
          [\A r \in Runs, c \in Cursors : apv[r][c].state # "none" =>
              /\ apv'[r][c].class = apv[r][c].class
              /\ apv[r][c].state # "pending" => apv'[r][c].state = apv[r][c].state]_apv
    BY FinalStep DEF Final
  <1>. QED
    BY Inductive, <1>1, PTL DEF Spec, DecisionFinal
=============================================================================
