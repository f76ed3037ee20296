----------------------------- MODULE Orchestrator -----------------------------
(***************************************************************************)
(* The goal orchestrator (orchestration/orchestrator.py): plans and tasks   *)
(* of one goal, the workers dispatched for them, and the run-event hook     *)
(* that verifies a worker's outcome and moves the pipeline on.              *)
(*                                                                         *)
(* A handler is a coroutine in progress: the hook of one event of one run,  *)
(* the autoplan sweep, or a request of the user.  Every database connection *)
(* a handler opens is one step, so handlers interleave exactly where the    *)
(* code awaits.  A worker is its agent_runs row; ExecutiveRun models what   *)
(* happens inside it.                                                       *)
(***************************************************************************)
EXTENDS Naturals, FiniteSets, FiniteSetsExt

CONSTANTS
    NumPlans,        \* bound: goal_plans rows the goal ever gets
    NumSteps,        \* goal_tasks rows of a plan (2 to 6 in the code)
    NumRuns,         \* bound: agent_runs rows started for the goal
    MaxAttempts,     \* goal_tasks.max_attempts (2 in the code)
    MAX_GOAL_PLANS,  \* the plan budget (3 in the code)
    Clients,         \* which of "sweep", "user" may act
    MaxDisturbances  \* bound: parks, cancels, presses of a user and crashes

ASSUME OrchestratorAssumption ==
    /\ NumPlans \in Nat /\ NumSteps \in Nat \ {0} /\ NumRuns \in Nat
    /\ MaxAttempts \in Nat /\ MAX_GOAL_PLANS \in Nat /\ MaxDisturbances \in Nat
    /\ Clients \subseteq {"sweep", "user"}

VARIABLES
    goal,         \* goals.status
    plan,         \* goal_plans.status, "none" for a row not yet inserted
    task,         \* goal_tasks: status, run_id (0: null) and attempt
    run,          \* agent_runs.status, "none" for a row not yet inserted
    handler,      \* the coroutines in progress, with their locals
    work,         \* history: the task a run was started for
    approved,     \* history: the plans that were ever approved
    disturbances

vars == <<goal, plan, task, run, handler, work, approved, disturbances>>

Plans == 1..NumPlans
Tasks == Plans \X (1..NumSteps)
Runs == 1..NumRuns

PlanStates == {"none", "proposed", "approved", "executing", "done", "abandoned"}
LivePlan == {"proposed", "approved", "executing"}
TaskStates == {"pending", "running", "parked", "verifying",
               "completed", "failed", "skipped"}
TaskRows == [status : TaskStates, run : 0..NumRuns, attempt : Nat]
Terminal == {"completed", "failed", "skipped"}
RunStates == {"none", "running", "parked", "completed", "failed", "cancelled"}
LiveRun == {"running", "parked"}

\* The hook of a run runs once for each park and once for its end; the two can
\* be in progress together.
Hooks == Runs \X {"parked", "ended"}
Handlers == Hooks \cup ({0} \X Clients)
Sweeper == <<0, "sweep">>
User == <<0, "user">>

Places == {"idle", "fired", "loaded", "mark", "judge", "rebind", "skip", "next",
           "load", "start", "record", "count", "finalize", "goal", "tally",
           "decompose", "insert", "collect", "each"}

HandlerLocals == [at : Places, plan : 0..NumPlans, step : 0..NumSteps, run : 0..NumRuns,
                  attempt : Nat, seen : RunStates, todo : SUBSET Plans]

Idle == [at |-> "idle", plan |-> 0, step |-> 0, run |-> 0, attempt |-> 0,
         seen |-> "none", todo |-> {}]

Init ==
    /\ goal = "active"
    /\ plan = [p \in Plans |-> "none"]
    /\ task = [t \in Tasks |-> [status |-> "pending", run |-> 0, attempt |-> 0]]
    /\ run = [r \in Runs |-> "none"]
    /\ handler = [x \in Handlers |-> Idle]
    /\ work = [r \in Runs |-> <<0, 0>>]
    /\ approved = {}
    /\ disturbances = 0

At(x, place) == handler[x].at = place
Mine(x) == <<handler[x].plan, handler[x].step>>
Goto(x, place) == handler' = [handler EXCEPT ![x].at = place]
\* The same, where only the plan (and the sweep's list) is used from there on.
GoOn(x, place) ==
    handler' = [handler EXCEPT ![x] =
        [Idle EXCEPT !.at = place, !.plan = handler[x].plan, !.todo = handler[x].todo]]
Ends(x) == handler' = [handler EXCEPT ![x] = Idle]

\* A handler comes back from dispatch: the hook recomputes the progress of its
\* plan, the sweep turns to its next plan, a request is answered.
Return(x) ==
    IF x \in Hooks THEN GoOn(x, "count")
    ELSE IF handler[x].todo # {} THEN GoOn(x, "each")
    ELSE Ends(x)

Disturb ==
    /\ disturbances < MaxDisturbances
    /\ disturbances' = disturbances + 1

Pending(p) == {s \in 1..NumSteps : task[<<p, s>>].status = "pending"}
Created == {p \in Plans : plan[p] # "none"}

-----------------------------------------------------------------------------
(* Workers.                                                                *)

\* Runner.start_run on behalf of handler x, for task t: the smallest unused row.
Starts(x, t, place) ==
    \E r \in Runs :
        /\ run[r] = "none"
        /\ \A s \in Runs : s < r => run[s] # "none"
        /\ run' = [run EXCEPT ![r] = "running"]
        /\ work' = [work EXCEPT ![r] = t]
        /\ handler' = [handler EXCEPT ![x].at = place, ![x].run = r]

\* A run changes state, and its driver fires the hook.
RunEnds(r) ==
    /\ run[r] = "running"
    /\ \E status \in {"completed", "failed"} : run' = [run EXCEPT ![r] = status]
    /\ handler' = [handler EXCEPT ![<<r, "ended">>].at = "fired"]
    /\ UNCHANGED <<goal, plan, task, work, approved, disturbances>>

\* One hook of a park at a time: a bound, for a run that parks again while the
\* hook of its first park is still busy.
RunParks(r) ==
    /\ run[r] = "running" /\ At(<<r, "parked">>, "idle")
    /\ Disturb
    /\ run' = [run EXCEPT ![r] = "parked"]
    /\ handler' = [handler EXCEPT ![<<r, "parked">>].at = "fired"]
    /\ UNCHANGED <<goal, plan, task, work, approved>>

RunResumes(r) ==
    /\ run[r] = "parked"
    /\ run' = [run EXCEPT ![r] = "running"]
    /\ UNCHANGED <<goal, plan, task, handler, work, approved, disturbances>>

\* Runner.cancel fires no hook.
RunCancelled(r) ==
    /\ run[r] \in LiveRun
    /\ Disturb
    /\ run' = [run EXCEPT ![r] = "cancelled"]
    /\ UNCHANGED <<goal, plan, task, handler, work, approved>>

-----------------------------------------------------------------------------
(* Decompose, approve, dispatch.                                           *)

\* decompose_goal after the model answered, or failed to.
AfterDecompose(x) ==
    handler' = [handler EXCEPT ![x] =
        IF x = Sweeper THEN [Idle EXCEPT !.at = "collect"] ELSE Idle]

\* The transaction's first statement, which supersedes the live plans, sees the
\* plans committed by now; they are locked until the commit.
DecomposeGoal(x) ==
    /\ At(x, "decompose")
    /\ \/ AfterDecompose(x)
       \/ handler' = [handler EXCEPT ![x].at = "insert",
                       ![x].todo = {p \in Plans : plan[p] \in LivePlan}]
    /\ UNCHANGED <<goal, plan, task, run, work, approved, disturbances>>

\* Its commit: a plan another decomposition inserted meanwhile stays live.
InsertPlan(x) ==
    /\ At(x, "insert")
    /\ \E p \in Plans :
        /\ plan[p] = "none"
        /\ \A o \in Plans : o < p => plan[o] # "none"
        /\ plan' = [o \in Plans |->
                IF o = p THEN "proposed"
                ELSE IF o \in handler[x].todo /\ plan[o] \in LivePlan THEN "abandoned"
                ELSE plan[o]]
    /\ AfterDecompose(x)
    /\ UNCHANGED <<goal, task, run, work, approved, disturbances>>

ApprovePlan(p) ==
    /\ "user" \in Clients /\ Disturb
    /\ plan[p] = "proposed"
    /\ plan' = [plan EXCEPT ![p] = "approved"]
    /\ approved' = approved \cup {p}
    /\ UNCHANGED <<goal, task, run, handler, work>>

\* execute_plan up to dispatch_plan: approve if proposed, read the status back.
Approves(x, p, todo) ==
    /\ plan' = [plan EXCEPT ![p] = IF @ = "proposed" THEN "approved" ELSE @]
    /\ approved' = IF plan[p] = "proposed" THEN approved \cup {p} ELSE approved
    /\ handler' = [handler EXCEPT ![x] =
            IF plan'[p] \in {"approved", "executing"}
            THEN [Idle EXCEPT !.at = "next", !.plan = p, !.todo = todo]
            ELSE IF todo # {} THEN [Idle EXCEPT !.at = "each", !.todo = todo]
            ELSE Idle]

\* Mutant: no ORDER BY seq.
NextPending_AnyOrder(x) ==
    /\ At(x, "next")
    /\ LET p == handler[x].plan IN
       \/ Pending(p) = {} /\ Return(x)
       \/ \E s \in Pending(p) :
            handler' = [handler EXCEPT ![x].at = "load", ![x].step = s]
    /\ UNCHANGED <<goal, plan, task, run, work, approved, disturbances>>

\* _next_pending_task_id
NextPending(x) ==
    /\ At(x, "next")
    /\ LET p == handler[x].plan IN
       IF Pending(p) = {}
       THEN Return(x)
       ELSE handler' = [handler EXCEPT ![x].at = "load", ![x].step = Min(Pending(p))]
    /\ UNCHANGED <<goal, plan, task, run, work, approved, disturbances>>

\* Mutant: the status of the plan is not looked at.
LoadTask_AnyPlan(x) ==
    /\ At(x, "load")
    /\ IF task[Mine(x)].status \in {"running", "completed"}
       THEN Return(x)
       ELSE Goto(x, "start")
    /\ UNCHANGED <<goal, plan, task, run, work, approved, disturbances>>

\* dispatch_task, its first read
LoadTask(x) ==
    /\ At(x, "load")
    /\ IF \/ task[Mine(x)].status \in {"running", "completed"}
          \/ plan[handler[x].plan] \notin {"approved", "executing"}
       THEN Return(x)
       ELSE Goto(x, "start")
    /\ UNCHANGED <<goal, plan, task, run, work, approved, disturbances>>

\* dispatch_task after place_goal: the run exists before the task knows it.
StartWorker(x) ==
    /\ At(x, "start")
    /\ Starts(x, Mine(x), "record")
    /\ UNCHANGED <<goal, plan, task, approved, disturbances>>

\* Mutant: the plan's UPDATE without AND status='approved'.
RecordWorker_NoGuard(x) ==
    /\ At(x, "record")
    /\ task' = [task EXCEPT ![Mine(x)].status = "running",
                            ![Mine(x)].run = handler[x].run]
    /\ plan' = [plan EXCEPT ![handler[x].plan] = "executing"]
    /\ Return(x)
    /\ UNCHANGED <<goal, run, work, approved, disturbances>>

RecordWorker(x) ==
    /\ At(x, "record")
    /\ task' = [task EXCEPT ![Mine(x)].status = "running",
                            ![Mine(x)].run = handler[x].run]
    /\ plan' = [plan EXCEPT ![handler[x].plan] = IF @ = "approved" THEN "executing" ELSE @]
    /\ Return(x)
    /\ UNCHANGED <<goal, run, work, approved, disturbances>>

-----------------------------------------------------------------------------
(* The autoplan sweep, with auto_plan and auto_execute on.                 *)

\* A goal without a live plan, its budget not spent, is decomposed.
SweepPlans ==
    /\ "sweep" \in Clients /\ At(Sweeper, "idle")
    /\ goal = "active"
    /\ \A p \in Plans : plan[p] \notin LivePlan
    /\ Cardinality(Created) < MAX_GOAL_PLANS
    /\ Goto(Sweeper, "decompose")
    /\ UNCHANGED <<goal, plan, task, run, work, approved, disturbances>>

\* The proposed plans of an active goal, read once for the rest of the sweep (a
\* sweep that had nothing to decompose only reads here: its first SELECT changed
\* nothing).  AUTO_EXECUTE_PER_SWEEP is at least NumPlans.
SweepCollects ==
    LET proposed == IF goal = "active"
                    THEN {p \in Plans : plan[p] = "proposed"} ELSE {} IN
    /\ \/ At(Sweeper, "collect")
       \/ At(Sweeper, "idle") /\ proposed # {}
    /\ handler' = [handler EXCEPT ![Sweeper] =
            IF proposed = {} THEN Idle
            ELSE [Idle EXCEPT !.at = "each", !.todo = proposed]]
    /\ UNCHANGED <<goal, plan, task, run, work, approved, disturbances>>

SweepExecutes ==
    /\ At(Sweeper, "each")
    /\ LET todo == handler[Sweeper].todo IN
       Approves(Sweeper, Min(todo), todo \ {Min(todo)})
    /\ UNCHANGED <<goal, task, run, work, disturbances>>

-----------------------------------------------------------------------------
(* The user's requests.                                                    *)

UserExecutes(p) ==
    /\ At(User, "idle") /\ Disturb
    /\ plan[p] # "none"
    /\ Approves(User, p, {})
    /\ UNCHANGED <<goal, task, run, work>>

\* dispatch-all, dispatch of one task, decompose
UserAsks ==
    /\ At(User, "idle") /\ Disturb
    /\ \/ \E p \in Created :
            handler' = [handler EXCEPT ![User] = [Idle EXCEPT !.at = "next", !.plan = p]]
       \/ \E t \in Tasks :
            /\ t[1] \in Created
            /\ handler' = [handler EXCEPT ![User] =
                    [Idle EXCEPT !.at = "load", !.plan = t[1], !.step = t[2]]]
       \/ Goto(User, "decompose")
    /\ UNCHANGED <<goal, plan, task, run, work, approved>>

-----------------------------------------------------------------------------
(* on_worker_done.                                                         *)

\* _load_task_full: the task whose run_id this is, if any and not terminal.
HookLoads(x) ==
    /\ At(x, "fired")
    /\ IF \E t \in Tasks : task[t].run = x[1] /\ task[t].status \notin Terminal
       THEN \E t \in Tasks :
            /\ task[t].run = x[1]
            /\ handler' = [handler EXCEPT ![x].at = "loaded", ![x].plan = t[1],
                                          ![x].step = t[2], ![x].attempt = task[t].attempt]
       ELSE Ends(x)
    /\ UNCHANGED <<goal, plan, task, run, work, approved, disturbances>>

\* The run's own status, not the one the event carried.
HookReadsRun(x) ==
    /\ At(x, "loaded")
    /\ IF run[x[1]] = "running"
       THEN Ends(x)
       ELSE handler' = [handler EXCEPT ![x].at = "mark", ![x].seen = run[x[1]]]
    /\ UNCHANGED <<goal, plan, task, run, work, approved, disturbances>>

HookMarks(x) ==
    /\ At(x, "mark")
    /\ LET seen == handler[x].seen IN
       /\ task' = [task EXCEPT ![Mine(x)].status =
                        CASE seen = "parked" -> "parked"
                          [] seen = "cancelled" -> "skipped"
                          [] OTHER -> "verifying"]
       /\ IF seen \in {"parked", "cancelled"} THEN GoOn(x, "count") ELSE Goto(x, "judge")
    /\ UNCHANGED <<goal, plan, run, work, approved, disturbances>>

\* Mutant: the model is asked about a failed run too.
HookPasses_FailedToo(x) ==
    /\ At(x, "judge")
    /\ task' = [task EXCEPT ![Mine(x)].status = "completed"]
    /\ GoOn(x, "next")
    /\ UNCHANGED <<goal, plan, run, work, approved, disturbances>>

\* verify_task: the judge may say anything of a completed run, and rejects a
\* failed one without asking the model.
HookPasses(x) ==
    /\ At(x, "judge")
    /\ handler[x].seen # "failed"
    /\ task' = [task EXCEPT ![Mine(x)].status = "completed"]
    /\ GoOn(x, "next")
    /\ UNCHANGED <<goal, plan, run, work, approved, disturbances>>

\* Mutant: <= for <.
HookRetries_OneMore(x) ==
    /\ At(x, "judge")
    /\ handler[x].attempt <= MaxAttempts
    /\ Starts(x, Mine(x), "rebind")
    /\ UNCHANGED <<goal, plan, task, approved, disturbances>>

\* _handle_failed_verdict, with the attempt read when the hook began
HookRetries(x) ==
    /\ At(x, "judge")
    /\ handler[x].attempt < MaxAttempts
    /\ Starts(x, Mine(x), "rebind")
    /\ UNCHANGED <<goal, plan, task, approved, disturbances>>

HookRebinds(x) ==
    /\ At(x, "rebind")
    /\ task' = [task EXCEPT ![Mine(x)] = [status |-> "running", run |-> handler[x].run,
                                          attempt |-> @.attempt + 1]]
    /\ GoOn(x, "count")
    /\ UNCHANGED <<goal, plan, run, work, approved, disturbances>>

\* Mutant: the tasks after a failed one are left pending.
HookGivesUp_NoSkip(x) ==
    /\ At(x, "judge")
    /\ handler[x].attempt >= MaxAttempts
    /\ task' = [task EXCEPT ![Mine(x)].status = "failed"]
    /\ GoOn(x, "count")
    /\ UNCHANGED <<goal, plan, run, work, approved, disturbances>>

HookGivesUp(x) ==
    /\ At(x, "judge")
    /\ handler[x].attempt >= MaxAttempts
    /\ task' = [task EXCEPT ![Mine(x)].status = "failed"]
    /\ GoOn(x, "skip")
    /\ UNCHANGED <<goal, plan, run, work, approved, disturbances>>

HookSkipsRest(x) ==
    /\ At(x, "skip")
    /\ task' = [t \in Tasks |->
                    IF t[1] = handler[x].plan /\ task[t].status = "pending"
                    THEN [task[t] EXCEPT !.status = "skipped"] ELSE task[t]]
    /\ GoOn(x, "count")
    /\ UNCHANGED <<goal, plan, run, work, approved, disturbances>>

-----------------------------------------------------------------------------
(* _recompute_progress and _on_plan_complete.                              *)

\* Mutant: a plan with nothing pending is taken for finished.
HookCounts_NonePending(x) ==
    /\ At(x, "count")
    /\ IF Pending(handler[x].plan) = {} THEN GoOn(x, "finalize") ELSE Ends(x)
    /\ UNCHANGED <<goal, plan, task, run, work, approved, disturbances>>

HookCounts(x) ==
    /\ At(x, "count")
    /\ IF \A s \in 1..NumSteps : task[<<handler[x].plan, s>>].status \in Terminal
       THEN GoOn(x, "finalize")
       ELSE Ends(x)
    /\ UNCHANGED <<goal, plan, task, run, work, approved, disturbances>>

HookFinalizes(x) ==
    /\ At(x, "finalize")
    /\ LET p == handler[x].plan IN
       IF plan[p] = "executing"
       THEN plan' = [plan EXCEPT ![p] = "done"] /\ GoOn(x, "goal")
       ELSE UNCHANGED plan /\ Ends(x)
    /\ UNCHANGED <<goal, task, run, work, approved, disturbances>>

HookVerifiesGoal(x) ==
    /\ At(x, "goal")
    /\ \/ goal' = "achieved" /\ Ends(x)
       \/ goal' = goal /\ GoOn(x, "tally")
    /\ UNCHANGED <<plan, task, run, work, approved, disturbances>>

HookTallies(x) ==
    /\ At(x, "tally")
    /\ IF Cardinality(Created) < MAX_GOAL_PLANS THEN handler' = [handler EXCEPT ![x] = [Idle EXCEPT !.at = "decompose"]]
       ELSE Ends(x)
    /\ UNCHANGED <<goal, plan, task, run, work, approved, disturbances>>

-----------------------------------------------------------------------------
\* Every coroutine is lost; rows stay, and a running run is driven again from its
\* checkpoint by the restarted executor.
Crash ==
    /\ Disturb
    /\ handler' = [x \in Handlers |-> Idle]
    /\ UNCHANGED <<goal, plan, task, run, work, approved>>

HookStep(x) ==
    \/ HookLoads(x) \/ HookReadsRun(x) \/ HookMarks(x)
    \/ HookPasses(x) \/ HookRetries(x) \/ HookRebinds(x)
    \/ HookGivesUp(x) \/ HookSkipsRest(x)
    \/ HookCounts(x) \/ HookFinalizes(x) \/ HookVerifiesGoal(x) \/ HookTallies(x)

HandlerStep(x) ==
    \/ DecomposeGoal(x) \/ InsertPlan(x)
    \/ NextPending(x) \/ LoadTask(x) \/ StartWorker(x) \/ RecordWorker(x)

SweepStep == (~At(Sweeper, "idle") /\ SweepCollects) \/ SweepExecutes

Next ==
    \/ \E r \in Runs : RunEnds(r) \/ RunParks(r) \/ RunResumes(r) \/ RunCancelled(r)
    \/ \E x \in Hooks : HookStep(x)
    \/ \E x \in Handlers : HandlerStep(x)
    \/ "sweep" \in Clients /\ (SweepPlans \/ SweepCollects \/ SweepExecutes)
    \/ \E p \in Plans : ApprovePlan(p)
    \/ "user" \in Clients /\ ((\E p \in Plans : UserExecutes(p)) \/ UserAsks)
    \/ Crash

\* The event loop runs every coroutine on, and a worker's steps are capped; a
\* parked run waits for a person, who owes nothing, and so does the clock that
\* starts the sweep.
Fairness ==
    /\ \A x \in Hooks : WF_vars(HookStep(x))
    /\ \A x \in Handlers : WF_vars(HandlerStep(x))
    /\ "sweep" \in Clients => WF_vars(SweepStep)
    /\ \A r \in Runs : WF_vars(RunEnds(r))

Spec == Init /\ [][Next]_vars /\ Fairness

-----------------------------------------------------------------------------
(* Properties.  Those of the hands-off pipeline, which the sweep starts and  *)
(* the hooks drive, speak of the states before the first disturbance.       *)

HandsOff == disturbances = 0
WorkersOn(p) == {r \in Runs : run[r] \in LiveRun /\ work[r][1] = p}

TypeOK ==
    /\ goal \in {"active", "achieved"}
    /\ plan \in [Plans -> PlanStates]
    /\ task \in [Tasks -> TaskRows]
    /\ run \in [Runs -> RunStates]
    /\ handler \in [Handlers -> HandlerLocals]
    /\ work \in [Runs -> (0..NumPlans) \X (0..NumSteps)]
    /\ approved \subseteq Plans
    /\ disturbances \in 0..MaxDisturbances

\* "Nothing runs until approve_plan": whatever a request has read, and however
\* long ago, no worker is started for a plan that was never approved.
NothingBeforeApproval == \A r \in Runs : run[r] # "none" => work[r][1] \in approved

\* A plan never goes back: the guards of the UPDATEs stop a dispatch, a
\* completion and a decomposition that act on what they read before from
\* reviving a plan another handler has closed.
Rank == [none |-> 0, proposed |-> 1, approved |-> 2, executing |-> 3,
         abandoned |-> 4, done |-> 4]
PlansMoveForward ==
    [][\A p \in Plans : plan'[p] = plan[p] \/ Rank[plan[p]] < Rank[plan'[p]]]_vars

\* "Sequential pipeline": left alone, a plan never has two workers at once (the
\* retry of a step and the start of the next exclude each other), and a verify
\* gate stands between the steps: a step has a worker only when all the steps
\* before it were verified.
Sequential ==
    HandsOff =>
        /\ \A p \in Plans : Cardinality(WorkersOn(p)) <= 1
        /\ \A r \in Runs : run[r] # "none" =>
            \A s \in 1..(work[r][2] - 1) : task[<<work[r][1], s>>].status = "completed"

\* A completed task rests on a run that completed: no verdict about an earlier
\* attempt is credited to the task.
VerifiedWork ==
    HandsOff => \A t \in Tasks :
        task[t].status = "completed" => run[task[t].run] = "completed"

\* The self-improvement loop is bounded: max_attempts retries after the first
\* worker, counting workers and not the column.
AttemptsBounded ==
    HandsOff => \A t \in Tasks :
        Cardinality({r \in Runs : work[r] = t}) <= MaxAttempts + 1

\* A plan is done only when nothing of it is left to do: between the count of the
\* tasks and the UPDATE of the plan no task comes back.
DoneIsSettled ==
    HandsOff => \A p \in Plans : plan[p] = "done" =>
        \A s \in 1..NumSteps : task[<<p, s>>].status \in Terminal

\* Left alone, a plan under way ends or is superseded, unless a worker outran the
\* UPDATE that was to record it: its hook found no task, and the task waits for
\* an event that has already happened.
Orphaned(p) ==
    \E s \in 1..NumSteps : LET t == task[<<p, s>>] IN
        t.status = "running" /\ run[t.run] \notin LiveRun
OutOfRows == \A r \in Runs : run[r] # "none"    \* the bound NumRuns is spent
OnlyOrphansStall ==
    \A p \in Plans : plan[p] = "executing" ~>
        (plan[p] # "executing" \/ Orphaned(p) \/ ~HandsOff \/ OutOfRows)

\* "Already-terminal task (a stale/duplicate hook firing): nothing to do"
\* (on_worker_done): as long as a task keeps its run, its end is its end.
TerminalStays ==
    [][\A t \in Tasks :
        task[t].status \in Terminal /\ task'[t].run = task[t].run
            => task'[t].status = task[t].status]_vars

=============================================================================
