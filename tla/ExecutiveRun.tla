---------------------------- MODULE ExecutiveRun ----------------------------
(***************************************************************************)
(* The life of Executive runs: orchestration.runner.Runner (the agent_runs *)
(* row, the asyncio tasks that drive it, the semaphore, drain, recovery),  *)
(* the act loop of orchestration.graph with its checkpoints, the approvals *)
(* of agent.approval_service and the kill switch.                          *)
(*                                                                         *)
(* The process may crash between any two steps.  Rows, approvals, audit    *)
(* rows and LangGraph's checkpoints survive; tasks, the semaphore and the  *)
(* requests in flight do not.  A step of the model stands for the code     *)
(* between two awaits at which another task can change what it reads.      *)
(***************************************************************************)
EXTENDS PDP, Sequences, FiniteSets

CONSTANTS
    Runs,           \* run ids that may be minted
    Classes,        \* action classes of the tools the model may pick
    KillStates,     \* what read_kill may report: "clear", "set", "unreadable"
    MaxConcurrent,  \* Runner(max_concurrent), 2 in the code
    MaxSteps,       \* graph.MAX_STEPS, 9 in the code
    MaxFaults       \* bound: crashes, drains, cancels, errors and manual resumes

ASSUME RunnerAssumption ==
    /\ Classes \subseteq ActionClasses
    /\ "clear" \in KillStates
    /\ KillStates \subseteq {"clear", "set", "unreadable"}
    /\ MaxConcurrent \in Nat \ {0}
    /\ MaxSteps \in Nat \ {0}
    /\ MaxFaults \in Nat

VARIABLES
    row,        \* agent_runs.status, "none" before the INSERT
    autonomy,   \* agent_runs.autonomy_level, carried in the graph state
    ckpt,       \* LangGraph checkpoint: the next node, the cursor, and whether
                \* the interrupt of the current node has been answered
    apv,        \* the approvals row found by (run_id, payload cursor)
    audit,      \* number of action/observation/tool_call triples at a cursor
    task,       \* the asyncio task that drives the graph of a run, its locals
    reg,        \* which task of the run Runner._tasks refers to
    tails,      \* tasks of the run past _park's UPDATE, still notifying
    wake,       \* a resume call is in flight (a second one adds nothing: the
                \* row it finds is no longer parked)
    cancelling, \* Runner.cancel is between t.cancel() and its UPDATE
    up,         \* the process: "up", "draining" (Runner.stop), "down" after a
                \* crash or "stopped" after the exit that ends a drain
    kill,       \* the kill switch as read_kill reports it
    faults,     \* disturbances so far
    log,        \* history: classes of the side effects executed at a cursor
    late,       \* history: side effects executed since the kill engaged
    breaks,     \* history: times the driving task of a run was cut short
    nodeErr     \* history: an exception escaped a node of the run

db == <<row, autonomy, ckpt, apv, audit>>
mem == <<task, reg, tails, wake, cancelling>>
env == <<up, kill, faults>>
ghosts == <<log, late, breaks, nodeErr>>
vars == <<row, autonomy, ckpt, apv, audit, task, reg, tails, wake, cancelling,
          up, kill, faults, log, late, breaks, nodeErr>>

Cursors == 0 .. MaxSteps - 1
Autonomies == {ConfirmEach, FullAuto}   \* Runner._resolve_autonomy's two answers
RowStates == {"none", "running", "parked", "completed", "failed", "cancelled"}
Terminal == {"completed", "failed", "cancelled"}
NoClass == "none"
NoApproval == [state |-> "none", class |-> NoClass, lapsed |-> FALSE]

Gone == {"down", "stopped"}

\* Where a driving task is.  It holds the semaphore at the Holding places; the
\* failure path of _drive finishes, hook included, without leaving it.
InAct == {"act", "gate", "interrupt", "regate", "effect", "audit", "audited"}
InGraph == InAct \cup {"hydrate", "synthesize"}
Holding == InGraph \cup {"failing", "hookHeld"}
Places == Holding \cup {"none", "queued", "parking", "finishing", "hook"}

\* The locals: what the task passes to ainvoke, and in the act node the
\* action's class and the approval state read at its top.
TaskAt(place) == [at |-> place, input |-> "none", class |-> NoClass, seen |-> "none"]
NoTask == TaskAt("none")

Holders == {r \in Runs : task[r].at \in Holding}
Cursor(r) == ckpt[r].cursor
Approval(r) == apv[r][Cursor(r)]

Inputs == {"none", "initial", "checkpoint", "wake"}
Tasks == [at : Places, input : Inputs, class : Classes \cup {NoClass}, seen : ApprovalStates]
Checkpoints == [next : {"none", "hydrate", "act", "synthesize", "end"},
                cursor : 0 .. MaxSteps, answered : BOOLEAN]
ApprovalRows == [state : ApprovalStates, class : Classes \cup {NoClass}, lapsed : BOOLEAN]

TypeOK ==
    /\ row \in [Runs -> RowStates]
    /\ autonomy \in [Runs -> Autonomies]
    /\ ckpt \in [Runs -> Checkpoints]
    /\ apv \in [Runs -> [Cursors -> ApprovalRows]]
    /\ audit \in [Runs -> [Cursors -> Nat]]
    /\ task \in [Runs -> Tasks]
    /\ reg \in [Runs -> {"none", "driver", "tail"}]
    /\ tails \in [Runs -> Nat]
    /\ wake \in [Runs -> BOOLEAN]
    /\ cancelling \in [Runs -> BOOLEAN]
    /\ up \in {"up", "draining"} \cup Gone
    /\ kill \in KillStates
    /\ faults \in 0 .. MaxFaults
    /\ log \in [Runs -> [Cursors -> Seq(Classes)]]
    /\ late \in Nat
    /\ breaks \in [Runs -> Nat]
    /\ nodeErr \in [Runs -> BOOLEAN]

Init ==
    /\ row = [r \in Runs |-> "none"]
    /\ autonomy = [r \in Runs |-> ConfirmEach]
    /\ ckpt = [r \in Runs |-> [next |-> "none", cursor |-> 0, answered |-> FALSE]]
    /\ apv = [r \in Runs |-> [c \in Cursors |-> NoApproval]]
    /\ audit = [r \in Runs |-> [c \in Cursors |-> 0]]
    /\ task = [r \in Runs |-> NoTask]
    /\ reg = [r \in Runs |-> "none"]
    /\ tails = [r \in Runs |-> 0]
    /\ wake = [r \in Runs |-> FALSE]
    /\ cancelling = [r \in Runs |-> FALSE]
    /\ up = "up"
    /\ kill = "clear"
    /\ faults = 0
    /\ log = [r \in Runs |-> [c \in Cursors |-> <<>>]]
    /\ late = 0
    /\ breaks = [r \in Runs |-> 0]
    /\ nodeErr = [r \in Runs |-> FALSE]

\* The task moves on: GoTo keeps its locals, Leave drops them.
GoTo(r, place) == task' = [task EXCEPT ![r].at = place]
Leave(r, place) == task' = [task EXCEPT ![r] = TaskAt(place)]

\* A disturbance, counted against the bound.
Fault == /\ faults < MaxFaults
         /\ faults' = faults + 1

-----------------------------------------------------------------------------
(* Runner: start, resume and the semaphore                                 *)

\* Runner._spawn: a new task, and _tasks[run] refers to it from now on.
Spawn(r, input) ==
    /\ task' = [task EXCEPT ![r] = [TaskAt("queued") EXCEPT !.input = input]]
    /\ reg' = [reg EXCEPT ![r] = "driver"]

\* Runner.start_run: refused while draining.  The INSERT commits before _spawn;
\* a crash in between leaves what the crash of a queued task leaves.
StartRun(r) ==
    /\ up = "up"
    /\ row[r] = "none"
    /\ row' = [row EXCEPT ![r] = "running"]
    /\ \E a \in Autonomies : autonomy' = [autonomy EXCEPT ![r] = a]
    /\ Spawn(r, "initial")
    /\ UNCHANGED <<ckpt, apv, audit, tails, wake, cancelling, env, ghosts>>

\* Runner.resume: only a parked row is resumed; for any other the call returns
\* False and the wake-up is spent.
Resume(r) ==
    /\ up = "up"
    /\ wake[r]
    /\ wake' = [wake EXCEPT ![r] = FALSE]
    /\ \/ /\ row[r] = "parked"
          /\ row' = [row EXCEPT ![r] = "running"]
          /\ Spawn(r, "wake")
       \/ /\ row[r] # "parked"
          /\ UNCHANGED <<row, task, reg>>
    /\ UNCHANGED <<autonomy, ckpt, apv, audit, tails, cancelling, env, ghosts>>

\* POST /agents/runs/{id}/resume, which a user may call at any time.
RequestResume(r) ==
    /\ up = "up"
    /\ row[r] # "none"
    /\ ~wake[r]
    /\ Fault
    /\ wake' = [wake EXCEPT ![r] = TRUE]
    /\ UNCHANGED <<db, task, reg, tails, cancelling, up, kill, ghosts>>

\* ainvoke once the semaphore is held.  The first checkpoint of a run is
\* written here, not when the run is queued: with neither an input nor a
\* checkpoint LangGraph raises, and _drive takes the failure path.
Acquire(r) ==
    /\ task[r].at = "queued"
    /\ Cardinality(Holders) < MaxConcurrent
    /\ \/ /\ task[r].input = "initial"
          /\ ckpt' = [ckpt EXCEPT ![r].next = "hydrate"]
          /\ Leave(r, "hydrate")
       \/ /\ task[r].input = "wake"
          /\ ckpt' = [ckpt EXCEPT ![r].answered = TRUE]
          /\ Leave(r, "act")
       \/ /\ task[r].input = "checkpoint"
          /\ Leave(r, CASE ckpt[r].next = "none" -> "failing"
                        [] ckpt[r].next = "end" -> "finishing"
                        [] OTHER -> ckpt[r].next)
          /\ UNCHANGED ckpt
    /\ UNCHANGED <<row, autonomy, apv, audit, reg, tails, wake, cancelling, env, ghosts>>

-----------------------------------------------------------------------------
(* The graph                                                               *)

\* The hydrate node: memory, identity, goals and lessons into the context.
Hydrate(r) ==
    /\ task[r].at = "hydrate"
    /\ ckpt' = [ckpt EXCEPT ![r] = [next |-> "act", cursor |-> 0, answered |-> FALSE]]
    /\ Leave(r, "act")
    /\ UNCHANGED <<row, autonomy, apv, audit, reg, tails, wake, cancelling, env, ghosts>>

\* A loop index that never moves: the step cap is never reached.
Advance_SameCursor(r) ==
    /\ ckpt' = [ckpt EXCEPT ![r] = [next |-> "act", cursor |-> Cursor(r), answered |-> FALSE]]
    /\ Leave(r, "act")

\* The act node returns cursor + 1: LangGraph checkpoints and route_after_act
\* picks the next node.
Advance(r) ==
    LET n == Cursor(r) + 1
        next == IF n >= MaxSteps THEN "synthesize" ELSE "act"
    IN  /\ ckpt' = [ckpt EXCEPT ![r] = [next |-> next, cursor |-> n, answered |-> FALSE]]
        /\ Leave(r, next)

\* Top of the act node: the replay guard first, ...
ActReplay(r) ==
    /\ task[r].at = "act"
    /\ audit[r][Cursor(r)] > 0
    /\ Advance(r)
    /\ UNCHANGED <<row, autonomy, apv, audit, reg, tails, wake, cancelling, env, ghosts>>

\* ... then the approval of this cursor, whose payload names the action, ...
ActFromApproval(r) ==
    /\ task[r].at = "act"
    /\ audit[r][Cursor(r)] = 0
    /\ Approval(r).state # "none"
    /\ task' = [task EXCEPT ![r] = [TaskAt("gate") EXCEPT
                  !.class = Approval(r).class, !.seen = Approval(r).state]]
    /\ UNCHANGED <<db, reg, tails, wake, cancelling, env, ghosts>>

\* ... then the model's decision: done or a tool outside the registry, ...
ActDecideNothing(r) ==
    /\ task[r].at = "act"
    /\ audit[r][Cursor(r)] = 0
    /\ Approval(r).state = "none"
    /\ \/ /\ ckpt' = [ckpt EXCEPT ![r].next = "synthesize"]
          /\ Leave(r, "synthesize")
       \/ Advance(r)
    /\ UNCHANGED <<row, autonomy, apv, audit, reg, tails, wake, cancelling, env, ghosts>>

\* (without the replay guard, an action already recorded is decided again)
ActDecide_NoReplayGuard(r) ==
    /\ task[r].at = "act"
    /\ Approval(r).state = "none"
    /\ \E k \in Classes : task' = [task EXCEPT ![r] = [TaskAt("gate") EXCEPT !.class = k]]
    /\ UNCHANGED <<db, reg, tails, wake, cancelling, env, ghosts>>

\* ... or an action of some class.
ActDecide(r) ==
    /\ task[r].at = "act"
    /\ audit[r][Cursor(r)] = 0
    /\ Approval(r).state = "none"
    /\ \E k \in Classes : task' = [task EXCEPT ![r] = [TaskAt("gate") EXCEPT !.class = k]]
    /\ UNCHANGED <<db, reg, tails, wake, cancelling, env, ghosts>>

\* A gate that evaluates every action at full autonomy.
Gate_IgnoresAutonomy(r) ==
    /\ task[r].at = "gate"
    /\ IF Evaluate(task[r].class, FullAuto, kill, "none") = "ALLOW"
       THEN GoTo(r, "effect") /\ UNCHANGED ckpt
       ELSE Advance(r)
    /\ UNCHANGED <<row, autonomy, apv, audit, reg, tails, wake, cancelling, env, ghosts>>

\* A gate that does not read the kill switch again.
Gate_NoKillRead(r) ==
    /\ task[r].at = "gate"
    /\ IF Evaluate(task[r].class, autonomy[r], "clear", "none") = "ALLOW"
       THEN GoTo(r, "effect") /\ UNCHANGED ckpt
       ELSE Advance(r)
    /\ UNCHANGED <<row, autonomy, apv, audit, reg, tails, wake, cancelling, env, ghosts>>

\* The first evaluation.  REQUIRE_APPROVAL creates the approval row on first
\* encounter, and otherwise goes by the state read at the top of the node.
Gate(r) ==
    /\ task[r].at = "gate"
    /\ LET verdict == Evaluate(task[r].class, autonomy[r], kill, "none")
           ask == verdict = "REQUIRE_APPROVAL"
       IN  \/ /\ verdict = "ALLOW"
              /\ GoTo(r, "effect")
              /\ UNCHANGED <<ckpt, apv>>
           \/ /\ ask
              /\ task[r].seen = "none"
              /\ apv' = [apv EXCEPT ![r][Cursor(r)] =
                            [state |-> "pending", class |-> task[r].class, lapsed |-> FALSE]]
              /\ GoTo(r, "interrupt")
              /\ UNCHANGED ckpt
           \/ /\ ask
              /\ task[r].seen = "pending"
              /\ GoTo(r, "interrupt")
              /\ UNCHANGED <<ckpt, apv>>
           \/ /\ ask
              /\ task[r].seen = "granted"
              /\ GoTo(r, "regate")
              /\ UNCHANGED <<ckpt, apv>>
           \/ /\ \/ ask /\ task[r].seen \in {"denied", "expired"}
                 \/ verdict \notin {"ALLOW", "REQUIRE_APPROVAL"}
              /\ Advance(r)
              /\ UNCHANGED apv
    /\ UNCHANGED <<row, autonomy, audit, reg, tails, wake, cancelling, env, ghosts>>

\* interrupt(): raises unless this execution of the node has a resume value;
\* with one, the approval is read again and a pending one raises once more.
Interrupt(r) ==
    /\ task[r].at = "interrupt"
    /\ \/ /\ ~ckpt[r].answered \/ Approval(r).state = "pending"
          /\ Leave(r, "parking")
          /\ UNCHANGED ckpt
       \/ /\ ckpt[r].answered
          /\ Approval(r).state = "granted"
          /\ GoTo(r, "regate")
          /\ UNCHANGED ckpt
       \/ /\ ckpt[r].answered
          /\ Approval(r).state \notin {"pending", "granted"}
          /\ Advance(r)
    /\ UNCHANGED <<row, autonomy, apv, audit, reg, tails, wake, cancelling, env, ghosts>>

\* The evaluation that passes the approval's id: _approval_state finds it for
\* the same action class and only while expires_at lies ahead.
Regate(r) ==
    /\ task[r].at = "regate"
    /\ LET a == Approval(r)
           found == IF a.lapsed \/ a.class # task[r].class THEN "none" ELSE a.state
           verdict == Evaluate(task[r].class, autonomy[r], kill, found)
       IN  \/ /\ verdict = "ALLOW"
              /\ GoTo(r, "effect")
              /\ UNCHANGED ckpt
           \/ /\ verdict # "ALLOW"
              /\ Advance(r)
    /\ UNCHANGED <<row, autonomy, apv, audit, reg, tails, wake, cancelling, env, ghosts>>

\* execute_tool: the side effect has happened, its audit rows do not exist yet.
Effect(r) ==
    /\ task[r].at = "effect"
    /\ log' = [log EXCEPT ![r][Cursor(r)] = Append(@, task[r].class)]
    /\ late' = IF kill # "clear" /\ task[r].class # "read" THEN late + 1 ELSE late
    /\ GoTo(r, "audit")
    /\ UNCHANGED <<db, reg, tails, wake, cancelling, env, breaks, nodeErr>>

\* One transaction: action, observation, hash-chained tool_call.
Audit(r) ==
    /\ task[r].at = "audit"
    /\ audit' = [audit EXCEPT ![r][Cursor(r)] = @ + 1]
    /\ GoTo(r, "audited")
    /\ UNCHANGED <<row, autonomy, ckpt, apv, reg, tails, wake, cancelling, env, ghosts>>

\* The act node returns after its audit transaction; the checkpoint follows.
ActReturn(r) ==
    /\ task[r].at = "audited"
    /\ Advance(r)
    /\ UNCHANGED <<row, autonomy, apv, audit, reg, tails, wake, cancelling, env, ghosts>>

\* synthesize and record: the summary, the run's episode, the end of the graph.
Synthesize(r) ==
    /\ task[r].at = "synthesize"
    /\ ckpt' = [ckpt EXCEPT ![r].next = "end"]
    /\ Leave(r, "finishing")
    /\ UNCHANGED <<row, autonomy, apv, audit, reg, tails, wake, cancelling, env, ghosts>>

\* An exception escapes a node (a database error; a tool's own are caught).  A
\* task that outlived Runner.stop also meets the closed checkpointer pool.
NodeError(r) ==
    /\ task[r].at \in InGraph \ {"effect", "audited"}
    /\ \/ Fault
       \/ up = "draining" /\ UNCHANGED faults
    /\ Leave(r, "failing")
    /\ nodeErr' = [nodeErr EXCEPT ![r] = TRUE]
    /\ breaks' = [breaks EXCEPT ![r] = @ + 1]
    /\ UNCHANGED <<db, reg, tails, wake, cancelling, up, kill, log, late>>

-----------------------------------------------------------------------------
(* Runner: park, finish and the end of a task                              *)

\* _park's UPDATE, guarded by status = 'running'; the task lives on to notify.
Park(r) ==
    /\ task[r].at = "parking"
    /\ row' = [row EXCEPT ![r] = IF @ = "running" THEN "parked" ELSE @]
    /\ Leave(r, "none")
    /\ tails' = [tails EXCEPT ![r] = @ + 1]
    /\ reg' = [reg EXCEPT ![r] = IF @ = "driver" THEN "tail" ELSE @]
    /\ UNCHANGED <<autonomy, ckpt, apv, audit, wake, cancelling, env, ghosts>>

\* A notifying task ends.  Its done callback pops _tasks[run], whichever task
\* the entry refers to by now.
TailDone(r) ==
    /\ tails[r] > 0
    /\ tails' = [tails EXCEPT ![r] = @ - 1]
    /\ reg' = [reg EXCEPT ![r] = "none"]
    /\ UNCHANGED <<db, task, wake, cancelling, env, ghosts>>

\* _finish: the UPDATE has no status guard.  The failure path is still inside
\* the semaphore.
Finish(r) ==
    /\ \/ /\ task[r].at = "finishing"
          /\ row' = [row EXCEPT ![r] = "completed"]
          /\ Leave(r, "hook")
       \/ /\ task[r].at = "failing"
          /\ row' = [row EXCEPT ![r] = "failed"]
          /\ Leave(r, "hookHeld")
    /\ UNCHANGED <<autonomy, ckpt, apv, audit, reg, tails, wake, cancelling, env, ghosts>>

\* The run-event hook returns and the task is done.
HookDone(r) ==
    /\ task[r].at \in {"hook", "hookHeld"}
    /\ Leave(r, "none")
    /\ reg' = [reg EXCEPT ![r] = "none"]
    /\ UNCHANGED <<db, tails, wake, cancelling, env, ghosts>>

-----------------------------------------------------------------------------
(* Runner: cancel, drain, crash and recovery                               *)

\* t.cancel() on the task _tasks refers to, for the runs of a set.
CancelTasks(S) ==
    LET driven == {r \in S : reg[r] = "driver"}
    IN  /\ task' = [r \in Runs |-> IF r \in driven THEN NoTask ELSE task[r]]
        /\ tails' = [r \in Runs |-> IF r \in S /\ reg[r] = "tail" THEN tails[r] - 1 ELSE tails[r]]
        /\ reg' = [r \in Runs |-> IF r \in S THEN "none" ELSE reg[r]]
        /\ breaks' = [r \in Runs |-> IF r \in driven THEN breaks[r] + 1 ELSE breaks[r]]

\* Runner.cancel, first half: cancels the task _tasks[run] refers to, if any.
CancelTask(r) ==
    /\ up = "up"
    /\ row[r] # "none"
    /\ ~cancelling[r]
    /\ Fault
    /\ CancelTasks({r})
    /\ cancelling' = [cancelling EXCEPT ![r] = TRUE]
    /\ UNCHANGED <<db, wake, up, kill, log, late, nodeErr>>

\* Runner.cancel, second half: the guarded UPDATE.
CancelRow(r) ==
    /\ up = "up"
    /\ cancelling[r]
    /\ cancelling' = [cancelling EXCEPT ![r] = FALSE]
    /\ row' = [row EXCEPT ![r] = IF @ \in {"running", "parked"} THEN "cancelled" ELSE @]
    /\ UNCHANGED <<autonomy, ckpt, apv, audit, task, reg, tails, wake, env, ghosts>>

\* Runner.stop, from the lifespan's shutdown: the server has answered every
\* request by then.  No new runs, and every task in _tasks is cancelled.
Stop ==
    /\ up = "up"
    /\ \A r \in Runs : ~wake[r] /\ ~cancelling[r]
    /\ Fault
    /\ up' = "draining"
    /\ CancelTasks(Runs)
    /\ UNCHANGED <<db, wake, cancelling, kill, log, late, nodeErr>>

\* The process goes: what it had in memory is lost.
ProcessEnds ==
    /\ task' = [r \in Runs |-> NoTask]
    /\ reg' = [r \in Runs |-> "none"]
    /\ tails' = [r \in Runs |-> 0]
    /\ wake' = [r \in Runs |-> FALSE]
    /\ cancelling' = [r \in Runs |-> FALSE]
    /\ breaks' = [r \in Runs |-> IF task[r].at # "none" THEN breaks[r] + 1 ELSE breaks[r]]
    /\ UNCHANGED <<db, kill, log, late, nodeErr>>

\* A crash.  Killed in the middle of a drain, the unit may have been stopped.
Crash ==
    /\ up \notin Gone
    /\ up' = IF up = "up" THEN "down" ELSE "stopped"
    /\ Fault
    /\ ProcessEnds

\* The clean exit that ends a drain.
Exit ==
    /\ up = "draining"
    /\ up' = "stopped"
    /\ ProcessEnds
    /\ UNCHANGED faults

\* A recovery that leaves interrupted runs to the user.
Boot_NoRecovery ==
    /\ up \in Gone
    /\ up' = "up"
    /\ UNCHANGED <<db, mem, kill, faults, ghosts>>

\* Runner.start and _recover: every row still 'running' is driven again from
\* its checkpoint.  Whether LangGraph kept the answer to an interrupt is open.
Boot ==
    LET stuck == {r \in Runs : row[r] = "running"}
    IN  /\ up \in Gone
        /\ up' = "up"
        /\ task' = [r \in Runs |-> IF r \in stuck
                                   THEN [TaskAt("queued") EXCEPT !.input = "checkpoint"]
                                   ELSE NoTask]
        /\ reg' = [r \in Runs |-> IF r \in stuck THEN "driver" ELSE "none"]
        /\ \E kept \in BOOLEAN :
              ckpt' = [r \in Runs |-> [ckpt[r] EXCEPT !.answered = @ /\ kept]]
        /\ UNCHANGED <<row, autonomy, apv, audit, tails, wake, cancelling, kill, faults, ghosts>>

-----------------------------------------------------------------------------
(* The user, the clock and the panic button                                *)

\* A decision without the state = 'pending' guard of the UPDATE.
DecideApproval_Again(r, c, decision) ==
    /\ up = "up"
    /\ apv[r][c].state # "none"
    /\ ~apv[r][c].lapsed
    /\ apv' = [apv EXCEPT ![r][c].state = decision]
    /\ wake' = [wake EXCEPT ![r] = TRUE]
    /\ UNCHANGED <<row, autonomy, ckpt, audit, task, reg, tails, cancelling, env, ghosts>>

\* approval_service.grant / deny on a pending, unexpired row; the endpoint then
\* calls Runner.resume, a separate step.
DecideApproval(r, c, decision) ==
    /\ up = "up"
    /\ apv[r][c].state = "pending"
    /\ ~apv[r][c].lapsed
    /\ apv' = [apv EXCEPT ![r][c].state = decision]
    /\ wake' = [wake EXCEPT ![r] = TRUE]
    /\ UNCHANGED <<row, autonomy, ckpt, audit, task, reg, tails, cancelling, env, ghosts>>

\* expires_at passes, where somebody may still look at it.
Lapse(r) ==
    /\ row[r] \notin Terminal
    /\ Cursor(r) \in Cursors
    /\ Approval(r).state \in {"pending", "granted"}
    /\ ~Approval(r).lapsed
    /\ apv' = [apv EXCEPT ![r][Cursor(r)].lapsed = TRUE]
    /\ UNCHANGED <<row, autonomy, ckpt, audit, mem, env, ghosts>>

\* api_server._approval_silence_job: every overdue pending approval at once.
\* Nothing resumes the runs that wait for them.
ExpireApprovals ==
    LET overdue(a) == a.state = "pending" /\ a.lapsed
    IN  /\ up = "up"
        /\ \E r \in Runs, c \in Cursors : overdue(apv[r][c])
        /\ apv' = [r \in Runs |-> [c \in Cursors |->
                     IF overdue(apv[r][c]) THEN [apv[r][c] EXCEPT !.state = "expired"]
                     ELSE apv[r][c]]]
        /\ UNCHANGED <<row, autonomy, ckpt, audit, mem, env, ghosts>>

\* set_kill, clear_kill, and Redis becoming unreadable or readable again.
KillChange ==
    /\ \E k \in KillStates \ {kill} :
          /\ kill' = k
          /\ late' = IF k = "clear" THEN 0 ELSE late
    /\ UNCHANGED <<db, mem, up, faults, log, breaks, nodeErr>>

-----------------------------------------------------------------------------
\* One step of the task that drives run r, once it has the semaphore.
Drive(r) ==
    \/ Hydrate(r)
    \/ ActReplay(r)
    \/ ActFromApproval(r)
    \/ ActDecideNothing(r)
    \/ ActDecide(r)
    \/ Gate(r)
    \/ Interrupt(r)
    \/ Regate(r)
    \/ Effect(r)
    \/ Audit(r)
    \/ ActReturn(r)
    \/ Synthesize(r)
    \/ Park(r)
    \/ Finish(r)
    \/ HookDone(r)

RunNext(r) ==
    \/ StartRun(r)
    \/ Resume(r)
    \/ RequestResume(r)
    \/ Acquire(r)
    \/ Drive(r)
    \/ NodeError(r)
    \/ TailDone(r)
    \/ CancelTask(r)
    \/ CancelRow(r)
    \/ Lapse(r)
    \/ \E c \in Cursors, d \in {"granted", "denied"} : DecideApproval(r, c, d)

Next ==
    \/ \E r \in Runs : RunNext(r)
    \/ ExpireApprovals
    \/ KillChange
    \/ Stop
    \/ Crash
    \/ Exit
    \/ Boot

Spec == Init /\ [][Next]_vars

\* What the code's scheduling gives: the event loop keeps running every ready
\* task, the semaphore is FIFO (a queued task that can repeatedly enter does),
\* requests are served, and the service manager brings a process back that
\* crashed (Restart=on-failure).  Nobody has to start one again that was stopped;
\* users, the clock and faults owe nothing.
Fairness ==
    /\ \A r \in Runs : /\ WF_vars(Drive(r))
                       /\ SF_vars(Acquire(r))
                       /\ WF_vars(Resume(r))
                       /\ WF_vars(CancelRow(r))
                       /\ WF_vars(TailDone(r))
    /\ WF_vars(Exit)
    /\ WF_vars(up = "down" /\ Boot)

FairSpec == Spec /\ Fairness

-----------------------------------------------------------------------------
(* What the runs promise                                                   *)

\* A side effect of a class that needs a human at the run's autonomy has a
\* granted approval of that class at its cursor, whatever was crashed,
\* resumed, re-decided, denied or expired in between (act node, PDP gate).
GatedEffects ==
    \A r \in Runs, c \in Cursors : \A i \in DOMAIN log[r][c] :
        NeedsApproval(log[r][c][i], autonomy[r]) =>
            /\ apv[r][c].state = "granted"
            /\ apv[r][c].class = log[r][c][i]

\* The panic button: once it is engaged, at most one side effect per place of
\* the semaphore still happens, the one its holder had already been allowed.
KillBound == Cardinality(Holders) <= MaxConcurrent /\ late <= MaxConcurrent

\* Row and task agree (Runner._spawn, resume, _park, cancel, _recover): nobody
\* drives a parked or unknown run, and a running row has a task unless it is
\* being cancelled or the process is going or gone.
RowMatchesTask ==
    \A r \in Runs :
        /\ row[r] \in {"none", "parked"} => task[r].at = "none"
        /\ row[r] = "running" /\ up = "up" => task[r].at # "none" \/ cancelling[r]

\* A step is recorded once, and a side effect that no audit row records is
\* accounted for by a task that was cut short or by the one about to record it
\* (replay guard of the act node, audit transaction).
OneRecordPerStep ==
    \A r \in Runs, c \in Cursors :
        /\ audit[r][c] <= 1
        /\ Len(log[r][c]) <= audit[r][c] + breaks[r]
               + (IF task[r].at = "audit" /\ Cursor(r) = c THEN 1 ELSE 0)

\* An approval, once created, keeps its action, and once decided keeps its
\* decision (approval_service._transition is single-shot, the act node finds
\* the row of its cursor before it would create one).
DecisionFinal ==
    [][\A r \in Runs, c \in Cursors : apv[r][c].state # "none" =>
          /\ apv'[r][c].class = apv[r][c].class
          /\ apv[r][c].state # "pending" => apv'[r][c].state = apv[r][c].state]_apv

\* A running run comes to rest, across crashes and recovery: parked for a human,
\* or in a final state, or its process is stopped and waits to be started.
RunsSettle == \A r \in Runs : row[r] = "running" ~> row[r] # "running" \/ up = "stopped"

-----------------------------------------------------------------------------
(* Why it holds: the parts of the inductive invariant                      *)

\* Where the task, the row and the checkpoint of a run stand to one another.
NodeAgrees ==
    \A r \in Runs :
        /\ ckpt[r].next = "act" => Cursor(r) \in Cursors
        /\ task[r].at \in InAct \cup {"parking"} => ckpt[r].next = "act"
        /\ task[r].at = "queued" /\ task[r].input = "wake" => ckpt[r].next = "act"
        /\ row[r] = "parked" => ckpt[r].next = "act"
        /\ task[r].at \in {"hook", "hookHeld"} => row[r] \in {"completed", "failed"}
        /\ reg[r] = "tail" => tails[r] > 0

\* What the act node knows of the approval of its cursor.
LocalsAgree ==
    \A r \in Runs :
        /\ \A c \in Cursors : apv[r][c].state # "none" => apv[r][c].class \in Classes
        /\ task[r].at \in InAct \ {"act"} => task[r].class \in Classes
        /\ task[r].at = "gate" /\ task[r].seen = "none" => Approval(r).state = "none"
        /\ task[r].at = "effect" /\ NeedsApproval(task[r].class, autonomy[r]) =>
               Approval(r).state = "granted" /\ Approval(r).class = task[r].class
        /\ row[r] = "none" => \A c \in Cursors : log[r][c] = <<>>

\* The inductive invariant (Runner, act node, approvals): every step of every
\* instance keeps it, and it is enough for what is said above of approvals,
\* rows and tasks.
IInv == TypeOK /\ RowMatchesTask /\ NodeAgrees /\ LocalsAgree /\ GatedEffects

\* What the replay guard leaves behind it: from the gate to the audit of the act
\* node the step has no audit row yet; and a process that is down drives nobody.
Unrecorded == InAct \ {"act", "audited"}
RecordsAgree ==
    /\ \A r \in Runs : task[r].at \in Unrecorded => audit[r][Cursor(r)] = 0
    /\ up \in Gone => \A r \in Runs : task[r].at = "none"

RecordInv == IInv /\ RecordsAgree /\ OneRecordPerStep

\* The side effects the gate has already allowed.  While the kill switch is
\* engaged it allows none, so they and the late ones fit in the semaphore.
Armed == {r \in Runs : task[r].at = "effect" /\ task[r].class # "read"}
KillInv ==
    /\ IsFiniteSet(Holders) /\ Cardinality(Holders) <= MaxConcurrent
    /\ kill = "clear" => late = 0
    /\ kill # "clear" => late + Cardinality(Armed) <= MaxConcurrent

-----------------------------------------------------------------------------
(* What the repository says of itself and the code does not keep           *)

\* "Grant AND deny both wake a parked run" (api_server._resume_after_decision).
GrantWakesRun ==
    \A r \in Runs, c \in Cursors :
        (row[r] = "parked" /\ Cursor(r) = c /\ apv[r][c].state = "granted")
            ~> row[r] # "parked"

\* "exactly-once side effects across crashes and resumes" (orchestration.graph).
EffectsExactlyOnce == \A r \in Runs, c \in Cursors : Len(log[r][c]) <= 1

\* The run-row state machine of orchestration.runner has no way out of cancelled.
CancelledIsFinal ==
    [][\A r \in Runs : row[r] = "cancelled" => row'[r] = "cancelled"]_row

\* "Parked/running runs recover at next start()" (Runner.stop): a restart by
\* itself fails no run.
RestartFailsNoRun == \A r \in Runs : row[r] = "failed" => nodeErr[r]
=============================================================================
