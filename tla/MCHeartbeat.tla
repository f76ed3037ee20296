----------------------------- MODULE MCHeartbeat -----------------------------
(***************************************************************************)
(* What must eventually happen in the background, on small instances: the   *)
(* log is projected, due jobs fire, finished runs are delivered at boot.    *)
(* The components share no state: each behaviour takes the turn of one, and *)
(* is fair to that one as its module says.                                  *)
(***************************************************************************)
EXTENDS Naturals, Sequences, FiniteSets

CONSTANTS Jobs, Editors, Mems, Approvals, Clients, Workers

VARIABLES turn,
    job, jobRun, firing, hook, inbox, boot, early, crossed, cut, disturbances,
    table, live, tick, overdue, edit, writes, made, raced, shifted,
    row, vector, approval, log, tx, lock, worker, mark, current, background, covered, late,
    astray, accidents

U == INSTANCE UserJobs WITH NumRuns <- 1, MaxDisturbances <- 2
T == INSTANCE JobTable WITH Existing <- Jobs, MaxVersions <- 2
M == INSTANCE Memory WITH Recorded <- Mems, MaxSeq <- 3, MaxAccidents <- 1

jobVars == <<job, jobRun, firing, hook, inbox, boot, early, crossed, cut, disturbances>>
jtVars == <<table, live, tick, overdue, edit, writes, made, raced, shifted>>
memVars == <<row, vector, approval, log, tx, lock, worker, mark, current, background, covered,
             late, astray, accidents>>
vars == <<turn, jobVars, jtVars, memVars>>

Init ==
    /\ turn \in {"jobs", "table", "memory"}
    /\ U!JobsInit /\ T!JTInit /\ M!MemoryInit

JobsTurn == turn = "jobs" /\ U!JobsNext /\ UNCHANGED <<turn, jtVars, memVars>>
TableTurn == turn = "table" /\ T!JTNext /\ UNCHANGED <<turn, jobVars, memVars>>
MemoryTurn == turn = "memory" /\ M!MemoryNext /\ UNCHANGED <<turn, jobVars, jtVars>>

Next == JobsTurn \/ TableTurn \/ MemoryTurn

Spec ==
    /\ Init /\ [][Next]_vars
    /\ WF_jobVars(turn = "jobs" /\ U!Reconcile)
    /\ \A h \in U!Hooks : WF_jobVars(turn = "jobs" /\ U!HookStep(h))
    /\ WF_jtVars(turn = "table" /\ T!Wakes)
    /\ WF_jtVars(turn = "table" /\ T!FireReturns)
    /\ \A c \in Clients : WF_memVars(turn = "memory" /\ M!ForgetRedact(c))
                          /\ WF_memVars(turn = "memory" /\ M!Commit(c))
    /\ WF_memVars(turn = "memory" /\ \E w \in Workers : M!Acquire(w))
    /\ \A w \in Workers : WF_memVars(turn = "memory" /\ M!WorkerStep(w))
    /\ WF_memVars(turn = "memory" /\ lock # "none" /\ ~M!Working(lock) /\ M!LockExpires)

-------------------------------------------------------------------------------
ASSUME HeartbeatAssumption == U!UserJobsAssumption /\ T!JobTableAssumption

\* A boot delivers the finished run the job's row points at (reconcile_deliveries).
BootDelivers == U!BootDelivers

\* A due, enabled job is fired, replaced or removed sooner or later (_loop).
DueFires == T!DueFires

\* Every committed event is projected sooner or later (project_scope).
LogDrains == M!LogDrains
===============================================================================
