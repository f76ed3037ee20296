----------------------------- MODULE MCBackground -----------------------------
(***************************************************************************)
(* What goes on in the background, on small instances: user jobs and their  *)
(* deliveries, a periodic job, the job table and its loop, the cadences and *)
(* consolidation passes.  The components share no state, so each behaviour  *)
(* takes the turn of one of them and leaves the others alone.               *)
(***************************************************************************)
EXTENDS PeriodicJob, UserJobs, JobTable, Cadence, Consolidation, TLC

VARIABLE turn

vars == <<turn, jobVars, pjVars, jtVars, cadVars, conVars>>

Turns == {"jobs", "periodic", "table", "cadence", "consolidation"}

Init ==
    /\ turn \in Turns
    /\ JobsInit /\ PJInit /\ JTInit /\ ConInit
    /\ CadInit
    /\ turn # "cadence" => cadence = CHOOSE c \in Cadences : TRUE

JobsTurn == turn = "jobs" /\ JobsNext
            /\ UNCHANGED <<turn, pjVars, jtVars, cadVars, conVars>>
PeriodicTurn == turn = "periodic" /\ PJNext
            /\ UNCHANGED <<turn, jobVars, jtVars, cadVars, conVars>>
TableTurn == turn = "table" /\ JTNext
            /\ UNCHANGED <<turn, jobVars, pjVars, cadVars, conVars>>
CadenceTurn == turn = "cadence" /\ CadNext
            /\ UNCHANGED <<turn, jobVars, pjVars, jtVars, conVars>>
ConsolidationTurn == turn = "consolidation" /\ ConNext
            /\ UNCHANGED <<turn, jobVars, pjVars, jtVars, cadVars>>

Next == JobsTurn \/ PeriodicTurn \/ TableTurn \/ CadenceTurn \/ ConsolidationTurn

Spec == Init /\ [][Next]_vars

Interchangeable ==
    Permutations(Firers) \cup Permutations(Editors) \cup Permutations(Calls)

\* One working memory is stored at first.
OneStored == <<[key |-> "k1", tier |-> "working", made |-> 1]>>

-------------------------------------------------------------------------------
ASSUME BackgroundAssumption ==
    UserJobsAssumption /\ JobTableAssumption /\ CadenceAssumption /\ ConsolidationAssumption
===============================================================================
