------------------------------ MODULE Simulation ------------------------------
(***************************************************************************)
(* One simulation (simulation/__init__.py, run_simulation of                *)
(* orchestration/workflows.py): it is created, and an execution reads its   *)
(* status, asks the model for scenarios, stores an episode, then scenarios  *)
(* and status in one transaction, and tells each scenario as a memory of    *)
(* the simulation's scope.  Executions are numbered as they begin; what a   *)
(* scenario says is left out, and so are the two executors the program does *)
(* not call (execute_simulation and fork_simulation of simulation).         *)
(***************************************************************************)
EXTENDS Naturals, FiniteSets

CONSTANTS
    Executors,     \* requests that overlap
    MaxScenarios,  \* scenarios a model answers with (5 in the code)
    MaxExecutions, \* bound: executions begun
    MaxFaults      \* bound: failed calls and restarts

SimulationAssumption == {MaxScenarios, MaxExecutions, MaxFaults} \subseteq Nat

VARIABLES
    status,    \* simulation_runs.status
    executor,  \* the execution in progress, by request
    begun,     \* executions so far
    sourced,   \* executions with their episode
    scenario,  \* simulation_scenarios: pairs of execution and number
    possible,  \* possible_world memories, likewise
    rivalled,  \* history: executions stored after another had since they read
    broken     \* history: executions a fault befell

simVars == <<status, executor, begun, sourced, scenario, possible, rivalled, broken>>

NoExecution == [at |-> "idle", id |-> 0, size |-> 0, told |-> 0, saw |-> {}]
Stored == {s[1] : s \in scenario}

SimInit ==
    /\ status = "absent" /\ executor = [e \in Executors |-> NoExecution]
    /\ begun = 0 /\ sourced = {} /\ scenario = {} /\ possible = {}
    /\ rivalled = {} /\ broken = {}

\* create_simulation_run.
Creates ==
    /\ status = "absent" /\ status' = "created"
    /\ UNCHANGED <<executor, begun, sourced, scenario, possible, rivalled, broken>>

\* mutant: a completed simulation is executed again
Executable_Always == status # "absent"

\* Not found and already completed are answered with an error.
Executable == status \notin {"absent", "completed"}

Begins(e) ==
    /\ executor[e].at = "idle" /\ Executable /\ begun < MaxExecutions
    /\ begun' = begun + 1
    /\ executor' = [executor EXCEPT ![e] =
            [NoExecution EXCEPT !.at = "ask", !.id = begun', !.saw = Stored]]
    /\ UNCHANGED <<status, sourced, scenario, possible, rivalled, broken>>

\* The model answers with scenarios, not all of them usable, or with none.
Answers(e) ==
    /\ executor[e].at = "ask"
    /\ \/ \E size \in 0..MaxScenarios :
            executor' = [executor EXCEPT ![e].at = "source", ![e].size = size]
       \/ executor' = [executor EXCEPT ![e] = NoExecution]
    /\ UNCHANGED <<status, begun, sourced, scenario, possible, rivalled, broken>>

\* record_episode.
RecordsSource(e) ==
    /\ executor[e].at = "source"
    /\ executor' = [executor EXCEPT ![e].at = "store"]
    /\ sourced' = sourced \cup {executor[e].id}
    /\ UNCHANGED <<status, begun, scenario, possible, rivalled, broken>>

\* The scenarios and the status, which is not looked at again.
StoresScenarios(e) ==
    /\ executor[e].at = "store"
    /\ executor' = [executor EXCEPT ![e].at = "tell"]
    /\ scenario' = scenario \cup ({executor[e].id} \X (1..executor[e].size))
    /\ status' = "completed"
    /\ rivalled' = IF Stored \subseteq executor[e].saw THEN rivalled
                   ELSE rivalled \cup {executor[e].id}
    /\ UNCHANGED <<begun, sourced, possible, broken>>

\* add, one scenario after the other; a failed one is logged and passed over.
Tells(e) ==
    /\ executor[e].at = "tell" /\ executor[e].told < executor[e].size
    /\ executor' = [executor EXCEPT ![e].told = @ + 1]
    /\ LET told == <<executor[e].id, executor[e].told + 1>> IN
        \/ possible' = possible \cup {told} /\ UNCHANGED broken
        \/ /\ Cardinality(broken) < MaxFaults /\ broken' = broken \cup {executor[e].id}
           /\ UNCHANGED possible
    /\ UNCHANGED <<status, begun, sourced, scenario, rivalled>>

Returns(e) ==
    /\ executor[e].at = "tell" /\ executor[e].told = executor[e].size
    /\ executor' = [executor EXCEPT ![e] = NoExecution]
    /\ UNCHANGED <<status, begun, sourced, scenario, possible, rivalled, broken>>

\* An exception outside the guarded part, or a restart.
Aborts(e) ==
    /\ executor[e].at # "idle" /\ Cardinality(broken) < MaxFaults
    /\ executor' = [executor EXCEPT ![e] = NoExecution]
    /\ broken' = broken \cup {executor[e].id}
    /\ UNCHANGED <<status, begun, sourced, scenario, possible, rivalled>>

SimNext ==
    \/ Creates
    \/ \E e \in Executors :
        \/ Begins(e) \/ Answers(e) \/ RecordsSource(e) \/ StoresScenarios(e)
        \/ Tells(e) \/ Returns(e) \/ Aborts(e)

SimSpec == SimInit /\ [][SimNext]_simVars

-------------------------------------------------------------------------------
SimTypeOK ==
    /\ status \in {"absent", "created", "completed"}
    /\ scenario \cup possible \subseteq (1..begun) \X (1..MaxScenarios)
    /\ sourced \cup broken \subseteq 1..begun

\* A simulation shows the scenarios of one execution, and of one more for each
\* that stored although another had since it read the status.
SimulatedOnce == Cardinality(Stored) <= 1 + Cardinality(rivalled)

\* Every memory of a possible world tells a scenario that is stored, and when
\* nothing runs every stored one is told and has its episode, and no episode is
\* left of an execution that stored nothing, but for those a fault befell.
WorldsTold ==
    /\ possible \subseteq scenario
    /\ \A s \in scenario : s[1] \in sourced
    /\ (\A e \in Executors : executor[e].at = "idle")
       => /\ \A s \in scenario \ possible : s[1] \in broken
          /\ status # "completed" => sourced \subseteq broken

SimulationSound == SimTypeOK /\ SimulatedOnce /\ WorldsTold
===============================================================================
