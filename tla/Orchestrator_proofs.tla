-------------------------- MODULE Orchestrator_proofs --------------------------
(***************************************************************************)
(* What holds of the orchestrator for any number of plans, steps, workers,  *)
(* attempts and disturbances: no worker before approval, and no plan ever    *)
(* goes back.  The invariant follows the plan a handler carries in its       *)
(* locals from the read that admitted it to the worker it starts.            *)
(***************************************************************************)
EXTENDS Orchestrator, WellFoundedInduction, FiniteSetTheorems, TLAPS

\* A plan past 'proposed' was approved, unless it was superseded.
OpenWasApproved ==
    \A p \in Plans : plan[p] \in {"approved", "executing", "done"} => p \in approved

\* A task has a worker only in a plan that was approved.
BoundWasApproved == \A t \in Tasks : task[t].run # 0 => t[1] \in approved

\* A handler that may start a worker, or has just started one, carries a plan
\* that was approved, whatever became of the plan since it was read; one that is
\* about to read carries a plan that can be read.
Carrying == {"start", "record", "loaded", "mark", "judge", "rebind"}
Pointing == {"next", "load"}
Carries(l, plans) ==
    /\ l.at \in Carrying => l.plan \in plans
    /\ l.at \in Pointing => l.plan \in Plans
    /\ l.at = "each" => l.todo # {}
CarriedWasApproved == \A x \in Handlers : Carries(handler[x], approved)

IInv == TypeOK /\ OpenWasApproved /\ BoundWasApproved /\ CarriedWasApproved
        /\ NothingBeforeApproval

-----------------------------------------------------------------------------
(* Lemmas about the operators.                                             *)

LEMMA LeastOf ==
    ASSUME NEW R, NEW S, S \subseteq Nat, NEW m \in S,
           \A a, b \in Nat : a < b => <<a, b>> \in R,
           \A y \in S : ~(<<y, m>> \in R)
    PROVE  \A y \in S : m =< y
<1>1. SUFFICES ASSUME NEW y \in S PROVE m =< y
  OBVIOUS
<1>2. y \in Nat /\ m \in Nat /\ ~(y < m)
  OBVIOUS
<1> QED
  BY <1>2

LEMMA MinIsIn ==
    ASSUME NEW S, S \subseteq Nat, S # {}
    PROVE  Min(S) \in S /\ \A y \in S : Min(S) =< y
<1> DEFINE R == OpToRel(<, Nat)
<1>1. \A a, b \in Nat : a < b => <<a, b>> \in R
  BY DEF OpToRel
<1>2. IsWellFoundedOn(R, Nat)
  BY NatLessThanWellFounded
<1> HIDE DEF R
<1>3. PICK m \in S : \A y \in S : ~(<<y, m>> \in R)
  BY <1>2, WFMin
<1>4. \A y \in S : m =< y
  BY <1>1, <1>3, LeastOf
<1> QED
  BY <1>4 DEF Min

LEMMA IdleTyped == OrchestratorAssumption => Idle \in HandlerLocals
BY DEF OrchestratorAssumption, Idle, HandlerLocals, Places, RunStates

\* A step of handler x leaves the other handlers alone and its own locals typed.
LEMMA Update ==
    ASSUME TypeOK, NEW x \in Handlers, NEW l \in HandlerLocals,
           handler' = [handler EXCEPT ![x] = l]
    PROVE  /\ handler' \in [Handlers -> HandlerLocals]
           /\ handler'[x] = l
           /\ \A y \in Handlers \ {x} : handler'[y] = handler[y]
BY DEF TypeOK

LEMMA GotoStep ==
    ASSUME TypeOK, NEW x \in Handlers, NEW place \in Places, Goto(x, place)
    PROVE  /\ handler' \in [Handlers -> HandlerLocals]
           /\ handler'[x].at = place
           /\ handler'[x].plan = handler[x].plan
           /\ handler'[x].todo = handler[x].todo
           /\ \A y \in Handlers \ {x} : handler'[y] = handler[y]
<1>1. [handler[x] EXCEPT !.at = place] \in HandlerLocals
  BY DEF TypeOK, HandlerLocals
<1> QED
  BY <1>1 DEF Goto, TypeOK, HandlerLocals

LEMMA GoOnStep ==
    ASSUME OrchestratorAssumption, TypeOK, NEW x \in Handlers, NEW place \in Places,
           GoOn(x, place)
    PROVE  /\ handler' \in [Handlers -> HandlerLocals]
           /\ handler'[x].at = place
           /\ handler'[x].plan = handler[x].plan
           /\ handler'[x].todo = handler[x].todo
           /\ \A y \in Handlers \ {x} : handler'[y] = handler[y]
<1> DEFINE l == [Idle EXCEPT !.at = place, !.plan = handler[x].plan,
                             !.todo = handler[x].todo]
<1>1. /\ l \in HandlerLocals /\ l.at = place
      /\ l.plan = handler[x].plan /\ l.todo = handler[x].todo
  BY IdleTyped DEF TypeOK, HandlerLocals, Idle
<1>2. handler' = [handler EXCEPT ![x] = l]
  BY DEF GoOn
<1> QED
  BY <1>1, <1>2, Update

LEMMA EndsStep ==
    ASSUME OrchestratorAssumption, TypeOK, NEW x \in Handlers, Ends(x)
    PROVE  /\ handler' \in [Handlers -> HandlerLocals]
           /\ handler'[x].at = "idle"
           /\ \A y \in Handlers \ {x} : handler'[y] = handler[y]
BY IdleTyped, Update DEF Ends, Idle

LEMMA ReturnStep ==
    ASSUME OrchestratorAssumption, TypeOK, NEW x \in Handlers, Return(x)
    PROVE  /\ handler' \in [Handlers -> HandlerLocals]
           /\ Carries(handler'[x], {})
           /\ \A y \in Handlers \ {x} : handler'[y] = handler[y]
<1>1. {"count", "each", "idle"} \subseteq Places \ (Carrying \cup Pointing)
  BY DEF Places, Carrying, Pointing
<1>2. CASE GoOn(x, "count")
  BY <1>1, <1>2, GoOnStep DEF Carries
<1>3. CASE GoOn(x, "each") /\ handler[x].todo # {}
  BY <1>1, <1>3, GoOnStep DEF Carries
<1>4. CASE Ends(x)
  BY <1>1, <1>4, EndsStep DEF Carries
<1> QED
  BY <1>2, <1>3, <1>4 DEF Return

\* What a step owes of the handlers' part of the invariant, when it moves only x.
LEMMA CarriedKept ==
    ASSUME IInv, NEW x \in Handlers, approved \subseteq approved',
           \A y \in Handlers \ {x} : handler'[y] = handler[y],
           Carries(handler'[x], approved')
    PROVE  CarriedWasApproved'
BY DEF IInv, CarriedWasApproved, Carries

-----------------------------------------------------------------------------
(* The invariant, action by action.                                        *)

LEMMA InitHolds == OrchestratorAssumption /\ Init => IInv
<1> SUFFICES ASSUME OrchestratorAssumption, Init PROVE IInv
  OBVIOUS
<1>1. TypeOK
  BY IdleTyped DEF Init, TypeOK, OrchestratorAssumption, PlanStates, TaskRows, TaskStates,
                   RunStates, Tasks, Plans, Runs
<1>2. OpenWasApproved /\ BoundWasApproved /\ NothingBeforeApproval
  BY DEF Init, OpenWasApproved, BoundWasApproved, NothingBeforeApproval
<1>3. CarriedWasApproved
  BY DEF Init, CarriedWasApproved, Carries, Carrying, Pointing, Idle
<1> QED
  BY <1>1, <1>2, <1>3 DEF IInv

\* Steps that only read: one handler moves, to a place where it carries nothing,
\* or with a plan that was approved.
LEMMA OnlyMoves ==
    ASSUME IInv, NEW x \in Handlers,
           handler' \in [Handlers -> HandlerLocals],
           \A y \in Handlers \ {x} : handler'[y] = handler[y],
           Carries(handler'[x], approved),
           UNCHANGED <<goal, plan, task, run, work, approved, disturbances>>
    PROVE  IInv'
<1>1. TypeOK'
  BY DEF IInv, TypeOK
<1>2. CarriedWasApproved'
  BY CarriedKept
<1> QED
  BY <1>1, <1>2 DEF IInv, OpenWasApproved, BoundWasApproved, NothingBeforeApproval

\* UPDATE goal_tasks SET status: the rows stay rows, and keep their workers.
LEMMA SetStatus ==
    ASSUME TypeOK, NEW t, NEW status \in TaskStates,
           task' = [task EXCEPT ![t].status = status]
    PROVE  task' \in [Tasks -> TaskRows] /\ \A u \in Tasks : task'[u].run = task[u].run
<1>1. task \in [Tasks -> TaskRows]
  BY DEF TypeOK
<1>2. \A u \in Tasks : [task[u] EXCEPT !.status = status] \in TaskRows
                      /\ [task[u] EXCEPT !.status = status].run = task[u].run
  BY <1>1 DEF TaskRows
<1> QED
  BY <1>1, <1>2

\* A step that writes statuses of tasks and leaves their workers alone.
LEMMA StatusStep ==
    ASSUME IInv, NEW x \in Handlers,
           handler' \in [Handlers -> HandlerLocals],
           \A y \in Handlers \ {x} : handler'[y] = handler[y],
           Carries(handler'[x], approved),
           task' \in [Tasks -> TaskRows],
           \A t \in Tasks : task'[t].run = task[t].run,
           UNCHANGED <<goal, plan, run, work, approved, disturbances>>
    PROVE  IInv'
<1>1. TypeOK'
  BY DEF IInv, TypeOK
<1>2. CarriedWasApproved'
  BY CarriedKept
<1>3. BoundWasApproved'
  BY DEF IInv, BoundWasApproved
<1> QED
  BY <1>1, <1>2, <1>3 DEF IInv, OpenWasApproved, NothingBeforeApproval

LEMMA RunStep ==
    ASSUME OrchestratorAssumption, IInv, NEW r \in Runs,
           RunEnds(r) \/ RunParks(r) \/ RunResumes(r) \/ RunCancelled(r)
    PROVE  IInv'
<1> DEFINE Fired(kind) == Goto(<<r, kind>>, "fired")
<1>1. UNCHANGED <<goal, plan, task, work, approved>>
  BY DEF RunEnds, RunParks, RunResumes, RunCancelled
<1>2. run[r] # "none" /\ \E status \in RunStates : run' = [run EXCEPT ![r] = status]
  BY DEF RunEnds, RunParks, RunResumes, RunCancelled, LiveRun, RunStates
<1>3. disturbances' \in 0..MaxDisturbances
  BY DEF RunEnds, RunParks, RunResumes, RunCancelled, Disturb, IInv, TypeOK,
         OrchestratorAssumption
<1>4. Fired("parked") \/ Fired("ended") \/ handler' = handler
  BY DEF RunEnds, RunParks, RunResumes, RunCancelled, Goto
<1>5. ASSUME NEW kind \in {"parked", "ended"}, Fired(kind)
      PROVE  handler' \in [Handlers -> HandlerLocals] /\ CarriedWasApproved'
  <2>1. <<r, kind>> \in Handlers /\ "fired" \in Places
    BY DEF Handlers, Hooks, Places
  <2>2. /\ handler' \in [Handlers -> HandlerLocals]
        /\ handler'[<<r, kind>>].at = "fired"
        /\ \A y \in Handlers \ {<<r, kind>>} : handler'[y] = handler[y]
    BY <1>5, <2>1, GotoStep DEF IInv
  <2> QED
    BY <1>1, <2>1, <2>2, CarriedKept DEF Carries, Carrying, Pointing
<1>6. handler' \in [Handlers -> HandlerLocals] /\ CarriedWasApproved'
  <2>1. CASE handler' = handler
    BY <1>1, <2>1 DEF IInv, TypeOK, CarriedWasApproved
  <2> QED
    BY <1>4, <1>5, <2>1
<1>7. TypeOK'
  BY <1>1, <1>2, <1>3, <1>6 DEF IInv, TypeOK
<1>8. NothingBeforeApproval'
  BY <1>1, <1>2 DEF IInv, TypeOK, NothingBeforeApproval
<1> QED
  BY <1>1, <1>6, <1>7, <1>8 DEF IInv, OpenWasApproved, BoundWasApproved

\* Starts: the new worker belongs to the plan its handler carries.
LEMMA StartsStep ==
    ASSUME OrchestratorAssumption, IInv, NEW x \in Handlers,
           NEW place \in {"record", "rebind"}, Starts(x, Mine(x), place),
           handler[x].at \in Carrying,
           UNCHANGED <<goal, plan, task, approved, disturbances>>
    PROVE  IInv'
<1>1. PICK r \in Runs :
        /\ run' = [run EXCEPT ![r] = "running"]
        /\ work' = [work EXCEPT ![r] = Mine(x)]
        /\ handler' = [handler EXCEPT ![x].at = place, ![x].run = r]
  BY DEF Starts
<1> DEFINE l == [handler[x] EXCEPT !.at = place, !.run = r]
<1>2. l \in HandlerLocals /\ l.plan = handler[x].plan
  <2>1. place \in Places
    BY DEF Places
  <2>2. handler[x] \in HandlerLocals /\ r \in 0..NumRuns
    BY DEF IInv, TypeOK, Runs, OrchestratorAssumption
  <2> QED
    BY <2>1, <2>2 DEF HandlerLocals
<1>3. handler' = [handler EXCEPT ![x] = l]
  BY <1>1 DEF IInv, TypeOK, HandlerLocals
<1>4. /\ handler' \in [Handlers -> HandlerLocals]
      /\ handler'[x] = l
      /\ \A y \in Handlers \ {x} : handler'[y] = handler[y]
  BY <1>2, <1>3, Update DEF IInv
<1>5. handler[x].plan \in approved
  BY DEF IInv, CarriedWasApproved, Carries
<1>6. Mine(x) \in (0..NumPlans) \X (0..NumSteps) /\ Mine(x)[1] = handler[x].plan
  BY DEF IInv, TypeOK, HandlerLocals, Mine
<1>7. TypeOK'
  BY <1>1, <1>4, <1>6 DEF IInv, TypeOK, RunStates
<1>8. CarriedWasApproved'
  BY <1>1, <1>2, <1>4, <1>5, CarriedKept DEF Carries, Pointing
<1>9. NothingBeforeApproval'
  BY <1>1, <1>5, <1>6 DEF IInv, TypeOK, NothingBeforeApproval
<1> QED
  BY <1>7, <1>8, <1>9 DEF IInv, OpenWasApproved, BoundWasApproved

LEMMA PlanStep ==
    ASSUME OrchestratorAssumption, IInv, NEW x \in Handlers,
           DecomposeGoal(x) \/ InsertPlan(x)
    PROVE  IInv'
<1>1. ASSUME AfterDecompose(x)
      PROVE  /\ handler' \in [Handlers -> HandlerLocals]
             /\ Carries(handler'[x], {})
             /\ \A y \in Handlers \ {x} : handler'[y] = handler[y]
  <2> DEFINE l == IF x = Sweeper THEN [Idle EXCEPT !.at = "collect"] ELSE Idle
  <2>1. l \in HandlerLocals /\ l.at \in {"collect", "idle"}
    BY IdleTyped DEF HandlerLocals, Idle, Places
  <2>3. Carries(l, {})
    BY <2>1 DEF Carries, Carrying, Pointing
  <2>2. handler' = [handler EXCEPT ![x] = l]
    BY <1>1 DEF AfterDecompose
  <2> QED
    BY <2>1, <2>2, <2>3, Update DEF IInv
<1>2. CASE DecomposeGoal(x)
  <2>1. CASE AfterDecompose(x)
    BY <1>1, <1>2, <2>1, OnlyMoves DEF DecomposeGoal, Carries
  <2>2. CASE handler' = [handler EXCEPT ![x].at = "insert",
                         ![x].todo = {p \in Plans : plan[p] \in LivePlan}]
    <3> DEFINE l == [handler[x] EXCEPT !.at = "insert",
                                       !.todo = {p \in Plans : plan[p] \in LivePlan}]
    <3>1. "insert" \in Places /\ {p \in Plans : plan[p] \in LivePlan} \in SUBSET Plans
      BY DEF Places
    <3>2. handler[x] \in HandlerLocals
      BY DEF IInv, TypeOK
    <3>3. l \in HandlerLocals /\ l.at = "insert"
      BY <3>1, <3>2 DEF HandlerLocals
    <3>4. handler' = [handler EXCEPT ![x] = l]
      BY <2>2, <3>2 DEF IInv, TypeOK, HandlerLocals
    <3>5. /\ handler' \in [Handlers -> HandlerLocals]
          /\ handler'[x] = l
          /\ \A y \in Handlers \ {x} : handler'[y] = handler[y]
      BY <3>3, <3>4, Update DEF IInv
    <3>6. Carries(handler'[x], {})
      BY <3>3, <3>5 DEF Carries, Carrying, Pointing
    <3> QED
      BY <1>2, <3>5, <3>6, OnlyMoves DEF DecomposeGoal, Carries
  <2> QED
    BY <1>2, <2>1, <2>2 DEF DecomposeGoal
<1>3. CASE InsertPlan(x)
  <2>1. PICK p \in Plans :
          /\ plan[p] = "none"
          /\ plan' = [o \in Plans |->
                IF o = p THEN "proposed"
                ELSE IF o \in handler[x].todo /\ plan[o] \in LivePlan THEN "abandoned"
                ELSE plan[o]]
    BY <1>3 DEF InsertPlan
  <2>2. AfterDecompose(x) /\ UNCHANGED <<goal, task, run, work, approved, disturbances>>
    BY <1>3 DEF InsertPlan
  <2>3. plan' \in [Plans -> PlanStates]
    BY <2>1 DEF IInv, TypeOK, PlanStates
  <2>4. TypeOK'
    BY <1>1, <2>2, <2>3 DEF IInv, TypeOK
  <2>5. OpenWasApproved'
    BY <2>1, <2>2 DEF IInv, OpenWasApproved
  <2>6. CarriedWasApproved'
    BY <1>1, <2>2, CarriedKept DEF Carries
  <2> QED
    BY <2>2, <2>4, <2>5, <2>6 DEF IInv, BoundWasApproved, NothingBeforeApproval
<1> QED
  BY <1>2, <1>3

LEMMA ApprovePlanStep ==
    ASSUME OrchestratorAssumption, IInv, NEW p \in Plans, ApprovePlan(p)
    PROVE  IInv'
<1>1. plan' = [plan EXCEPT ![p] = "approved"] /\ approved' = approved \cup {p}
  BY DEF ApprovePlan
<1>2. UNCHANGED <<goal, task, run, handler, work>> /\ disturbances' \in 0..MaxDisturbances
  BY DEF ApprovePlan, Disturb, IInv, TypeOK, OrchestratorAssumption
<1>3. TypeOK'
  BY <1>1, <1>2 DEF IInv, TypeOK, PlanStates
<1>4. OpenWasApproved'
  BY <1>1 DEF IInv, TypeOK, OpenWasApproved
<1>5. CarriedWasApproved'
  BY <1>1, <1>2 DEF IInv, CarriedWasApproved, Carries
<1> QED
  BY <1>1, <1>2, <1>3, <1>4, <1>5 DEF IInv, BoundWasApproved, NothingBeforeApproval

\* execute_plan, by whoever presses.
LEMMA ApprovesStep ==
    ASSUME OrchestratorAssumption, IInv, NEW x \in Handlers, NEW p \in Plans,
           NEW todo \in SUBSET Plans, Approves(x, p, todo),
           UNCHANGED <<goal, task, run, work>>, disturbances' \in 0..MaxDisturbances
    PROVE  IInv'
<1> DEFINE l == IF plan'[p] \in {"approved", "executing"}
                THEN [Idle EXCEPT !.at = "next", !.plan = p, !.todo = todo]
                ELSE IF todo # {} THEN [Idle EXCEPT !.at = "each", !.todo = todo]
                ELSE Idle
<1>1. l \in HandlerLocals /\ Carries(l, approved')
  <2>1. p \in 0..NumPlans
    BY DEF Plans, OrchestratorAssumption
  <2>2. /\ {"next", "each", "idle"} \subseteq Places \ Carrying
        /\ {"each", "idle"} \cap Pointing = {}
    BY DEF Places, Carrying, Pointing
  <2>3. l \in HandlerLocals
    BY <2>1, <2>2, IdleTyped DEF HandlerLocals, Idle
  <2>4. /\ l.at \in {"next", "each", "idle"}
        /\ l.at = "next" => l.plan = p
        /\ l.at = "each" => l.todo # {}
    BY DEF Idle
  <2>5. Carries(l, approved')
    BY <2>2, <2>4 DEF Carries
  <2> QED
    BY <2>3, <2>5
<1>2. handler' = [handler EXCEPT ![x] = l]
  BY DEF Approves
<1>3. /\ handler' \in [Handlers -> HandlerLocals]
      /\ handler'[x] = l
      /\ \A y \in Handlers \ {x} : handler'[y] = handler[y]
  BY <1>1, <1>2, Update DEF IInv
<1>4. /\ plan' = [plan EXCEPT ![p] = IF plan[p] = "proposed" THEN "approved" ELSE plan[p]]
      /\ approved' = IF plan[p] = "proposed" THEN approved \cup {p} ELSE approved
  BY DEF Approves
<1>5. approved \subseteq approved' /\ approved' \subseteq Plans
  BY <1>4 DEF IInv, TypeOK
<1>6. plan' \in [Plans -> PlanStates]
  BY <1>4 DEF IInv, TypeOK, PlanStates
<1>7. TypeOK'
  BY <1>3, <1>5, <1>6 DEF IInv, TypeOK
<1>8. OpenWasApproved'
  BY <1>4 DEF IInv, TypeOK, OpenWasApproved
<1>9. CarriedWasApproved'
  BY <1>1, <1>3, <1>5, CarriedKept
<1> QED
  BY <1>5, <1>7, <1>8, <1>9 DEF IInv, BoundWasApproved, NothingBeforeApproval

LEMMA DispatchStep ==
    ASSUME OrchestratorAssumption, IInv, NEW x \in Handlers,
           NextPending(x) \/ LoadTask(x) \/ StartWorker(x) \/ RecordWorker(x)
    PROVE  IInv'
<1>1. CASE NextPending(x)
  <2>1. CASE Return(x)
    BY <1>1, <2>1, ReturnStep, OnlyMoves DEF NextPending, IInv, Carries
  <2>2. CASE /\ Pending(handler[x].plan) # {}
             /\ handler' = [handler EXCEPT ![x].at = "load",
                                           ![x].step = Min(Pending(handler[x].plan))]
    <3> DEFINE s == Min(Pending(handler[x].plan))
               l == [handler[x] EXCEPT !.at = "load", !.step = s]
    <3>1. Pending(handler[x].plan) \subseteq Nat
      BY DEF Pending
    <3>2. s \in 0..NumSteps
      <4>1. s \in Pending(handler[x].plan)
        BY <2>2, <3>1, MinIsIn
      <4> QED
        BY <4>1 DEF Pending, OrchestratorAssumption
    <3> HIDE DEF s
    <3>3. handler[x] \in HandlerLocals /\ "load" \in Places \ Carrying
      BY DEF IInv, TypeOK, Places, Carrying
    <3>8. handler[x].plan \in Plans
      BY <1>1 DEF IInv, CarriedWasApproved, Carries, NextPending, At, Pointing
    <3>4. l \in HandlerLocals /\ l.at = "load" /\ l.plan = handler[x].plan
      BY <3>2, <3>3 DEF HandlerLocals
    <3>5. handler' = [handler EXCEPT ![x] = l]
      BY <2>2, <3>3 DEF IInv, TypeOK, HandlerLocals, s
    <3>6. /\ handler' \in [Handlers -> HandlerLocals]
          /\ handler'[x] = l
          /\ \A y \in Handlers \ {x} : handler'[y] = handler[y]
      BY <3>4, <3>5, Update DEF IInv
    <3>7. Carries(handler'[x], approved)
      BY <3>3, <3>4, <3>6, <3>8 DEF Carries
    <3> QED
      BY <1>1, <3>6, <3>7, OnlyMoves DEF NextPending
  <2> QED
    BY <1>1, <2>1, <2>2 DEF NextPending
<1>2. CASE LoadTask(x)
  <2>1. CASE Return(x)
    BY <1>2, <2>1, ReturnStep, OnlyMoves DEF LoadTask, IInv, Carries
  <2>2. CASE ~Return(x)
    <3>1. plan[handler[x].plan] \in {"approved", "executing"} /\ Goto(x, "start")
      BY <1>2, <2>2 DEF LoadTask
    <3>2. "start" \in Places
      BY DEF Places
    <3>3. /\ handler' \in [Handlers -> HandlerLocals]
          /\ handler'[x].at = "start"
          /\ handler'[x].plan = handler[x].plan
          /\ \A y \in Handlers \ {x} : handler'[y] = handler[y]
      BY <3>1, <3>2, GotoStep DEF IInv
    <3>7. handler'[x].at # "each"
      BY <3>3
    <3>4. handler[x].plan \in Plans
      BY <1>2 DEF IInv, CarriedWasApproved, Carries, LoadTask, At, Pointing
    <3>5. handler[x].plan \in approved
      BY <3>1, <3>4 DEF IInv, OpenWasApproved
    <3>6. Carries(handler'[x], approved)
      BY <3>3, <3>4, <3>5, <3>7 DEF Carries
    <3> QED
      BY <1>2, <3>3, <3>6, OnlyMoves DEF LoadTask
  <2> QED
    BY <2>1, <2>2
<1>3. CASE StartWorker(x)
  BY <1>3, StartsStep DEF StartWorker, At, Carrying
<1>4. CASE RecordWorker(x)
  <2> DEFINE p == handler[x].plan
  <2>1. p \in approved /\ handler[x].run \in 0..NumRuns
    BY <1>4 DEF RecordWorker, At, Carrying, Carries, IInv, CarriedWasApproved, TypeOK,
                HandlerLocals
  <2>2. Return(x) /\ UNCHANGED <<goal, run, work, approved, disturbances>>
    BY <1>4 DEF RecordWorker
  <2>3. /\ handler' \in [Handlers -> HandlerLocals]
        /\ Carries(handler'[x], {})
        /\ \A y \in Handlers \ {x} : handler'[y] = handler[y]
    BY <2>2, ReturnStep DEF IInv
  <2>4. plan' = [plan EXCEPT ![p] = IF plan[p] = "approved" THEN "executing" ELSE plan[p]]
    BY <1>4 DEF RecordWorker
  <2>5. task' = [task EXCEPT ![Mine(x)] = [task[Mine(x)] EXCEPT !.status = "running",
                                                              !.run = handler[x].run]]
    BY <1>4 DEF RecordWorker, IInv, TypeOK, TaskRows
  <2>6. Mine(x)[1] = p
    BY DEF Mine
  <2>7. plan' \in [Plans -> PlanStates] /\ OpenWasApproved'
    BY <2>1, <2>2, <2>4 DEF IInv, TypeOK, PlanStates, OpenWasApproved
  <2>8. task' \in [Tasks -> TaskRows] /\ BoundWasApproved'
    <3>1. task \in [Tasks -> TaskRows]
      BY DEF IInv, TypeOK
    <3>2. \A u \in Tasks : [task[u] EXCEPT !.status = "running", !.run = handler[x].run]
                              \in TaskRows
      BY <2>1, <3>1 DEF TaskRows, TaskStates
    <3>3. task' \in [Tasks -> TaskRows]
      BY <2>5, <3>1, <3>2
    <3>4. \A u \in Tasks : u # Mine(x) => task'[u] = task[u]
      BY <2>5, <3>1
    <3> QED
      BY <2>1, <2>2, <2>6, <3>3, <3>4 DEF IInv, BoundWasApproved
  <2>9. TypeOK'
    BY <2>2, <2>3, <2>7, <2>8 DEF IInv, TypeOK
  <2>10. CarriedWasApproved'
    BY <2>2, <2>3, CarriedKept DEF Carries
  <2> QED
    BY <2>2, <2>7, <2>8, <2>9, <2>10 DEF IInv, NothingBeforeApproval
<1> QED
  BY <1>1, <1>2, <1>3, <1>4

LEMMA SweepStepHolds ==
    ASSUME OrchestratorAssumption, IInv, "sweep" \in Clients,
           SweepPlans \/ SweepCollects \/ SweepExecutes
    PROVE  IInv'
<1>1. Sweeper \in Handlers
  BY DEF Handlers, Sweeper
<1>2. CASE SweepPlans
  <2>1. "decompose" \in Places /\ Goto(Sweeper, "decompose")
    BY <1>2 DEF SweepPlans, Places
  <2>2. /\ handler' \in [Handlers -> HandlerLocals]
        /\ handler'[Sweeper].at = "decompose"
        /\ \A y \in Handlers \ {Sweeper} : handler'[y] = handler[y]
    BY <1>1, <2>1, GotoStep DEF IInv
  <2>3. Carries(handler'[Sweeper], approved)
    BY <2>2 DEF Carries, Carrying, Pointing
  <2> QED
    BY <1>1, <1>2, <2>2, <2>3, OnlyMoves DEF SweepPlans
<1>3. CASE SweepCollects
  <2> DEFINE proposed == IF goal = "active"
                         THEN {p \in Plans : plan[p] = "proposed"} ELSE {}
             l == IF proposed = {} THEN Idle
                  ELSE [Idle EXCEPT !.at = "each", !.todo = proposed]
  <2>1. handler' = [handler EXCEPT ![Sweeper] = l]
    BY <1>3 DEF SweepCollects
  <2>2. l \in HandlerLocals /\ l.at \in {"idle", "each"} /\ (l.at = "each" => l.todo # {})
    BY IdleTyped DEF HandlerLocals, Idle, Places
  <2> HIDE DEF l
  <2>3. /\ handler' \in [Handlers -> HandlerLocals]
        /\ handler'[Sweeper] = l
        /\ \A y \in Handlers \ {Sweeper} : handler'[y] = handler[y]
    BY <1>1, <2>1, <2>2, Update DEF IInv
  <2>4. Carries(handler'[Sweeper], approved)
    BY <2>2, <2>3 DEF Carries, Carrying, Pointing
  <2> QED
    BY <1>1, <1>3, <2>3, <2>4, OnlyMoves DEF SweepCollects
<1>4. CASE SweepExecutes
  <2> DEFINE todo == handler[Sweeper].todo
  <2>1. todo \in SUBSET Plans /\ disturbances \in 0..MaxDisturbances
    BY <1>1 DEF IInv, TypeOK, HandlerLocals
  <2>2. todo # {}
    BY <1>1, <1>4 DEF SweepExecutes, At, IInv, CarriedWasApproved, Carries
  <2>3. Min(todo) \in Plans
    BY <2>1, <2>2, MinIsIn DEF Plans
  <2> QED
    BY <1>1, <1>4, <2>1, <2>3, ApprovesStep DEF SweepExecutes
<1> QED
  BY <1>2, <1>3, <1>4

LEMMA UserStep ==
    ASSUME OrchestratorAssumption, IInv, "user" \in Clients,
           (\E p \in Plans : UserExecutes(p)) \/ UserAsks
    PROVE  IInv'
<1>1. User \in Handlers
  BY DEF Handlers, User
<1>2. disturbances' \in 0..MaxDisturbances
  <2>1. Disturb
    BY DEF UserExecutes, UserAsks
  <2> QED
    BY <2>1 DEF Disturb, IInv, TypeOK, OrchestratorAssumption
<1>3. ASSUME NEW p \in Plans, UserExecutes(p) PROVE IInv'
  <2>1. {} \in SUBSET Plans
    OBVIOUS
  <2> QED
    BY <1>1, <1>2, <1>3, <2>1, ApprovesStep DEF UserExecutes
<1>4. CASE UserAsks
  <2> DEFINE Asks(l) == /\ handler' = [handler EXCEPT ![User] = l]
                        /\ l \in HandlerLocals
                        /\ Carries(l, approved)
  <2>1. ASSUME NEW p \in Created,
               handler' = [handler EXCEPT ![User] = [Idle EXCEPT !.at = "next", !.plan = p]]
        PROVE  \E l : Asks(l)
    <3>1. p \in Plans /\ p \in 0..NumPlans
      BY DEF Created, Plans, OrchestratorAssumption
    <3>2. Asks([Idle EXCEPT !.at = "next", !.plan = p])
      BY <2>1, <3>1, IdleTyped DEF HandlerLocals, Idle, Places, Carries, Carrying
    <3> QED
      BY <3>2
  <2>2. ASSUME NEW t \in Tasks, t[1] \in Created,
               handler' = [handler EXCEPT ![User] =
                    [Idle EXCEPT !.at = "load", !.plan = t[1], !.step = t[2]]]
        PROVE  \E l : Asks(l)
    <3>1. t[1] \in Plans /\ t[1] \in 0..NumPlans /\ t[2] \in 0..NumSteps
      BY DEF Tasks, Plans, OrchestratorAssumption
    <3>2. Asks([Idle EXCEPT !.at = "load", !.plan = t[1], !.step = t[2]])
      BY <2>2, <3>1, IdleTyped DEF HandlerLocals, Idle, Places, Carries, Carrying
    <3> QED
      BY <3>2
  <2>3. ASSUME Goto(User, "decompose")
        PROVE  \E l : Asks(l)
    <3>1. "decompose" \in Places \ (Carrying \cup Pointing) /\ handler[User] \in HandlerLocals
      BY <1>1 DEF Places, Carrying, Pointing, IInv, TypeOK
    <3>2. [handler[User] EXCEPT !.at = "decompose"] \in HandlerLocals
      BY <3>1 DEF HandlerLocals
    <3>3. Carries([handler[User] EXCEPT !.at = "decompose"], approved)
      BY <3>1 DEF HandlerLocals, Carries
    <3>4. handler' = [handler EXCEPT ![User] = [handler[User] EXCEPT !.at = "decompose"]]
      BY <2>3 DEF Goto
    <3> QED
      BY <3>2, <3>3, <3>4
  <2>4. PICK l : Asks(l)
    BY <1>4, <2>1, <2>2, <2>3 DEF UserAsks
  <2>5. /\ handler' \in [Handlers -> HandlerLocals]
        /\ handler'[User] = l
        /\ \A y \in Handlers \ {User} : handler'[y] = handler[y]
    BY <1>1, <2>4, Update DEF IInv
  <2>6. UNCHANGED <<goal, plan, task, run, work, approved>>
    BY <1>4 DEF UserAsks
  <2>7. TypeOK'
    BY <1>2, <2>5, <2>6 DEF IInv, TypeOK
  <2>8. CarriedWasApproved'
    BY <1>1, <2>4, <2>5, <2>6, CarriedKept
  <2> QED
    BY <2>6, <2>7, <2>8 DEF IInv, OpenWasApproved, BoundWasApproved, NothingBeforeApproval
<1> QED
  BY <1>3, <1>4

LEMMA CrashStep ==
    ASSUME OrchestratorAssumption, IInv, Crash
    PROVE  IInv'
<1>1. /\ handler' = [x \in Handlers |-> Idle]
      /\ UNCHANGED <<goal, plan, task, run, work, approved>>
      /\ disturbances' \in 0..MaxDisturbances
  BY DEF Crash, Disturb, IInv, TypeOK, OrchestratorAssumption
<1>2. TypeOK'
  BY <1>1, IdleTyped DEF IInv, TypeOK
<1>3. CarriedWasApproved'
  BY <1>1 DEF CarriedWasApproved, Carries, Carrying, Pointing, Idle
<1> QED
  BY <1>1, <1>2, <1>3 DEF IInv, OpenWasApproved, BoundWasApproved, NothingBeforeApproval

\* The hook, up to its mark.  It carries the plan of a task that has a worker.
LEMMA HookReads ==
    ASSUME OrchestratorAssumption, IInv, NEW x \in Hooks,
           HookLoads(x) \/ HookReadsRun(x) \/ HookMarks(x)
    PROVE  IInv'
<1>1. x \in Handlers /\ x[1] \in Runs
  BY DEF Handlers, Hooks
<1>2. ASSUME Ends(x), UNCHANGED <<goal, plan, task, run, work, approved, disturbances>>
      PROVE  IInv'
  <2>1. /\ handler' \in [Handlers -> HandlerLocals]
        /\ handler'[x].at = "idle"
        /\ \A y \in Handlers \ {x} : handler'[y] = handler[y]
    BY <1>1, <1>2, EndsStep DEF IInv
  <2>2. Carries(handler'[x], approved)
    BY <2>1 DEF Carries, Carrying, Pointing
  <2> QED
    BY <1>1, <1>2, <2>1, <2>2, OnlyMoves
<1>3. CASE HookLoads(x)
  <2>1. CASE Ends(x)
    BY <1>2, <1>3, <2>1 DEF HookLoads
  <2>2. CASE ~Ends(x)
    <3>1. PICK t \in Tasks :
            /\ task[t].run = x[1]
            /\ handler' = [handler EXCEPT ![x].at = "loaded", ![x].plan = t[1],
                                          ![x].step = t[2], ![x].attempt = task[t].attempt]
      BY <1>3, <2>2 DEF HookLoads
    <3> DEFINE l == [handler[x] EXCEPT !.at = "loaded", !.plan = t[1], !.step = t[2],
                                       !.attempt = task[t].attempt]
    <3>2. /\ "loaded" \in Places /\ t[1] \in 0..NumPlans /\ t[2] \in 0..NumSteps
          /\ task[t].attempt \in Nat /\ handler[x] \in HandlerLocals
      BY <1>1 DEF Places, Tasks, Plans, OrchestratorAssumption, IInv, TypeOK, TaskRows
    <3>3. l \in HandlerLocals /\ l.at = "loaded" /\ l.plan = t[1]
      BY <3>2 DEF HandlerLocals
    <3>4. handler' = [handler EXCEPT ![x] = l]
      BY <1>1, <3>1, <3>2 DEF IInv, TypeOK, HandlerLocals
    <3> HIDE DEF l
    <3>5. t[1] \in approved
      BY <1>1, <3>1 DEF IInv, BoundWasApproved, Runs, OrchestratorAssumption
    <3>6. /\ handler' \in [Handlers -> HandlerLocals]
          /\ handler'[x] = l
          /\ \A y \in Handlers \ {x} : handler'[y] = handler[y]
      BY <1>1, <3>3, <3>4, Update DEF IInv
    <3>7. Carries(handler'[x], approved)
      BY <3>3, <3>5, <3>6 DEF Carries, Pointing
    <3> QED
      BY <1>1, <1>3, <3>6, <3>7, OnlyMoves DEF HookLoads
  <2> QED
    BY <2>1, <2>2
<1>4. CASE HookReadsRun(x)
  <2>1. CASE Ends(x)
    BY <1>2, <1>4, <2>1 DEF HookReadsRun
  <2>2. CASE ~Ends(x)
    <3> DEFINE l == [handler[x] EXCEPT !.at = "mark", !.seen = run[x[1]]]
    <3>1. handler' = [handler EXCEPT ![x].at = "mark", ![x].seen = run[x[1]]]
      BY <1>4, <2>2 DEF HookReadsRun
    <3>2. "mark" \in Places /\ run[x[1]] \in RunStates /\ handler[x] \in HandlerLocals
      BY <1>1 DEF Places, IInv, TypeOK
    <3>3. l \in HandlerLocals /\ l.at = "mark" /\ l.plan = handler[x].plan
      BY <3>2 DEF HandlerLocals
    <3>4. handler' = [handler EXCEPT ![x] = l]
      BY <1>1, <3>1, <3>2 DEF IInv, TypeOK, HandlerLocals
    <3> HIDE DEF l
    <3>5. handler[x].plan \in approved
      BY <1>1, <1>4 DEF HookReadsRun, At, Carrying, IInv, CarriedWasApproved, Carries
    <3>6. /\ handler' \in [Handlers -> HandlerLocals]
          /\ handler'[x] = l
          /\ \A y \in Handlers \ {x} : handler'[y] = handler[y]
      BY <1>1, <3>3, <3>4, Update DEF IInv
    <3>7. Carries(handler'[x], approved)
      BY <3>3, <3>5, <3>6 DEF Carries, Pointing
    <3> QED
      BY <1>1, <1>4, <3>6, <3>7, OnlyMoves DEF HookReadsRun
  <2> QED
    BY <2>1, <2>2
<1>5. CASE HookMarks(x)
  <2>1. PICK status \in TaskStates : task' = [task EXCEPT ![Mine(x)].status = status]
    BY <1>5 DEF HookMarks, TaskStates
  <2>2. UNCHANGED <<goal, plan, run, work, approved, disturbances>>
    BY <1>5 DEF HookMarks
  <2>3. handler[x].plan \in approved
    BY <1>1, <1>5 DEF HookMarks, At, Carrying, IInv, CarriedWasApproved, Carries
  <2>4. /\ handler' \in [Handlers -> HandlerLocals]
        /\ handler'[x].at \in {"count", "judge"}
        /\ handler'[x].plan = handler[x].plan
        /\ \A y \in Handlers \ {x} : handler'[y] = handler[y]
    <3>1. "count" \in Places /\ "judge" \in Places
      BY DEF Places
    <3> QED
      BY <1>1, <1>5, <3>1, GotoStep, GoOnStep DEF HookMarks, IInv
  <2>5. Carries(handler'[x], approved)
    BY <2>3, <2>4 DEF Carries, Pointing
  <2>6. task' \in [Tasks -> TaskRows] /\ \A t \in Tasks : task'[t].run = task[t].run
    BY <2>1 DEF IInv, TypeOK, TaskRows
  <2> QED
    BY <1>1, <2>2, <2>4, <2>5, <2>6, StatusStep
<1> QED
  BY <1>3, <1>4, <1>5

\* The hook from its verdict to the recount.
LEMMA HookJudges ==
    ASSUME OrchestratorAssumption, IInv, NEW x \in Hooks,
           \/ HookPasses(x) \/ HookRetries(x) \/ HookRebinds(x)
           \/ HookGivesUp(x) \/ HookSkipsRest(x)
    PROVE  IInv'
<1>1. x \in Handlers
  BY DEF Handlers
<1>2. {"next", "skip", "count"} \subseteq Places \ Carrying
  BY DEF Places, Carrying
<1>3. CASE HookPasses(x)
  <2>1. handler[x].plan \in Plans
    BY <1>1, <1>3 DEF HookPasses, At, Carrying, IInv, CarriedWasApproved, Carries, TypeOK
  <2>2. /\ handler' \in [Handlers -> HandlerLocals]
        /\ handler'[x].at = "next" /\ handler'[x].plan = handler[x].plan
        /\ \A y \in Handlers \ {x} : handler'[y] = handler[y]
    BY <1>1, <1>2, <1>3, GoOnStep DEF HookPasses, IInv
  <2>3. Carries(handler'[x], approved)
    BY <1>2, <2>1, <2>2 DEF Carries
  <2>4. task' \in [Tasks -> TaskRows] /\ \A t \in Tasks : task'[t].run = task[t].run
    BY <1>3, SetStatus DEF HookPasses, IInv, TaskStates
  <2> QED
    BY <1>1, <1>3, <2>2, <2>3, <2>4, StatusStep DEF HookPasses
<1>4. CASE HookRetries(x)
  BY <1>1, <1>4, StartsStep DEF HookRetries, At, Carrying
<1>5. CASE HookRebinds(x)
  <2>1. handler[x].plan \in approved /\ handler[x].run \in 0..NumRuns
    BY <1>1, <1>5 DEF HookRebinds, At, Carrying, IInv, CarriedWasApproved, Carries, TypeOK,
                      HandlerLocals
  <2>2. task' = [task EXCEPT ![Mine(x)] = [status |-> "running", run |-> handler[x].run,
                                          attempt |-> task[Mine(x)].attempt + 1]]
    BY <1>5 DEF HookRebinds
  <2>3. task' \in [Tasks -> TaskRows]
    <3>1. CASE Mine(x) \in Tasks
      <4>1. task[Mine(x)] \in TaskRows
        BY <3>1 DEF IInv, TypeOK
      <4>2. [status |-> "running", run |-> handler[x].run,
             attempt |-> task[Mine(x)].attempt + 1] \in TaskRows
        BY <2>1, <4>1 DEF TaskRows, TaskStates
      <4> QED
        BY <2>2, <4>2 DEF IInv, TypeOK
    <3>2. CASE Mine(x) \notin Tasks
      BY <2>2, <3>2 DEF IInv, TypeOK
    <3> QED
      BY <3>1, <3>2
  <2>4. Mine(x)[1] = handler[x].plan
    BY DEF Mine
  <2>5. UNCHANGED <<goal, plan, run, work, approved, disturbances>> /\ GoOn(x, "count")
    BY <1>5 DEF HookRebinds
  <2>6. BoundWasApproved'
    BY <2>1, <2>2, <2>4, <2>5 DEF IInv, TypeOK, BoundWasApproved
  <2>7. /\ handler' \in [Handlers -> HandlerLocals]
        /\ handler'[x].at = "count"
        /\ \A y \in Handlers \ {x} : handler'[y] = handler[y]
    BY <1>1, <1>2, <2>5, GoOnStep DEF IInv
  <2>8. CarriedWasApproved'
    <3>1. Carries(handler'[x], approved')
      BY <2>7 DEF Carries, Carrying, Pointing
    <3> QED
      BY <1>1, <2>5, <2>7, <3>1, CarriedKept
  <2>9. TypeOK'
    BY <2>3, <2>5, <2>7 DEF IInv, TypeOK
  <2> QED
    BY <2>5, <2>6, <2>8, <2>9 DEF IInv, OpenWasApproved, NothingBeforeApproval
<1>6. ASSUME NEW place \in {"skip", "count"}, GoOn(x, place),
             UNCHANGED <<goal, plan, run, work, approved, disturbances>>,
             task' \in [Tasks -> TaskRows], \A t \in Tasks : task'[t].run = task[t].run
      PROVE  IInv'
  <2>1. /\ handler' \in [Handlers -> HandlerLocals]
        /\ handler'[x].at = place
        /\ \A y \in Handlers \ {x} : handler'[y] = handler[y]
    BY <1>1, <1>2, <1>6, GoOnStep DEF IInv
  <2>2. Carries(handler'[x], approved)
    BY <1>2, <2>1 DEF Carries, Pointing
  <2> QED
    BY <1>1, <1>6, <2>1, <2>2, StatusStep
<1>7. CASE HookGivesUp(x)
  <2>1. task' \in [Tasks -> TaskRows] /\ \A t \in Tasks : task'[t].run = task[t].run
    BY <1>7, SetStatus DEF HookGivesUp, IInv, TaskStates
  <2> QED
    BY <1>6, <1>7, <2>1 DEF HookGivesUp
<1>8. CASE HookSkipsRest(x)
  <2>1. task' \in [Tasks -> TaskRows] /\ \A t \in Tasks : task'[t].run = task[t].run
    <3>1. \A u \in Tasks : /\ task[u] \in TaskRows
                           /\ [task[u] EXCEPT !.status = "skipped"] \in TaskRows
                           /\ [task[u] EXCEPT !.status = "skipped"].run = task[u].run
      BY DEF IInv, TypeOK, TaskRows, TaskStates
    <3> QED
      BY <1>8, <3>1 DEF HookSkipsRest
  <2> QED
    BY <1>6, <1>8, <2>1 DEF HookSkipsRest
<1> QED
  BY <1>3, <1>4, <1>5, <1>7, <1>8

\* From the recount to the next plan.
LEMMA HookCloses ==
    ASSUME OrchestratorAssumption, IInv, NEW x \in Hooks,
           HookCounts(x) \/ HookFinalizes(x) \/ HookVerifiesGoal(x) \/ HookTallies(x)
    PROVE  IInv'
<1>1. x \in Handlers
  BY DEF Handlers
<1> DEFINE Moved == /\ handler' \in [Handlers -> HandlerLocals]
                    /\ Carries(handler'[x], approved)
                    /\ \A y \in Handlers \ {x} : handler'[y] = handler[y]
           Stops == \/ Ends(x)
                    \/ \E place \in {"finalize", "goal", "tally"} : GoOn(x, place)
                    \/ handler' = [handler EXCEPT ![x] = [Idle EXCEPT !.at = "decompose"]]
<1>2. ASSUME Stops PROVE Moved
  <2>1. CASE Ends(x)
    BY <1>1, <2>1, EndsStep DEF IInv, Carries, Carrying, Pointing
  <2>2. ASSUME NEW place \in {"finalize", "goal", "tally"}, GoOn(x, place) PROVE Moved
    <3>1. place \in Places \ (Carrying \cup Pointing) /\ place # "each"
      BY DEF Places, Carrying, Pointing
    <3> QED
      BY <1>1, <2>2, <3>1, GoOnStep DEF IInv, Carries
  <2>3. CASE handler' = [handler EXCEPT ![x] = [Idle EXCEPT !.at = "decompose"]]
    <3>1. [Idle EXCEPT !.at = "decompose"] \in HandlerLocals
      BY IdleTyped DEF HandlerLocals, Places
    <3>2. Carries([Idle EXCEPT !.at = "decompose"], approved)
      BY DEF Carries, Carrying, Pointing, Idle
    <3> QED
      BY <1>1, <2>3, <3>1, <3>2, Update DEF IInv
  <2> QED
    BY <1>2, <2>1, <2>2, <2>3
<1>3. Stops /\ UNCHANGED <<task, run, work, approved, disturbances>>
  BY DEF HookCounts, HookFinalizes, HookVerifiesGoal, HookTallies
<1>4. /\ goal' \in {"active", "achieved"}
      /\ \/ plan' = plan
         \/ /\ plan[handler[x].plan] = "executing"
            /\ plan' = [plan EXCEPT ![handler[x].plan] = "done"]
  BY DEF HookCounts, HookFinalizes, HookVerifiesGoal, HookTallies, IInv, TypeOK
<1>5. plan' \in [Plans -> PlanStates] /\ OpenWasApproved'
  BY <1>3, <1>4 DEF IInv, TypeOK, PlanStates, OpenWasApproved
<1>6. TypeOK'
  BY <1>2, <1>3, <1>4, <1>5 DEF IInv, TypeOK
<1>7. CarriedWasApproved'
  BY <1>1, <1>2, <1>3, CarriedKept
<1> QED
  BY <1>3, <1>5, <1>6, <1>7 DEF IInv, BoundWasApproved, NothingBeforeApproval

-----------------------------------------------------------------------------
(* The theorems.                                                           *)

LEMMA NextHolds == OrchestratorAssumption /\ IInv /\ [Next]_vars => IInv'
<1> SUFFICES ASSUME OrchestratorAssumption, IInv, [Next]_vars PROVE IInv'
  OBVIOUS
<1>1. CASE UNCHANGED vars
  BY <1>1 DEF vars, IInv, TypeOK, OpenWasApproved, BoundWasApproved, CarriedWasApproved,
              NothingBeforeApproval
<1>2. ASSUME NEW r \in Runs, RunEnds(r) \/ RunParks(r) \/ RunResumes(r) \/ RunCancelled(r)
      PROVE  IInv'
  BY <1>2, RunStep
<1>3. ASSUME NEW x \in Hooks, HookStep(x) PROVE IInv'
  BY <1>3, HookReads, HookJudges, HookCloses DEF HookStep
<1>4. ASSUME NEW x \in Handlers, HandlerStep(x) PROVE IInv'
  BY <1>4, PlanStep, DispatchStep DEF HandlerStep
<1>5. CASE "sweep" \in Clients /\ (SweepPlans \/ SweepCollects \/ SweepExecutes)
  BY <1>5, SweepStepHolds
<1>6. ASSUME NEW p \in Plans, ApprovePlan(p) PROVE IInv'
  BY <1>6, ApprovePlanStep
<1>7. CASE "user" \in Clients /\ ((\E p \in Plans : UserExecutes(p)) \/ UserAsks)
  BY <1>7, UserStep
<1>8. CASE Crash
  BY <1>8, CrashStep
<1> QED
  BY <1>1, <1>2, <1>3, <1>4, <1>5, <1>6, <1>7, <1>8 DEF Next

LEMMA Inductive == Spec => []IInv
<1>1. Init => IInv
  BY InitHolds, OrchestratorAssumption
<1>2. IInv /\ [Next]_vars => IInv'
  BY NextHolds, OrchestratorAssumption
<1> QED
  BY <1>1, <1>2, PTL DEF Spec

\* Every reachable state is well typed.
THEOREM OrchestratorTypes == Spec => []TypeOK
<1>1. IInv => TypeOK
  BY DEF IInv
<1> QED
  BY <1>1, Inductive, PTL

\* No worker is started for a plan that was never approved, however stale what a
\* request or a hook has read.
THEOREM ApprovalFirst == Spec => []NothingBeforeApproval
<1>1. IInv => NothingBeforeApproval
  BY DEF IInv
<1> QED
  BY <1>1, Inductive, PTL

\* Each UPDATE of a plan's status is guarded by the status it moves from, so no
\* handler revives a plan that another has closed.
THEOREM PlansNeverGoBack == Spec => PlansMoveForward
<1> DEFINE Forward == \A p \in Plans : plan'[p] = plan[p] \/ Rank[plan[p]] < Rank[plan'[p]]
           Moves(p) == \/ plan'[p] = plan[p]
                       \/ plan[p] = "none" /\ plan'[p] = "proposed"
                       \/ plan[p] = "proposed" /\ plan'[p] = "approved"
                       \/ plan[p] = "approved" /\ plan'[p] = "executing"
                       \/ plan[p] = "executing" /\ plan'[p] = "done"
                       \/ plan[p] \in LivePlan /\ plan'[p] = "abandoned"
<1>1. ASSUME IInv, [Next]_vars, NEW p \in Plans PROVE Moves(p)
  <2>1. CASE UNCHANGED plan
    BY <2>1
  <2>2. ASSUME NEW x \in Handlers, InsertPlan(x) PROVE Moves(p)
    BY <1>1, <2>2 DEF InsertPlan, IInv, TypeOK
  <2>3. ASSUME NEW q \in Plans, ApprovePlan(q) PROVE Moves(p)
    BY <1>1, <2>3 DEF ApprovePlan, IInv, TypeOK
  <2>4. ASSUME NEW x, NEW q, NEW todo, Approves(x, q, todo) PROVE Moves(p)
    BY <1>1, <2>4 DEF Approves, IInv, TypeOK
  <2>5. ASSUME NEW x \in Handlers, RecordWorker(x) PROVE Moves(p)
    BY <1>1, <2>5 DEF RecordWorker, IInv, TypeOK
  <2>6. ASSUME NEW x \in Hooks, HookFinalizes(x) PROVE Moves(p)
    <3>1. \/ plan' = plan
          \/ /\ plan[handler[x].plan] = "executing"
             /\ plan' = [plan EXCEPT ![handler[x].plan] = "done"]
      BY <2>6 DEF HookFinalizes
    <3>2. plan \in [Plans -> PlanStates]
      BY <1>1 DEF IInv, TypeOK
    <3>3. CASE plan' = plan
      BY <3>3
    <3>4. ASSUME plan[handler[x].plan] = "executing",
                 plan' = [plan EXCEPT ![handler[x].plan] = "done"]
          PROVE  Moves(p)
      <4>1. CASE p = handler[x].plan
        BY <3>2, <3>4, <4>1
      <4>2. CASE p # handler[x].plan
        BY <3>2, <3>4, <4>2
      <4> QED
        BY <4>1, <4>2
    <3> QED
      BY <3>1, <3>3, <3>4
  <2>7. ASSUME NEW x \in Hooks, HookStep(x) PROVE Moves(p)
    BY <2>1, <2>6, <2>7
       DEF HookStep, HookLoads, HookReadsRun, HookMarks, HookPasses, HookRetries, HookRebinds,
           HookGivesUp, HookSkipsRest, HookCounts, HookVerifiesGoal, HookTallies
  <2>8. ASSUME NEW x \in Handlers, HandlerStep(x) PROVE Moves(p)
    BY <2>1, <2>2, <2>5, <2>8
       DEF HandlerStep, DecomposeGoal, NextPending, LoadTask, StartWorker
  <2>9. CASE SweepPlans \/ SweepCollects \/ SweepExecutes
    BY <2>1, <2>4, <2>9 DEF SweepPlans, SweepCollects, SweepExecutes
  <2>10. CASE (\E q \in Plans : UserExecutes(q)) \/ UserAsks
    BY <2>1, <2>4, <2>10 DEF UserExecutes, UserAsks
  <2>11. CASE \E r \in Runs : RunEnds(r) \/ RunParks(r) \/ RunResumes(r) \/ RunCancelled(r)
    BY <2>1, <2>11 DEF RunEnds, RunParks, RunResumes, RunCancelled
  <2>12. CASE Crash \/ UNCHANGED vars
    BY <2>1, <2>12 DEF Crash, vars
  <2> QED
    BY <1>1, <2>3, <2>7, <2>8, <2>9, <2>10, <2>11, <2>12 DEF Next
<1>2. ASSUME NEW p \in Plans, Moves(p) PROVE plan'[p] = plan[p] \/ Rank[plan[p]] < Rank[plan'[p]]
  BY <1>2 DEF Rank, LivePlan
<1>3. IInv /\ [Next]_vars => [Forward]_vars
  BY <1>1, <1>2
<1> QED
  BY <1>3, Inductive, PTL DEF Spec, PlansMoveForward

-----------------------------------------------------------------------------
(* The hands-off pipeline: what holds until the first disturbance.  In this  *)
(* part a plan under way is followed through the hands it passes: the sweep  *)
(* that dispatches its first step, the worker, the hook of the worker's end, *)
(* the next worker.                                                         *)

\* A plan under way is in one hand at a time.  A handler at these places has its
\* plan's pipeline in hand, and so has, through its hook, a worker that its task
\* knows, until the hook of its end has looked the task up.
Acting == {"next", "load", "start", "record", "loaded", "mark", "judge", "rebind", "skip"}
Starting == {"record", "rebind"}
HookPlaces == {"fired", "loaded", "mark", "judge", "rebind", "skip", "count", "finalize",
               "goal", "tally"}
Ended(r) == <<r, "ended">>
Waits(r) == /\ run[r] = "running" \/ At(Ended(r), "fired")
            /\ work[r] \in Tasks /\ task[work[r]].run = r /\ task[work[r]].status = "running"
Holds(x, p) == \/ handler[x].at \in Acting /\ handler[x].plan = p
               \/ \E r \in Runs : x = Ended(r) /\ work[r][1] = p /\ Waits(r)
OneHand == \A p \in Plans : \A x, y \in Handlers : Holds(x, p) /\ Holds(y, p) => x = y

\* No one but the sweep and the hooks of ends acts; a worker that has not ended has
\* no hook yet, and one that is at work is known to its task or about to be.
LeftAlone ==
    /\ \A x \in Handlers : ~At(x, "idle") => x = Sweeper \/ x[2] = "ended"
    /\ \A x \in Handlers : handler[x].at \in HookPlaces => x \in Hooks
    /\ \A x \in Handlers \ {Sweeper} : ~At(x, "insert") => handler[x].todo = {}
    /\ \A r \in Runs : run[r] \in {"none", "running", "completed", "failed"}
Workers ==
    \A r \in Runs :
        /\ run[r] = "none" => work[r] = <<0, 0>>
        /\ run[r] \in {"none", "running"} => At(Ended(r), "idle")
        /\ run[r] = "running" =>
            Waits(r) \/ \E x \in Handlers : handler[x].at \in Starting /\ handler[x].run = r

\* The steps of a plan: those before one that was begun are completed, and none is
\* skipped unless one failed.
Verified(t) == \A s \in 1..(t[2] - 1) : task[<<t[1], s>>].status = "completed"
InOrder ==
    /\ \A t \in Tasks : task[t].status \notin {"pending", "skipped"} => Verified(t)
    /\ \A t \in Tasks : task[t].status = "skipped" =>
            \E s \in 1..NumSteps : task[<<t[1], s>>].status = "failed"
    /\ \A r \in Runs : run[r] # "none" => work[r] \in Tasks /\ Verified(work[r])

\* What a task says of its worker.
Binds(t) ==
    /\ task[t].status # "parked"
    /\ task[t].status \in {"pending", "skipped"} => task[t].run = 0
    /\ task[t].status \in {"running", "verifying", "completed", "failed"} =>
        task[t].run \in Runs /\ work[task[t].run] = t
    /\ task[t].status = "completed" => run[task[t].run] = "completed"
    /\ task[t].status = "verifying" =>
        /\ handler[Ended(task[t].run)].at \in {"judge", "rebind"}
        /\ Mine(Ended(task[t].run)) = t

\* What the handlers know at their places.
Ready(p) == \A s \in 1..NumSteps : task[<<p, s>>].status \in {"completed", "pending"}
AllDone(p) == \A s \in 1..NumSteps : task[<<p, s>>].status \in Terminal
Dispatches(x) ==
    /\ handler[x].at \in Acting \cup {"count", "finalize"} => handler[x].plan \in Plans
    /\ handler[x].at \in {"next", "load", "start", "record"} => Ready(handler[x].plan)
    /\ handler[x].at \in {"load", "start", "record"} =>
        Mine(x) \in Tasks /\ task[Mine(x)].status = "pending" /\ Verified(Mine(x))
    /\ handler[x].at \in Starting =>
        /\ handler[x].run \in Runs /\ run[handler[x].run] # "none"
        /\ work[handler[x].run] = Mine(x) /\ task[Mine(x)].run # handler[x].run
    /\ At(x, "finalize") => AllDone(handler[x].plan)
Judges(r) ==
    LET x == Ended(r) IN
    /\ handler[x].at \in {"loaded", "mark", "judge", "rebind"} =>
        /\ Mine(x) \in Tasks /\ task[Mine(x)].run = r
        /\ handler[x].attempt = task[Mine(x)].attempt
        /\ task[Mine(x)].status =
               IF handler[x].at \in {"judge", "rebind"} THEN "verifying" ELSE "running"
    /\ handler[x].at \in {"mark", "judge"} => handler[x].seen = run[r]
    /\ At(x, "rebind") => handler[x].attempt < MaxAttempts
    /\ At(x, "skip") =>
        \E s \in 1..NumSteps : task[<<handler[x].plan, s>>].status = "failed"

\* A plan nobody has approved is untouched, the sweep's list holds such plans, and
\* a plan that is done has nothing left to do.
PlansSound ==
    /\ \A p \in Plans : plan[p] \in {"none", "proposed"} =>
        /\ \A s \in 1..NumSteps : task[<<p, s>>].status = "pending"
        /\ \A x \in Handlers : handler[x].at \in Acting => handler[x].plan # p
        /\ \A r \in Runs : work[r][1] # p
    /\ \A x \in Handlers : ~At(x, "insert") =>
            \A p \in handler[x].todo : plan[p] \in {"proposed", "abandoned"}
    /\ \A p \in Plans : plan[p] = "done" => AllDone(p)

\* Workers counted by attempts: one for the first, one for every further attempt,
\* and the one a handler is about to record.
WorkersFor(t) == {r \in Runs : work[r] = t}
Recording(t) == \E x \in Handlers : handler[x].at \in Starting /\ Mine(x) = t
CountedFor(t) ==
    /\ task[t].attempt <= MaxAttempts
    /\ Cardinality(WorkersFor(t)) <=
          task[t].attempt + (IF task[t].status = "pending" THEN 0 ELSE 1)
                          + (IF Recording(t) THEN 1 ELSE 0)

Bindings == \A t \in Tasks : Binds(t)
Dispatching == \A x \in Handlers : Dispatches(x)
Judging == \A r \in Runs : Judges(r)
Counted == \A t \in Tasks : CountedFor(t)

Pipe == /\ OneHand /\ LeftAlone /\ Workers /\ InOrder /\ Bindings
        /\ Dispatching /\ Judging /\ PlansSound /\ Counted
PipeInv == HandsOff => Pipe

-----------------------------------------------------------------------------
(* Frames: what a step leaves alone when it writes no task.                *)

LEMMA HandlerFacts ==
    ASSUME OrchestratorAssumption
    PROVE  /\ \A r \in Runs : /\ r \in Nat /\ r # 0
                              /\ Ended(r) \in Hooks /\ Ended(r) \in Handlers
                              /\ Ended(r)[1] = r /\ Ended(r)[2] = "ended" /\ Ended(r) # Sweeper
           /\ \A x \in Hooks : /\ x \in Handlers /\ x[1] \in Runs /\ x # Sweeper
                               /\ x[2] = "ended" => x = Ended(x[1])
           /\ \A t \in Tasks : t[1] \in Plans /\ t[2] \in 1..NumSteps /\ t = <<t[1], t[2]>>
           /\ \A p \in Plans, s \in 1..NumSteps : <<p, s>> \in Tasks
           /\ <<0, 0>> \notin Tasks /\ 0 \notin Plans
           /\ \A x : Mine(x) = <<handler[x].plan, handler[x].step>>
           /\ \A x : Mine(x)[1] = handler[x].plan /\ Mine(x)[2] = handler[x].step
<1>1. \A r \in Runs : r \in Nat /\ r # 0
  BY DEF Runs, OrchestratorAssumption
<1> QED
  BY <1>1 DEF Handlers, Hooks, Ended, Sweeper, Tasks, Plans, Mine, Runs, OrchestratorAssumption

\* What is known of the hands when the handler x has the pipeline of its plan.
LEMMA OnlyHand ==
    ASSUME OrchestratorAssumption, IInv, Pipe, NEW x \in Handlers, handler[x].at \in Acting
    PROVE  /\ handler[x].plan \in Plans
           /\ \A y \in Handlers \ {x} : handler[y].at \in Acting => handler[y].plan # handler[x].plan
           /\ \A r \in Runs : work[r][1] = handler[x].plan => ~Waits(r)
<1>1. handler[x].plan \in Plans /\ Holds(x, handler[x].plan)
  BY DEF Pipe, Dispatching, Dispatches, Holds
<1>2. \A y \in Handlers \ {x} : handler[y].at \in Acting => handler[y].plan # handler[x].plan
  BY <1>1 DEF Pipe, OneHand, Holds
<1>3. ASSUME NEW r \in Runs, work[r][1] = handler[x].plan, Waits(r) PROVE FALSE
  <2>1. Ended(r) \in Handlers /\ Holds(Ended(r), handler[x].plan)
    BY <1>3, HandlerFacts DEF Holds
  <2>2. x = Ended(r)
    BY <1>1, <2>1 DEF Pipe, OneHand
  <2>3. handler[x].at \notin {"idle", "fired"}
    BY DEF Acting
  <2> QED
    BY <1>3, <2>2, <2>3 DEF Waits, At, Pipe, Workers
<1> QED
  BY <1>1, <1>2, <1>3

\* The hands after a step are those before it, or one takes the plan's over.
LEMMA HandsStep ==
    ASSUME OneHand, NEW p0, NEW z,
           \A p \in Plans \ {p0}, y \in Handlers : Holds(y, p)' => Holds(y, p),
           \A y \in Handlers : Holds(y, p0)' => y = z
    PROVE  OneHand'
BY DEF OneHand

\* A step of x that leaves rows of tasks and workers alone.
LEMMA Frame ==
    ASSUME OrchestratorAssumption, IInv, IInv', Pipe, NEW x \in Handlers,
           \A y \in Handlers \ {x} : handler'[y] = handler[y],
           UNCHANGED <<task, run, work>>,
           x = Sweeper \/ ~At(x, "idle"),
           handler[x].at \notin Starting \cup {"judge"},
           handler'[x].at \notin Starting \cup {"fired", "judge"}
    PROVE  /\ \A r \in Runs : At(Ended(r), "idle") => At(Ended(r), "idle")'
           /\ \A r \in Runs : Waits(r)' => Waits(r)
           /\ \A r \in Runs : run[r] = "running" /\ Waits(r) => Waits(r)'
           /\ \A y \in Handlers \ {x} : \A p : Holds(y, p)' => Holds(y, p)
           /\ Workers' /\ InOrder' /\ Bindings' /\ Counted'
           /\ \A t \in Tasks : Verified(t) => Verified(t)'
           /\ \A p \in Plans : (Ready(p) => Ready(p)') /\ (AllDone(p) => AllDone(p)')
           /\ \A y \in Handlers \ {x} : Mine(y)' = Mine(y)
<1>1. \A r \in Runs : At(Ended(r), "idle") => At(Ended(r), "idle")'
  BY HandlerFacts DEF At
<1>2. \A r \in Runs : Waits(r)' => Waits(r)
  BY HandlerFacts DEF At, Waits
<1>3. \A r \in Runs : run[r] = "running" /\ Waits(r) => Waits(r)'
  BY DEF Waits
<1>4. \A y \in Handlers \ {x} : \A p : Holds(y, p)' => Holds(y, p)
  BY <1>2 DEF Holds
<1>5. \A y \in Handlers \ {x} : Mine(y)' = Mine(y)
  BY DEF Mine
<1>6. Workers'
  BY <1>1, <1>3 DEF Pipe, Workers
<1>7. \A t \in Tasks : Verified(t)' = Verified(t)
  BY DEF Verified
<1>8. InOrder'
  BY <1>7 DEF Pipe, InOrder
<1>9. Bindings'
  <2>1. ASSUME NEW t \in Tasks, task[t].status = "verifying", task[t].run \in Runs
        PROVE  Ended(task[t].run) \in Handlers \ {x}
    BY <2>1, HandlerFacts DEF Pipe, Bindings, Binds, Starting
  <2> QED
    BY <1>5, <2>1 DEF Pipe, Bindings, Binds
<1>10. Counted'
  <2>1. ASSUME NEW t \in Tasks PROVE Recording(t)' = Recording(t)
    BY <1>5 DEF Recording
  <2> QED
    BY <2>1 DEF Pipe, Counted, CountedFor, WorkersFor
<1> QED
  BY <1>1, <1>2, <1>3, <1>4, <1>5, <1>6, <1>7, <1>8, <1>9, <1>10 DEF Ready, AllDone

\* A step by which x lets its plan go, or that is about no plan.
LEMMA LetsGo ==
    ASSUME OrchestratorAssumption, IInv, IInv', Pipe, NEW x \in Handlers,
           \A y \in Handlers \ {x} : handler'[y] = handler[y],
           UNCHANGED <<task, run, work>>,
           x = Sweeper \/ ~At(x, "idle"),
           handler[x].at \notin Starting \cup {"judge"},
           handler'[x].at \notin Acting \cup {"fired"},
           handler'[x].at \in HookPlaces => x \in Hooks,
           x # Sweeper => handler'[x].at = "insert" \/ handler'[x].todo = {},
           handler'[x].at = "count" => handler'[x].plan \in Plans,
           handler'[x].at = "finalize" =>
               handler'[x].plan \in Plans /\ AllDone(handler'[x].plan),
           PlansSound'
    PROVE  Pipe'
<1>0. Starting \cup {"judge"} \subseteq Acting /\ {"idle", "fired", "count", "finalize"} \cap Acting = {}
  BY DEF Acting, Starting
<1>1. /\ Workers' /\ InOrder' /\ Bindings' /\ Counted'
      /\ \A y \in Handlers \ {x} : \A p : Holds(y, p)' => Holds(y, p)
      /\ \A r \in Runs : Waits(r)' => Waits(r)
      /\ \A t \in Tasks : Verified(t) => Verified(t)'
      /\ \A p \in Plans : (Ready(p) => Ready(p)') /\ (AllDone(p) => AllDone(p)')
      /\ \A y \in Handlers \ {x} : Mine(y)' = Mine(y)
  BY <1>0, Frame
<1>2. \A p : Holds(x, p)' => Holds(x, p)
  BY <1>0, <1>1 DEF Holds
<1>3. OneHand'
  BY <1>1, <1>2 DEF Pipe, OneHand
<1>4. LeftAlone'
  BY HandlerFacts DEF Pipe, LeftAlone, At
<1>5. Dispatching'
  <2>1. ASSUME NEW y \in Handlers \ {x}
        PROVE  /\ handler'[y] = handler[y] /\ Mine(y)' = Mine(y)
               /\ Mine(y) \in Tasks => (Verified(Mine(y)) => Verified(Mine(y))')
               /\ handler[y].plan \in Plans =>
                    /\ Ready(handler[y].plan) => Ready(handler[y].plan)'
                    /\ AllDone(handler[y].plan) => AllDone(handler[y].plan)'
    BY <1>1 DEF Verified, Ready, AllDone
  <2>2. ASSUME NEW y \in Handlers \ {x}
        PROVE  /\ handler'[y].at \in Acting \cup {"count", "finalize"} => handler'[y].plan \in Plans
               /\ handler'[y].at \in {"next", "load", "start", "record"} => Ready(handler[y].plan)'
               /\ handler'[y].at \in {"load", "start", "record"} =>
                    Mine(y)' \in Tasks /\ task[Mine(y)'].status = "pending" /\ Verified(Mine(y))'
               /\ handler'[y].at \in Starting =>
                    /\ handler'[y].run \in Runs /\ run[handler'[y].run] # "none"
                    /\ work[handler'[y].run] = Mine(y)' /\ task[Mine(y)'].run # handler'[y].run
               /\ handler'[y].at = "finalize" => AllDone(handler[y].plan)'
    <3>1. /\ handler[y].at \in {"next", "load", "start", "record", "finalize"}
                => handler[y].at \in Acting \cup {"count", "finalize"}
      BY DEF Acting
    <3> QED
      BY <2>1, <3>1 DEF Pipe, Dispatching, Dispatches, At
  <2>3. \A y \in Handlers \ {x} : handler'[y].plan = handler[y].plan
    OBVIOUS
  <2>4. /\ handler'[x].at \notin {"next", "load", "start", "record"} \cup Starting \cup Acting
        /\ handler'[x].at = "finalize" => AllDone(handler[x].plan)'
    BY <1>0 DEF AllDone, Acting
  <2> HIDE DEF Acting, Starting
  <2> QED
    BY <1>0, <2>2, <2>3, <2>4 DEF Dispatching, Dispatches, At
<1>6. Judging'
  <2>1. {"loaded", "mark", "judge", "rebind", "skip"} \subseteq Acting
    BY DEF Acting
  <2>2. ASSUME NEW r \in Runs, Ended(r) # x
        PROVE  handler'[Ended(r)] = handler[Ended(r)] /\ Mine(Ended(r))' = Mine(Ended(r))
    BY <1>1, <2>2, HandlerFacts
  <2> QED
    BY <2>1, <2>2 DEF Pipe, Judging, Judges, At
<1> QED
  BY <1>1, <1>3, <1>4, <1>5, <1>6 DEF Pipe

\* A step that moves x, and plans only into or out of the user's sight.
LEMMA PlansStep ==
    ASSUME OrchestratorAssumption, IInv, Pipe, NEW x \in Handlers,
           \A y \in Handlers \ {x} : handler'[y] = handler[y],
           UNCHANGED <<task, run, work>>,
           \A p \in Plans : \/ plan'[p] = plan[p]
                            \/ plan[p] = "none" /\ plan'[p] = "proposed"
                            \/ plan[p] \in LivePlan /\ plan'[p] = "abandoned"
                            \/ plan[p] = "executing" /\ plan'[p] = "done" /\ AllDone(p),
           handler'[x].at \in Acting => plan[handler'[x].plan] \notin {"none", "proposed"},
           handler'[x].at = "insert" \/ \A p \in handler'[x].todo : plan'[p] \in {"proposed", "abandoned"}
    PROVE  PlansSound'
<1>1. ASSUME NEW p \in Plans, plan'[p] \in {"none", "proposed"}
      PROVE  /\ \A s \in 1..NumSteps : task'[<<p, s>>].status = "pending"
             /\ \A y \in Handlers : handler'[y].at \in Acting => handler'[y].plan # p
             /\ \A r \in Runs : work'[r][1] # p
  <2>1. plan[p] \in {"none", "proposed"}
    BY <1>1
  <2> QED
    BY <2>1 DEF Pipe, PlansSound
<1>2. ASSUME NEW y \in Handlers, handler'[y].at # "insert", NEW p \in handler'[y].todo
      PROVE  plan'[p] \in {"proposed", "abandoned"}
  <2>1. CASE y = x
    BY <1>2, <2>1
  <2>2. CASE y # x
    <3>1. plan[p] \in {"proposed", "abandoned"} /\ p \in Plans
      BY <1>2, <2>2 DEF Pipe, PlansSound, At, IInv, TypeOK, HandlerLocals
    <3> QED
      BY <3>1 DEF LivePlan
  <2> QED
    BY <2>1, <2>2
<1>3. ASSUME NEW p \in Plans, plan'[p] = "done" PROVE AllDone(p)'
  BY <1>3 DEF Pipe, PlansSound, AllDone
<1> QED
  BY <1>1, <1>2, <1>3 DEF PlansSound, At

\* A handler comes back from dispatch with nothing in hand.
LEMMA Returned ==
    ASSUME OrchestratorAssumption, IInv, NEW x \in Handlers, Return(x)
    PROVE  /\ \A y \in Handlers \ {x} : handler'[y] = handler[y]
           /\ handler'[x].at \in {"count", "each", "idle"}
           /\ handler'[x].at = "count" => x \in Hooks /\ handler'[x].plan = handler[x].plan
           /\ handler'[x].todo \subseteq handler[x].todo
<1>1. {"count", "each", "idle"} \subseteq Places
  BY DEF Places
<1>2. CASE x \in Hooks
  BY <1>1, <1>2, GoOnStep DEF Return, IInv
<1>3. CASE x \notin Hooks /\ handler[x].todo # {}
  BY <1>1, <1>3, GoOnStep DEF Return, IInv
<1>4. CASE x \notin Hooks /\ handler[x].todo = {}
  BY <1>4 DEF Return, IInv, TypeOK, Ends, Idle
<1> QED
  BY <1>2, <1>3, <1>4

LEMMA ReturnLetsGo ==
    ASSUME OrchestratorAssumption, IInv, IInv', Pipe, NEW x \in Handlers,
           handler[x].at \in {"next", "load"}, Return(x),
           UNCHANGED <<plan, task, run, work>>
    PROVE  Pipe'
<1>1. /\ \A y \in Handlers \ {x} : handler'[y] = handler[y]
      /\ handler'[x].at \in {"count", "each", "idle"}
      /\ handler'[x].at = "count" => x \in Hooks /\ handler'[x].plan = handler[x].plan
      /\ handler'[x].todo \subseteq handler[x].todo
  BY Returned
<1>2. handler'[x].at \notin Acting \cup {"insert", "fired", "finalize"}
      /\ handler[x].at \in Acting /\ handler[x].at \notin Starting \cup {"judge", "idle", "insert"}
  BY <1>1 DEF Acting, Starting
<1>3. handler[x].plan \in Plans
  BY <1>2 DEF Pipe, Dispatching, Dispatches
<1>4. /\ \A p \in handler[x].todo : plan[p] \in {"proposed", "abandoned"}
      /\ x # Sweeper => handler[x].todo = {}
  BY <1>2 DEF Pipe, PlansSound, LeftAlone, At
<1>5. PlansSound'
  BY <1>1, <1>2, <1>4, PlansStep
<1>6. handler'[x].at \in HookPlaces => x \in Hooks
  BY <1>1 DEF HookPlaces
<1> QED
  BY <1>1, <1>2, <1>3, <1>4, <1>5, <1>6, LetsGo DEF At

\* From the recount on, the hook has nothing in hand.
LEMMA CloseLetsGo ==
    ASSUME OrchestratorAssumption, IInv, IInv', Pipe, NEW x \in Hooks,
           HookCounts(x) \/ HookFinalizes(x) \/ HookVerifiesGoal(x) \/ HookTallies(x)
    PROVE  Pipe'
<1>1. x \in Handlers /\ handler \in [Handlers -> HandlerLocals]
  BY HandlerFacts DEF IInv, TypeOK
<1>2. /\ handler[x].at \in {"count", "finalize", "goal", "tally"}
      /\ UNCHANGED <<task, run, work>>
  BY DEF HookCounts, HookFinalizes, HookVerifiesGoal, HookTallies, At
<1>3. handler[x].todo = {}
  BY <1>1, <1>2, HandlerFacts DEF Pipe, LeftAlone, At
<1>4. /\ \A y \in Handlers \ {x} : handler'[y] = handler[y]
      /\ handler'[x].at \in {"finalize", "goal", "tally", "decompose", "idle"}
      /\ handler'[x].todo = {}
      /\ handler'[x].at = "finalize" => At(x, "count") /\ handler'[x].plan = handler[x].plan
                                        /\ AllDone(handler[x].plan)
  <2> DEFINE l(place) == [Idle EXCEPT !.at = place, !.plan = handler[x].plan,
                                      !.todo = handler[x].todo]
  <2>1. \A place : /\ l(place).at = place /\ l(place).plan = handler[x].plan
                   /\ l(place).todo = handler[x].todo
    BY DEF Idle
  <2>2. \/ handler' = [handler EXCEPT ![x] = Idle]
        \/ handler' = [handler EXCEPT ![x] = [Idle EXCEPT !.at = "decompose"]]
        \/ \E place \in {"goal", "tally"} : handler' = [handler EXCEPT ![x] = l(place)]
        \/ /\ At(x, "count") /\ AllDone(handler[x].plan)
           /\ handler' = [handler EXCEPT ![x] = l("finalize")]
    BY DEF HookCounts, HookFinalizes, HookVerifiesGoal, HookTallies, GoOn, Ends, AllDone
  <2> HIDE DEF l
  <2>3. \A y \in Handlers \ {x} : handler'[y] = handler[y]
    BY <1>1, <2>2
  <2>4. CASE handler' = [handler EXCEPT ![x] = Idle]
    BY <1>1, <2>3, <2>4 DEF Idle
  <2>5. CASE handler' = [handler EXCEPT ![x] = [Idle EXCEPT !.at = "decompose"]]
    BY <1>1, <2>3, <2>5 DEF Idle
  <2>6. ASSUME NEW place \in {"goal", "tally", "finalize"},
               handler' = [handler EXCEPT ![x] = l(place)]
        PROVE  handler'[x].at = place /\ handler'[x].plan = handler[x].plan /\ handler'[x].todo = {}
    BY <1>1, <1>3, <2>1, <2>6
  <2> QED
    BY <2>2, <2>3, <2>4, <2>5, <2>6
<1>5. \A p \in Plans : \/ plan'[p] = plan[p]
                       \/ plan[p] = "executing" /\ plan'[p] = "done" /\ AllDone(p)
  <2>1. CASE UNCHANGED plan
    BY <2>1
  <2>2. CASE /\ At(x, "finalize") /\ plan[handler[x].plan] = "executing"
             /\ plan' = [plan EXCEPT ![handler[x].plan] = "done"]
    <3>1. handler[x].plan \in Plans /\ AllDone(handler[x].plan)
      BY <1>1, <2>2 DEF Pipe, Dispatching, Dispatches, At
    <3> QED
      BY <2>2, <3>1 DEF IInv, TypeOK
  <2> QED
    BY <2>1, <2>2 DEF HookCounts, HookFinalizes, HookVerifiesGoal, HookTallies
<1>6. handler'[x].at \notin Acting \cup {"insert", "fired", "count"}
      /\ handler[x].at \notin Starting \cup {"judge", "idle"}
  BY <1>2, <1>4 DEF Acting, Starting
<1>7. PlansSound'
  BY <1>1, <1>2, <1>4, <1>5, <1>6, PlansStep
<1>8. At(x, "count") => handler[x].plan \in Plans
  BY <1>1 DEF Pipe, Dispatching, Dispatches, At
<1> QED
  BY <1>1, <1>2, <1>4, <1>6, <1>7, <1>8, LetsGo DEF At

LEMMA DecomposeLetsGo ==
    ASSUME OrchestratorAssumption, IInv, IInv', Pipe, NEW x \in Handlers,
           DecomposeGoal(x) \/ InsertPlan(x)
    PROVE  Pipe'
<1>1. /\ handler[x].at \in {"decompose", "insert"} /\ handler \in [Handlers -> HandlerLocals]
      /\ UNCHANGED <<task, run, work>>
  BY DEF DecomposeGoal, InsertPlan, At, IInv, TypeOK
<1>2. /\ \A y \in Handlers \ {x} : handler'[y] = handler[y]
      /\ handler'[x].at \in {"collect", "idle", "insert"}
      /\ handler'[x].at = "insert" \/ handler'[x].todo = {}
  <2>1. CASE AfterDecompose(x)
    <3> DEFINE l == IF x = Sweeper THEN [Idle EXCEPT !.at = "collect"] ELSE Idle
    <3>1. l.at \in {"collect", "idle"} /\ l.todo = {}
      BY DEF Idle
    <3>2. handler' = [handler EXCEPT ![x] = l]
      BY <2>1 DEF AfterDecompose
    <3> QED
      BY <1>1, <3>1, <3>2
  <2>2. CASE handler' = [handler EXCEPT ![x].at = "insert",
                         ![x].todo = {p \in Plans : plan[p] \in LivePlan}]
    BY <1>1, <2>2 DEF HandlerLocals
  <2> QED
    BY <2>1, <2>2 DEF DecomposeGoal, InsertPlan
<1>3. \A p \in Plans : \/ plan'[p] = plan[p]
                       \/ plan[p] = "none" /\ plan'[p] = "proposed"
                       \/ plan[p] \in LivePlan /\ plan'[p] = "abandoned"
  BY DEF DecomposeGoal, InsertPlan
<1>4. handler'[x].at \notin Acting \cup HookPlaces
      /\ handler[x].at \notin Starting \cup {"judge", "idle"}
  BY <1>1, <1>2 DEF Acting, Starting, HookPlaces
<1>5. PlansSound'
  BY <1>1, <1>2, <1>3, <1>4, PlansStep
<1> QED
  BY <1>1, <1>2, <1>4, <1>5, LetsGo DEF At, HookPlaces

\* The sweep looks for goals to plan and plans to execute.
LEMMA SweepLetsGo ==
    ASSUME OrchestratorAssumption, IInv, IInv', Pipe, "sweep" \in Clients,
           SweepPlans \/ SweepCollects
    PROVE  Pipe'
<1>1. /\ Sweeper \in Handlers /\ Sweeper \notin Hooks
      /\ handler \in [Handlers -> HandlerLocals]
      /\ UNCHANGED <<plan, task, run, work>>
  BY DEF SweepPlans, SweepCollects, IInv, TypeOK, Handlers, Hooks, Sweeper, Runs,
         OrchestratorAssumption
<1>2. handler[Sweeper].at \in {"idle", "collect"}
  BY DEF SweepPlans, SweepCollects, At
<1>3. \A p \in handler[Sweeper].todo : plan[p] \in {"proposed", "abandoned"}
  BY <1>1, <1>2 DEF Pipe, PlansSound, At
<1>4. /\ \A y \in Handlers \ {Sweeper} : handler'[y] = handler[y]
      /\ handler'[Sweeper].at \in {"decompose", "each", "idle"}
      /\ \A p \in handler'[Sweeper].todo : plan[p] \in {"proposed", "abandoned"}
  <2>1. CASE SweepPlans
    BY <1>1, <1>3, <2>1 DEF SweepPlans, Goto, HandlerLocals
  <2>2. CASE SweepCollects
    BY <1>1, <2>2 DEF SweepCollects, Idle
  <2> QED
    BY <2>1, <2>2
<1>5. handler'[Sweeper].at \notin Acting \cup HookPlaces
      /\ handler[Sweeper].at \notin Starting \cup {"judge"}
  BY <1>2, <1>4 DEF Acting, Starting, HookPlaces
<1>6. PlansSound'
  BY <1>1, <1>4, <1>5, PlansStep
<1> QED
  BY <1>1, <1>4, <1>5, <1>6, LetsGo DEF HookPlaces

\* A step of x along the pipeline it has in hand, that only reads.
LEMMA Advances ==
    ASSUME OrchestratorAssumption, IInv, IInv', Pipe, NEW x \in Handlers,
           \A y \in Handlers \ {x} : handler'[y] = handler[y],
           UNCHANGED <<plan, task, run, work>>,
           handler[x].at \in {"next", "load", "fired", "loaded"},
           handler'[x].at \in {"load", "start", "loaded", "mark"},
           handler'[x].plan \in Plans, Holds(x, handler'[x].plan),
           handler'[x].todo = handler[x].todo,
           NEW t \in Tasks, Mine(x)' = t,
           handler'[x].at \in {"load", "start"} =>
               Ready(t[1]) /\ task[t].status = "pending" /\ Verified(t),
           handler'[x].at \in {"loaded", "mark"} =>
               /\ x \in Hooks /\ task[t].run = x[1] /\ task[t].status = "running"
               /\ handler'[x].attempt = task[t].attempt,
           handler'[x].at = "mark" => handler'[x].seen = run[x[1]]
    PROVE  Pipe'
<1>0. /\ handler[x].at \notin Starting \cup {"judge", "idle", "insert"}
      /\ handler'[x].at \notin Starting \cup {"fired", "judge", "rebind", "skip", "idle", "insert", "finalize"}
      /\ handler'[x].at \in Acting
  BY DEF Starting, Acting
<1>1. /\ Workers' /\ InOrder' /\ Bindings' /\ Counted'
      /\ \A y \in Handlers \ {x} : \A p : Holds(y, p)' => Holds(y, p)
      /\ \A r \in Runs : Waits(r)' => Waits(r)
      /\ \A u \in Tasks : Verified(u) => Verified(u)'
      /\ \A p \in Plans : (Ready(p) => Ready(p)') /\ (AllDone(p) => AllDone(p)')
      /\ \A y \in Handlers \ {x} : Mine(y)' = Mine(y)
  BY <1>0, Frame DEF At
<1>2. handler'[x].plan = t[1]
  BY HandlerFacts DEF Mine
<1>3. OneHand'
  <2>1. \A p \in Plans : Holds(x, p)' => Holds(x, p)
    <3>1. \A r \in Runs : x = Ended(r) => ~Waits(r)' \/ Waits(r)
      BY <1>1
    <3> QED
      BY <3>1 DEF Holds
  <2> QED
    BY <1>1, <2>1 DEF Pipe, OneHand
<1>4. LeftAlone'
  <2>1. handler'[x].at \in HookPlaces => x \in Hooks
    BY DEF HookPlaces
  <2>2. x # Sweeper => handler'[x].todo = {}
    BY <1>0 DEF Pipe, LeftAlone, At
  <2> QED
    BY <1>0, <2>1, <2>2, HandlerFacts DEF Pipe, LeftAlone, At
<1>5. PlansSound'
  <2>1. plan[handler'[x].plan] \notin {"none", "proposed"}
    BY DEF Holds, Pipe, PlansSound
  <2>2. \A p \in handler[x].todo : plan[p] \in {"proposed", "abandoned"}
    BY <1>0 DEF Pipe, PlansSound, At
  <2> QED
    BY <1>0, <2>1, <2>2, PlansStep
<1>6. Dispatching'
  <2>1. ASSUME NEW y \in Handlers \ {x}
        PROVE  /\ handler'[y] = handler[y] /\ Mine(y)' = Mine(y)
               /\ Mine(y) \in Tasks => (Verified(Mine(y)) => Verified(Mine(y))')
               /\ handler[y].plan \in Plans =>
                    /\ Ready(handler[y].plan) => Ready(handler[y].plan)'
                    /\ AllDone(handler[y].plan) => AllDone(handler[y].plan)'
    BY <1>1 DEF Verified, Ready, AllDone
  <2>2. ASSUME NEW y \in Handlers \ {x}
        PROVE  /\ handler'[y].at \in Acting \cup {"count", "finalize"} => handler'[y].plan \in Plans
               /\ handler'[y].at \in {"next", "load", "start", "record"} => Ready(handler[y].plan)'
               /\ handler'[y].at \in {"load", "start", "record"} =>
                    Mine(y)' \in Tasks /\ task[Mine(y)'].status = "pending" /\ Verified(Mine(y))'
               /\ handler'[y].at \in Starting =>
                    /\ handler'[y].run \in Runs /\ run[handler'[y].run] # "none"
                    /\ work[handler'[y].run] = Mine(y)' /\ task[Mine(y)'].run # handler'[y].run
               /\ handler'[y].at = "finalize" => AllDone(handler[y].plan)'
    <3>1. /\ handler[y].at \in {"next", "load", "start", "record", "finalize"}
                => handler[y].at \in Acting \cup {"count", "finalize"}
      BY DEF Acting
    <3> QED
      BY <2>1, <3>1 DEF Pipe, Dispatching, Dispatches, At
  <2>3. handler'[x].at \in {"next", "load", "start", "record"} =>
            Ready(handler[x].plan)' /\ task[Mine(x)'].status = "pending" /\ Verified(Mine(x))'
    <3>1. CASE handler'[x].at \in {"load", "start"}
      <4>1. Ready(t[1])' /\ Verified(t)'
        BY <1>1, <3>1, HandlerFacts
      <4> QED
        BY <1>2, <3>1, <4>1 DEF Ready, Verified
    <3> QED
      BY <3>1
  <2> HIDE DEF Acting, Starting
  <2> QED
    BY <1>0, <2>2, <2>3 DEF Dispatching, Dispatches, At
<1>7. Judging'
  <2>1. ASSUME NEW r \in Runs, Ended(r) # x
        PROVE  handler'[Ended(r)] = handler[Ended(r)] /\ Mine(Ended(r))' = Mine(Ended(r))
    BY <1>1, <2>1, HandlerFacts
  <2>2. ASSUME NEW r \in Runs, Ended(r) = x PROVE x[1] = r
    BY <2>2, HandlerFacts
  <2> QED
    BY <1>0, <2>1, <2>2 DEF Pipe, Judging, Judges, At
<1> QED
  BY <1>1, <1>3, <1>4, <1>5, <1>6, <1>7 DEF Pipe

LEMMA DispatchReads ==
    ASSUME OrchestratorAssumption, IInv, IInv', Pipe, NEW x \in Handlers,
           NextPending(x) \/ LoadTask(x)
    PROVE  Pipe'
<1>1. /\ handler[x].at \in {"next", "load"} /\ UNCHANGED <<plan, task, run, work>>
      /\ handler \in [Handlers -> HandlerLocals]
  BY DEF NextPending, LoadTask, At, IInv, TypeOK
<1>2. handler[x].plan \in Plans /\ Ready(handler[x].plan) /\ Holds(x, handler[x].plan)
  BY <1>1 DEF Pipe, Dispatching, Dispatches, Acting, Holds
<1>3. CASE Return(x)
  BY <1>1, <1>3, ReturnLetsGo
<1>4. CASE NextPending(x) /\ ~Return(x)
  <2> DEFINE p == handler[x].plan
             s == Min(Pending(p))
  <2>1. /\ Pending(p) # {}
        /\ handler' = [handler EXCEPT ![x].at = "load", ![x].step = s]
    BY <1>4 DEF NextPending
  <2>2. s \in Pending(p) /\ \A k \in Pending(p) : s =< k
    <3>1. Pending(p) \subseteq Nat
      BY DEF Pending
    <3> QED
      BY <2>1, <3>1, MinIsIn
  <2> HIDE DEF s
  <2>3. /\ \A y \in Handlers \ {x} : handler'[y] = handler[y]
        /\ handler'[x].at = "load" /\ handler'[x].plan = p /\ handler'[x].step = s
        /\ handler'[x].todo = handler[x].todo
    BY <1>1, <2>1 DEF HandlerLocals
  <2>4. /\ s \in 1..NumSteps /\ task[<<p, s>>].status = "pending"
        /\ \A k \in 1..(s - 1) : k \in 1..NumSteps /\ k \notin Pending(p)
    BY <2>2 DEF Pending, OrchestratorAssumption
  <2>5. Verified(<<p, s>>)
    BY <1>2, <2>4 DEF Verified, Ready, Pending
  <2> HIDE DEF p
  <2>6. <<p, s>> \in Tasks /\ Mine(x)' = <<p, s>> /\ <<p, s>>[1] = p
    BY <1>2, <2>3, <2>4 DEF Tasks, Mine, p
  <2> QED
    BY <1>1, <1>2, <2>3, <2>4, <2>5, <2>6, Advances DEF p
<1>5. CASE LoadTask(x) /\ ~Return(x)
  <2>1. At(x, "load") /\ Goto(x, "start")
    BY <1>5 DEF LoadTask
  <2>2. /\ \A y \in Handlers \ {x} : handler'[y] = handler[y]
        /\ handler'[x].at = "start" /\ handler'[x].plan = handler[x].plan
        /\ handler'[x].step = handler[x].step /\ handler'[x].todo = handler[x].todo
    BY <1>1, <2>1 DEF Goto, HandlerLocals
  <2>3. Mine(x)' = Mine(x) /\ Mine(x)[1] = handler[x].plan
    BY <2>2 DEF Mine
  <2>4. Mine(x) \in Tasks /\ task[Mine(x)].status = "pending" /\ Verified(Mine(x))
    BY <2>1 DEF Pipe, Dispatching, Dispatches, At
  <2> DEFINE t == Mine(x)
  <2>5. t \in Tasks /\ Mine(x)' = t /\ task[t].status = "pending" /\ Verified(t) /\ Ready(t[1])
    BY <1>2, <2>3, <2>4
  <2> HIDE DEF t
  <2> QED
    BY <1>1, <1>2, <2>2, <2>5, Advances
<1> QED
  BY <1>3, <1>4, <1>5

LEMMA HookReadsOn ==
    ASSUME OrchestratorAssumption, IInv, IInv', Pipe, NEW x \in Hooks,
           HookLoads(x) \/ HookReadsRun(x)
    PROVE  Pipe'
<1>1. /\ x \in Handlers /\ x # Sweeper /\ x[1] \in Runs
      /\ handler \in [Handlers -> HandlerLocals]
      /\ handler[x].at \in {"fired", "loaded"} /\ UNCHANGED <<plan, task, run, work>>
  <2>1. x \in Handlers /\ x # Sweeper /\ x[1] \in Runs
    BY HandlerFacts
  <2>2. handler[x].at \in {"fired", "loaded"} /\ UNCHANGED <<plan, task, run, work>>
    BY DEF HookLoads, HookReadsRun, At
  <2> QED
    BY <2>1, <2>2 DEF IInv, TypeOK
<1>2. x = Ended(x[1]) /\ run[x[1]] \notin {"none", "running"} /\ handler[x].todo = {}
  <2>1. x[2] = "ended" /\ handler[x].todo = {}
    BY <1>1 DEF Pipe, LeftAlone, At
  <2>2. x = Ended(x[1])
    BY <2>1, HandlerFacts
  <2>3. run[x[1]] \notin {"none", "running"}
    BY <1>1, <2>2 DEF Pipe, Workers, At
  <2> QED
    BY <2>1, <2>2, <2>3
<1>3. CASE Ends(x)
  <2>1. \A y \in Handlers \ {x} : handler'[y] = handler[y]
    BY <1>3 DEF Ends, IInv, TypeOK
  <2>2. handler'[x].at = "idle" /\ handler'[x].todo = {}
    BY <1>1, <1>3 DEF Ends, Idle
  <2>3. /\ handler'[x].at \notin Acting \cup HookPlaces
        /\ handler[x].at \notin Starting \cup {"judge", "idle"}
    BY <1>1, <2>2 DEF Acting, Starting, HookPlaces
  <2>4. PlansSound'
    BY <1>1, <2>1, <2>2, <2>3, PlansStep
  <2> QED
    BY <1>1, <2>1, <2>2, <2>3, <2>4, LetsGo DEF At, HookPlaces
<1>4. CASE HookLoads(x) /\ ~Ends(x)
  <2>1. PICK t \in Tasks : task[t].run = x[1] /\ task[t].status \notin Terminal
    BY <1>4 DEF HookLoads
  <2>2. PICK u \in Tasks :
          /\ task[u].run = x[1]
          /\ handler' = [handler EXCEPT ![x].at = "loaded", ![x].plan = u[1],
                                        ![x].step = u[2], ![x].attempt = task[u].attempt]
    BY <1>4 DEF HookLoads
  <2>3. At(x, "fired")
    BY <1>4 DEF HookLoads
  <2>4. x[1] # 0 /\ task[t].status \in TaskStates /\ task[u].status \in TaskStates
    BY <1>1, HandlerFacts DEF IInv, TypeOK, TaskRows
  <2>5. work[x[1]] = t /\ work[x[1]] = u /\ task[t].status \in {"running", "verifying"}
    BY <2>1, <2>2, <2>4 DEF Pipe, Bindings, Binds, Terminal, TaskStates
  <2>6. task[t].status = "running"
    BY <1>2, <2>1, <2>3, <2>5 DEF Pipe, Bindings, Binds, At
  <2>7. t[1] \in Plans /\ t = <<t[1], t[2]>>
    BY HandlerFacts
  <2>8. /\ \A y \in Handlers \ {x} : handler'[y] = handler[y]
        /\ handler'[x].at = "loaded" /\ handler'[x].plan = t[1]
        /\ handler'[x].step = t[2] /\ handler'[x].todo = handler[x].todo
        /\ handler'[x].attempt = task[t].attempt
    BY <1>1, <2>2, <2>5 DEF HandlerLocals
  <2>9. Mine(x)' = t
    BY <2>7, <2>8 DEF Mine
  <2>10. Holds(x, t[1])
    BY <1>1, <1>2, <2>1, <2>3, <2>5, <2>6 DEF Holds, Waits
  <2> QED
    BY <1>1, <2>1, <2>6, <2>7, <2>8, <2>9, <2>10, Advances
<1>5. CASE HookReadsRun(x) /\ ~Ends(x)
  <2>1. /\ At(x, "loaded")
        /\ handler' = [handler EXCEPT ![x].at = "mark", ![x].seen = run[x[1]]]
    BY <1>5 DEF HookReadsRun
  <2>2. /\ \A y \in Handlers \ {x} : handler'[y] = handler[y]
        /\ handler'[x].at = "mark" /\ handler'[x].plan = handler[x].plan
        /\ handler'[x].step = handler[x].step /\ handler'[x].todo = handler[x].todo
        /\ handler'[x].attempt = handler[x].attempt /\ handler'[x].seen = run[x[1]]
    BY <1>1, <2>1 DEF HandlerLocals
  <2>3. Mine(x)' = Mine(x) /\ handler[x].plan \in Plans /\ Holds(x, handler[x].plan)
    BY <1>1, <2>1, <2>2 DEF Mine, Pipe, Dispatching, Dispatches, Holds, Acting, At
  <2>4. /\ Mine(x) \in Tasks /\ task[Mine(x)].run = x[1] /\ task[Mine(x)].status = "running"
        /\ handler[x].attempt = task[Mine(x)].attempt
    BY <1>1, <1>2, <2>1 DEF Pipe, Judging, Judges, At
  <2> DEFINE t == Mine(x)
  <2>5. /\ t \in Tasks /\ Mine(x)' = t /\ task[t].run = x[1] /\ task[t].status = "running"
        /\ handler[x].attempt = task[t].attempt
    BY <2>3, <2>4
  <2> HIDE DEF t
  <2> QED
    BY <1>1, <2>2, <2>3, <2>5, Advances
<1> QED
  BY <1>3, <1>4, <1>5

-----------------------------------------------------------------------------
(* Workers start and end.                                                  *)

\* What a handler that does not move still knows after a step.
LEMMA DispatchesKept ==
    ASSUME NEW y, NEW p, p = handler[y].plan, NEW t, t = Mine(y), NEW r, r = handler[y].run,
           Dispatches(y), handler'[y] = handler[y],
           handler[y].at \in {"next", "load", "start", "record"} => Ready(p)',
           handler[y].at \in {"load", "start", "record"} => Verified(t)',
           handler[y].at \in {"load", "start"} \cup Starting => task'[t] = task[t],
           handler[y].at \in Starting => run'[r] # "none" /\ work'[r] = work[r],
           handler[y].at = "finalize" => AllDone(p)'
    PROVE  Dispatches(y)'
<1>1. Mine(y)' = t /\ handler'[y].plan = p
  BY DEF Mine
<1>2. Starting = {"record", "rebind"}
  BY DEF Starting
<1>3. handler[y].at \in {"next", "load", "start", "record"} => Ready(handler[y].plan)'
  BY <1>1 DEF Ready
<1>4. handler[y].at \in {"load", "start", "record"} => Verified(Mine(y))'
  BY <1>1 DEF Verified
<1>5. handler[y].at = "finalize" => AllDone(handler[y].plan)'
  BY <1>1 DEF AllDone
<1> QED
  BY <1>1, <1>2, <1>3, <1>4, <1>5 DEF Dispatches, At

LEMMA JudgesKept ==
    ASSUME NEW r, NEW t, t = Mine(Ended(r)),
           Judges(r), handler'[Ended(r)] = handler[Ended(r)],
           handler[Ended(r)].at \in {"loaded", "mark", "judge", "rebind"} => task'[t] = task[t],
           handler[Ended(r)].at \in {"mark", "judge"} => run'[r] = run[r],
           handler[Ended(r)].at = "skip" =>
               \A s \in 1..NumSteps :
                   LET u == <<handler[Ended(r)].plan, s>> IN
                   task[u].status = "failed" => task'[u].status = "failed"
    PROVE  Judges(r)'
<1>1. Mine(Ended(r))' = t
  BY DEF Mine
<1> QED
  BY <1>1 DEF Judges, At

\* A new worker: the handler that started it has the pipeline, and records it next.
LEMMA StartsPipe ==
    ASSUME OrchestratorAssumption, IInv, IInv', Pipe, NEW x \in Handlers,
           StartWorker(x) \/ (x \in Hooks /\ HookRetries(x))
    PROVE  Pipe'
<1>1. PICK place \in Starting, r \in Runs :
        /\ run[r] = "none" /\ run' = [run EXCEPT ![r] = "running"]
        /\ work' = [work EXCEPT ![r] = Mine(x)]
        /\ handler' = [handler EXCEPT ![x].at = place, ![x].run = r]
        /\ \/ At(x, "start") /\ place = "record"
           \/ At(x, "judge") /\ place = "rebind" /\ x \in Hooks /\ handler[x].attempt < MaxAttempts
        /\ UNCHANGED <<plan, task>>
  BY DEF StartWorker, HookRetries, Starts, Starting
<1>2. /\ handler \in [Handlers -> HandlerLocals] /\ run \in [Runs -> RunStates]
      /\ work \in [Runs -> (0..NumPlans) \X (0..NumSteps)] /\ task \in [Tasks -> TaskRows]
  BY DEF IInv, TypeOK
<1>3. /\ \A y \in Handlers \ {x} : handler'[y] = handler[y]
      /\ handler'[x].at = place /\ handler'[x].run = r /\ handler'[x].plan = handler[x].plan
      /\ handler'[x].step = handler[x].step /\ handler'[x].todo = handler[x].todo
      /\ handler'[x].attempt = handler[x].attempt
  BY <1>1, <1>2 DEF HandlerLocals
<1>4. /\ \A q \in Runs \ {r} : run'[q] = run[q] /\ work'[q] = work[q]
      /\ run'[r] = "running" /\ work'[r] = Mine(x)
  BY <1>1, <1>2
<1>5. /\ handler[x].at \in {"start", "judge"} /\ handler[x].at \in Acting
      /\ handler[x].at \notin Starting /\ place \in {"record", "rebind"} /\ place \in Acting
  BY <1>1 DEF At, Acting, Starting
<1>6. work[r] = <<0, 0>> /\ At(Ended(r), "idle") /\ Ended(r) # x
  BY <1>1, <1>5 DEF Pipe, Workers, At
<1>7. \A y \in Handlers : Mine(y)' = Mine(y)
  BY <1>3 DEF Mine
<1>8. \A t \in Tasks : task[t].status \in {"running", "verifying", "completed", "failed"} =>
          task[t].run # r /\ work'[task[t].run] = t /\ run'[task[t].run] = run[task[t].run]
  <2>1. ASSUME NEW t \in Tasks,
               task[t].status \in {"running", "verifying", "completed", "failed"}
        PROVE  task[t].run \in Runs /\ task[t].run # r /\ work[task[t].run] = t
    BY <1>6, <2>1, HandlerFacts DEF Pipe, Bindings, Binds
  <2> QED
    BY <1>4, <2>1
<1>9. x \in Hooks => x = Ended(x[1]) /\ x[1] \in Runs /\ x[1] # r
  BY <1>5, <1>6, HandlerFacts DEF Pipe, LeftAlone, At
<1>10. /\ Mine(x) \in Tasks /\ Verified(Mine(x)) /\ task[Mine(x)].run # r
       /\ At(x, "start") => task[Mine(x)].status = "pending" /\ Ready(handler[x].plan)
       /\ At(x, "judge") => task[Mine(x)].status = "verifying"
  <2>1. CASE At(x, "start")
    BY <2>1, HandlerFacts DEF Pipe, Dispatching, Dispatches, Bindings, Binds, At
  <2>2. CASE At(x, "judge")
    <3>1. Mine(x) \in Tasks /\ task[Mine(x)].status = "verifying"
      BY <1>1, <1>9, <2>2 DEF Pipe, Judging, Judges, At
    <3> QED
      BY <1>8, <2>2, <3>1 DEF Pipe, InOrder, At
  <2> QED
    BY <1>5, <2>1, <2>2 DEF At
<1>11. \A t : Verified(t)' = Verified(t)
  BY <1>1 DEF Verified
<1>12. \A q \in Runs : /\ Waits(q)' => Waits(q)
                       /\ q # r => Waits(q)' = Waits(q)
  <2>1. ~Waits(r)'
    <3>1. work'[r] = Mine(x) /\ task' = task
      BY <1>1, <1>4
    <3> QED
      BY <1>10, <3>1 DEF Waits
  <2>2. ASSUME NEW q \in Runs, q # r PROVE Waits(q)' = Waits(q)
    <3>1. At(Ended(q), "fired")' = At(Ended(q), "fired")
      BY <1>3, <1>5, HandlerFacts DEF At
    <3>2. run'[q] = run[q] /\ work'[q] = work[q] /\ task' = task
      BY <1>1, <1>4, <2>2
    <3> QED
      BY <3>1, <3>2 DEF Waits
  <2> QED
    BY <2>1, <2>2
<1>13. OneHand'
  <2>1. ASSUME NEW p \in Plans, NEW y \in Handlers, Holds(y, p)' PROVE Holds(y, p)
    <3>1. CASE handler'[y].at \in Acting /\ handler'[y].plan = p
      BY <1>3, <1>5, <3>1 DEF Holds
    <3>2. ASSUME NEW q \in Runs, y = Ended(q), work'[q][1] = p, Waits(q)' PROVE Holds(y, p)
      <4>1. q # r /\ Waits(q)
        <5>1. ~Waits(r)'
          <6>1. work'[r] = Mine(x) /\ task' = task
            BY <1>1, <1>4
          <6> QED
            BY <1>10, <6>1 DEF Waits
        <5> QED
          BY <1>12, <3>2, <5>1
      <4> QED
        BY <1>4, <3>2, <4>1 DEF Holds
    <3> QED
      BY <2>1, <3>1, <3>2 DEF Holds
  <2> QED
    BY <2>1 DEF Pipe, OneHand
<1>14. LeftAlone'
  <2>1. place \in HookPlaces => x \in Hooks
    BY <1>1 DEF HookPlaces
  <2>2. \A q \in Runs : run'[q] \in {"none", "running", "completed", "failed"}
    BY <1>4 DEF Pipe, LeftAlone
  <2>3. x # Sweeper => handler[x].todo = {}
    BY <1>5 DEF Pipe, LeftAlone, At
  <2>4. x = Sweeper \/ x[2] = "ended"
    BY <1>5 DEF Pipe, LeftAlone, At
  <2> QED
    BY <1>3, <2>1, <2>2, <2>3, <2>4 DEF Pipe, LeftAlone, At
<1>15. Workers'
  <2>1. ASSUME NEW q \in Runs, run'[q] \in {"none", "running"} PROVE At(Ended(q), "idle")'
    <3>1. At(Ended(q), "idle")
      BY <1>4, <1>6, <2>1 DEF Pipe, Workers
    <3>2. Ended(q) \in Handlers \ {x}
      BY <1>5, <3>1, HandlerFacts DEF At
    <3> QED
      BY <1>3, <3>1, <3>2 DEF At
  <2>2. ASSUME NEW q \in Runs, run'[q] = "running"
        PROVE  Waits(q)' \/ \E y \in Handlers : handler'[y].at \in Starting /\ handler'[y].run = q
    <3>1. CASE q = r
      BY <1>3, <3>1
    <3>2. CASE q # r
      <4>1. Waits(q) \/ \E y \in Handlers \ {x} : handler[y].at \in Starting /\ handler[y].run = q
        BY <1>4, <1>5, <2>2, <3>2 DEF Pipe, Workers
      <4> QED
        BY <1>3, <1>12, <3>2, <4>1
    <3> QED
      BY <3>1, <3>2
  <2>3. \A q \in Runs : run'[q] = "none" => work'[q] = <<0, 0>>
    BY <1>4 DEF Pipe, Workers
  <2> QED
    BY <2>1, <2>2, <2>3 DEF Workers
<1>16. InOrder'
  <2>1. \A q \in Runs : run'[q] # "none" => work'[q] \in Tasks /\ Verified(work'[q])
    BY <1>4, <1>10 DEF Pipe, InOrder
  <2> QED
    BY <1>1, <1>11, <2>1 DEF Pipe, InOrder
<1>22. PICK t : t = Mine(x)
  OBVIOUS
<1>17. Bindings'
  <2>1. ASSUME NEW u \in Tasks, task[u].status = "verifying"
        PROVE  handler'[Ended(task[u].run)].at \in {"judge", "rebind"} /\ Mine(Ended(task[u].run))' = u
    <3>1. /\ task[u].run \in Runs /\ Mine(Ended(task[u].run)) = u
          /\ handler[Ended(task[u].run)].at \in {"judge", "rebind"}
      BY <2>1 DEF Pipe, Bindings, Binds
    <3>2. PICK y \in Handlers : y = Ended(task[u].run)
      BY <3>1, HandlerFacts
    <3>3. Mine(y)' = u /\ handler[y].at \in {"judge", "rebind"}
      BY <1>7, <3>1, <3>2
    <3>4. y = x => handler'[y].at = "rebind"
      BY <1>1, <1>3, <3>3 DEF At
    <3>5. y # x => handler'[y].at = handler[y].at
      BY <1>3
    <3>6. handler'[y].at \in {"judge", "rebind"}
      BY <3>3, <3>4, <3>5
    <3> QED
      BY <1>1, <3>2, <3>3, <3>6
  <2>2. task' = task
    BY <1>1
  <2>3. ASSUME NEW u \in Tasks PROVE Binds(u)'
    BY <1>8, <2>1, <2>2 DEF Pipe, Bindings, Binds
  <2> QED
    BY <2>3 DEF Bindings
<1>18. Dispatching'
  <2>1. ASSUME NEW y \in Handlers \ {x} PROVE Dispatches(y)'
    <3>1. /\ Dispatches(y) /\ handler'[y] = handler[y] /\ task' = task
          /\ \A p : Ready(p)' = Ready(p) /\ AllDone(p)' = AllDone(p)
      BY <1>1, <1>3 DEF Pipe, Dispatching, Ready, AllDone
    <3>2. handler[y].at \in Starting => handler[y].run \in Runs /\ run[handler[y].run] # "none"
      BY <3>1 DEF Dispatches
    <3>3. PICK p, u, q : p = handler[y].plan /\ u = Mine(y) /\ q = handler[y].run
      OBVIOUS
    <3>4. /\ handler[y].at \in {"next", "load", "start", "record"} => Ready(p)'
          /\ handler[y].at = "finalize" => AllDone(p)'
          /\ handler[y].at \in {"load", "start", "record"} => Verified(u)'
          /\ handler[y].at \in Starting => run'[q] # "none" /\ work'[q] = work[q]
      BY <1>1, <1>4, <1>11, <3>1, <3>2, <3>3 DEF Dispatches, At
    <3> QED
      BY <3>1, <3>3, <3>4, DispatchesKept
  <2>2. Dispatches(x)'
    <3>1. PICK p : p = handler[x].plan /\ p = handler'[x].plan
      BY <1>3
    <3>2. p \in Plans /\ (place = "record" => Ready(p)')
      BY <1>1, <1>5, <1>10, <3>1 DEF Pipe, Dispatching, Dispatches, Ready, At
    <3>3. Ready(p)' => Ready(handler[x].plan)'
      BY <3>1 DEF Ready
    <3>4. t \in Tasks /\ Mine(x)' = t /\ task' = task /\ task[t].run # r
          /\ (place = "record" => task[t].status = "pending")
      BY <1>1, <1>7, <1>10, <1>22 DEF At
    <3>5. Verified(Mine(x))'
      BY <1>10, <1>22, <3>4 DEF Verified
    <3>6. /\ handler'[x].run = r /\ run'[r] # "none" /\ work'[r] = t
          /\ handler'[x].at \in {"record", "rebind"}
      BY <1>3, <1>4, <1>5, <1>22
    <3>7. handler'[x].at \in Starting =>
            /\ handler'[x].run \in Runs /\ run'[handler'[x].run] # "none"
            /\ work'[handler'[x].run] = Mine(x)' /\ task'[Mine(x)'].run # handler'[x].run
      BY <3>4, <3>6
    <3>8. handler'[x].at \in {"load", "start", "record"} =>
            Mine(x)' \in Tasks /\ task'[Mine(x)'].status = "pending" /\ Verified(Mine(x))'
      BY <1>3, <3>4, <3>5, <3>6
    <3>9. handler'[x].at \in {"next", "load", "start", "record"} => Ready(handler[x].plan)'
      BY <1>3, <3>2, <3>3, <3>6
    <3>10. handler'[x].plan \in Plans /\ handler'[x].at # "finalize"
      BY <3>1, <3>2, <3>6
    <3> HIDE DEF Acting, Starting
    <3> QED
      BY <3>7, <3>8, <3>9, <3>10 DEF Dispatches, At
  <2> QED
    BY <2>1, <2>2 DEF Dispatching
<1>19. Judging'
  <2>1. ASSUME NEW q \in Runs, Ended(q) # x PROVE Judges(q)'
    <3>1. /\ Judges(q) /\ handler'[Ended(q)] = handler[Ended(q)] /\ task' = task
          /\ handler[Ended(q)].at \in {"mark", "judge"} => run'[q] = run[q]
      BY <1>1, <1>3, <1>4, <1>6, <2>1, HandlerFacts DEF Pipe, Judging, At
    <3> QED
      BY <3>1, JudgesKept
  <2>2. ASSUME NEW q \in Runs, Ended(q) = x PROVE Judges(q)'
    <3>1. CASE place = "record"
      BY <1>3, <2>2, <3>1 DEF Judges, At
    <3>2. CASE place = "rebind"
      <4>1. /\ handler[x].attempt < MaxAttempts /\ t \in Tasks /\ task[t].run = q
            /\ handler[x].attempt = task[t].attempt /\ task[t].status = "verifying"
        BY <1>1, <1>22, <2>2, <3>2 DEF Pipe, Judging, Judges, At
      <4>2. Mine(x)' = t /\ task' = task
        BY <1>1, <1>7, <1>22
      <4> QED
        BY <1>3, <2>2, <3>2, <4>1, <4>2 DEF Judges, At
    <3> QED
      BY <1>5, <3>1, <3>2
  <2> QED
    BY <2>1, <2>2 DEF Judging
<1>20. PlansSound'
  <2>1. \A p \in Plans : plan[p] \in {"none", "proposed"} => handler[x].plan # p
    BY <1>5 DEF Pipe, PlansSound
  <2>2. t[1] = handler[x].plan
    BY <1>22, HandlerFacts
  <2>3. \A p \in Plans : plan[p] \in {"none", "proposed"} => \A q \in Runs : work'[q][1] # p
    BY <1>4, <1>22, <2>1, <2>2 DEF Pipe, PlansSound
  <2>4. \A p : AllDone(p)' = AllDone(p)
    BY <1>1 DEF AllDone
  <2>5. \A y \in Handlers : /\ handler'[y].at \in Acting => handler[y].at \in Acting
                            /\ handler'[y].plan = handler[y].plan
                            /\ handler'[y].todo = handler[y].todo
                            /\ handler'[y].at # "insert" => handler[y].at # "insert"
    BY <1>3, <1>5
  <2>6. task' = task /\ plan' = plan
    BY <1>1
  <2> QED
    BY <2>1, <2>3, <2>4, <2>5, <2>6 DEF Pipe, PlansSound, At
<1>21. Counted'
  <2>1. ASSUME NEW u \in Tasks, u # t
        PROVE  WorkersFor(u)' = WorkersFor(u) /\ Recording(u)' = Recording(u)
    <3>1. WorkersFor(u)' = WorkersFor(u)
      BY <1>4, <1>6, <1>22, <2>1, HandlerFacts DEF WorkersFor
    <3>2. Recording(u)' = Recording(u)
      BY <1>3, <1>5, <1>7, <1>22, <2>1 DEF Recording
    <3> QED
      BY <3>1, <3>2
  <2>2. t \in Tasks /\ t[1] = handler[x].plan /\ Mine(x)' = t
    BY <1>7, <1>10, <1>22, HandlerFacts
  <2>3. ASSUME NEW y \in Handlers, handler[y].at \in Starting, Mine(y) = t PROVE FALSE
    <3>1. handler[y].plan = handler[x].plan /\ handler[y].at \in Acting /\ y # x
      BY <1>5, <1>22, <2>3, HandlerFacts DEF Acting, Starting
    <3> QED
      BY <1>5, <3>1, OnlyHand
  <2>4. work'[r] = t
    BY <1>4, <1>22
  <2>5. WorkersFor(t)' = WorkersFor(t) \cup {r} /\ r \notin WorkersFor(t)
    BY <1>4, <1>6, <2>2, <2>4, HandlerFacts DEF WorkersFor
  <2>6. ~Recording(t) /\ Recording(t)'
    BY <1>3, <2>2, <2>3 DEF Recording
  <2>7. /\ Cardinality(WorkersFor(t)) \in Nat
        /\ Cardinality(WorkersFor(t) \cup {r}) = Cardinality(WorkersFor(t)) + 1
    <3>1. IsFiniteSet(Runs) /\ WorkersFor(t) \subseteq Runs
      BY FS_Interval DEF Runs, WorkersFor, OrchestratorAssumption
    <3> QED
      BY <2>5, <3>1, FS_Subset, FS_CardinalityType, FS_AddElement
  <2>8. task' = task /\ task[t].attempt \in Nat
    BY <1>1, <1>2, <2>2 DEF TaskRows
  <2>9. ASSUME NEW u \in Tasks, u # t PROVE CountedFor(u)'
    BY <2>1, <2>8, <2>9 DEF Pipe, Counted, CountedFor
  <2>10. CountedFor(t)'
    BY <1>10, <1>22, <2>2, <2>5, <2>6, <2>7, <2>8 DEF Pipe, Counted, CountedFor
  <2> QED
    BY <2>9, <2>10 DEF Counted
<1> QED
  BY <1>13, <1>14, <1>15, <1>16, <1>17, <1>18, <1>19, <1>20, <1>21 DEF Pipe

\* execute_plan by the sweep: it takes the least plan of its list, if that plan is
\* still proposed.
LEMMA SweepExecutesPipe ==
    ASSUME OrchestratorAssumption, IInv, IInv', Pipe, "sweep" \in Clients, SweepExecutes
    PROVE  Pipe'
<1>1. /\ Sweeper \in Handlers /\ Sweeper \notin Hooks /\ At(Sweeper, "each")
      /\ handler \in [Handlers -> HandlerLocals] /\ plan \in [Plans -> PlanStates]
  BY DEF SweepExecutes, IInv, TypeOK, Handlers, Hooks, Sweeper, Runs, OrchestratorAssumption
<1>2. PICK todo : todo = handler[Sweeper].todo
  OBVIOUS
<1>3. PICK p : p = Min(todo)
  OBVIOUS
<1>4. p \in todo /\ p \in Plans
  <2>1. todo # {} /\ todo \subseteq Plans
    BY <1>1, <1>2 DEF At, IInv, CarriedWasApproved, Carries, HandlerLocals
  <2>2. todo \subseteq Nat
    BY <2>1 DEF Plans
  <2> QED
    BY <1>3, <2>1, <2>2, MinIsIn
<1>5. \A q \in todo : plan[q] \in {"proposed", "abandoned"}
  BY <1>1, <1>2 DEF Pipe, PlansSound, At
<1>6. /\ plan' = [plan EXCEPT ![p] = IF plan[p] = "proposed" THEN "approved" ELSE plan[p]]
      /\ handler' = [handler EXCEPT ![Sweeper] =
            IF plan'[p] \in {"approved", "executing"}
            THEN [Idle EXCEPT !.at = "next", !.plan = p, !.todo = todo \ {p}]
            ELSE IF todo \ {p} # {} THEN [Idle EXCEPT !.at = "each", !.todo = todo \ {p}]
            ELSE Idle]
      /\ UNCHANGED <<task, run, work>>
  BY <1>2, <1>3 DEF SweepExecutes, Approves
<1>7. \A y \in Handlers \ {Sweeper} : handler'[y] = handler[y]
  BY <1>1, <1>6
<1>8. CASE plan[p] = "abandoned"
  <2>1. plan' = plan
    BY <1>1, <1>6, <1>8
  <2>2. handler'[Sweeper].at \in {"each", "idle"} /\ handler'[Sweeper].todo \subseteq todo
    BY <1>1, <1>6, <1>8, <2>1 DEF Idle
  <2>3. /\ handler'[Sweeper].at \notin Acting \cup HookPlaces
        /\ handler[Sweeper].at \notin Starting \cup {"judge"}
    BY <1>1, <2>2 DEF Acting, Starting, HookPlaces, At
  <2>4. PlansSound'
    BY <1>1, <1>5, <1>6, <1>7, <2>1, <2>2, <2>3, PlansStep
  <2> QED
    BY <1>1, <1>6, <1>7, <2>3, <2>4, LetsGo DEF HookPlaces
<1>9. CASE plan[p] = "proposed"
  <2>1. plan'[p] = "approved" /\ \A q \in Plans \ {p} : plan'[q] = plan[q]
    BY <1>1, <1>4, <1>6, <1>9
  <2>2. /\ handler'[Sweeper].at = "next" /\ handler'[Sweeper].plan = p
        /\ handler'[Sweeper].todo = todo \ {p}
    BY <1>1, <1>6, <2>1 DEF Idle
  <2>3. /\ \A y \in Handlers : handler[y].at \in Acting => handler[y].plan # p
        /\ \A r \in Runs : work[r][1] # p
        /\ \A s \in 1..NumSteps : task[<<p, s>>].status = "pending"
    BY <1>4, <1>9 DEF Pipe, PlansSound
  <2>4. /\ handler[Sweeper].at \notin Starting \cup {"judge"}
        /\ handler'[Sweeper].at \notin Starting \cup {"fired", "judge"} \cup HookPlaces
    BY <1>1, <2>2 DEF Starting, HookPlaces, At
  <2>5. /\ Workers' /\ InOrder' /\ Bindings' /\ Counted'
        /\ \A y \in Handlers \ {Sweeper} : \A q : Holds(y, q)' => Holds(y, q)
        /\ \A t \in Tasks : Verified(t) => Verified(t)'
        /\ \A q \in Plans : (Ready(q) => Ready(q)') /\ (AllDone(q) => AllDone(q)')
    BY <1>1, <1>6, <1>7, <2>4, Frame
  <2>6. \A q : Holds(Sweeper, q)' => q = p
    BY <2>2, HandlerFacts DEF Holds
  <2>7. \A y \in Handlers : ~Holds(y, p)
    BY <2>3 DEF Holds
  <2>8. OneHand'
    <3>1. \A q \in Plans \ {p}, y \in Handlers : Holds(y, q)' => Holds(y, q)
      BY <2>5, <2>6
    <3>2. \A y \in Handlers : Holds(y, p)' => y = Sweeper
      BY <2>5, <2>7
    <3> QED
      BY <3>1, <3>2, HandsStep DEF Pipe
  <2>9. LeftAlone'
    BY <1>6, <1>7, <2>4 DEF Pipe, LeftAlone, At
  <2>10. Dispatching'
    <3>1. ASSUME NEW y \in Handlers \ {Sweeper} PROVE Dispatches(y)'
      <4>1. PICK q, t, r : q = handler[y].plan /\ t = Mine(y) /\ r = handler[y].run
        OBVIOUS
      <4>2. Dispatches(y) /\ handler'[y] = handler[y] /\ task' = task /\ run' = run /\ work' = work
        BY <1>6, <1>7 DEF Pipe, Dispatching
      <4>3. /\ handler[y].at \in {"next", "load", "start", "record"} => Ready(q)'
            /\ handler[y].at \in {"load", "start", "record"} => Verified(t)'
            /\ handler[y].at = "finalize" => AllDone(q)'
            /\ handler[y].at \in Starting => run'[r] # "none"
        BY <2>5, <4>1, <4>2 DEF Dispatches, At, Acting
      <4> QED
        BY <4>1, <4>2, <4>3, DispatchesKept
    <3>2. Dispatches(Sweeper)'
      <4>1. Ready(handler[Sweeper].plan)'
        BY <1>6, <2>2, <2>3 DEF Ready
      <4>2. handler'[Sweeper].at \notin Starting
        BY <2>4
      <4> QED
        BY <1>4, <2>2, <4>1, <4>2 DEF Dispatches, At
    <3> QED
      BY <3>1, <3>2 DEF Dispatching
  <2>11. Judging'
    <3>1. ASSUME NEW r \in Runs PROVE Judges(r)'
      <4>1. Judges(r) /\ handler'[Ended(r)] = handler[Ended(r)]
        BY <1>7, HandlerFacts DEF Pipe, Judging
      <4> QED
        BY <1>6, <4>1, JudgesKept
    <3> QED
      BY <3>1 DEF Judging
  <2>12. PlansSound'
    <3>1. ASSUME NEW q \in Plans, plan'[q] \in {"none", "proposed"}
          PROVE  /\ \A s \in 1..NumSteps : task'[<<q, s>>].status = "pending"
                 /\ \A y \in Handlers : handler'[y].at \in Acting => handler'[y].plan # q
                 /\ \A r \in Runs : work'[r][1] # q
      <4>1. q # p /\ plan[q] \in {"none", "proposed"}
        BY <2>1, <3>1
      <4> QED
        BY <1>6, <1>7, <2>2, <4>1 DEF Pipe, PlansSound
    <3>2. ASSUME NEW y \in Handlers, handler'[y].at # "insert", NEW q \in handler'[y].todo
          PROVE  plan'[q] \in {"proposed", "abandoned"}
      <4>1. CASE y = Sweeper
        <5>1. q \in todo \ {p} /\ q \in Plans
          BY <1>1, <1>2, <2>2, <3>2, <4>1 DEF HandlerLocals
        <5> QED
          BY <1>5, <2>1, <5>1
      <4>2. CASE y # Sweeper
        BY <1>7, <3>2, <4>2 DEF Pipe, LeftAlone, At
      <4> QED
        BY <4>1, <4>2
    <3>3. ASSUME NEW q \in Plans, plan'[q] = "done" PROVE AllDone(q)'
      BY <2>1, <2>5, <3>3 DEF Pipe, PlansSound
    <3> QED
      BY <3>1, <3>2, <3>3 DEF PlansSound, At
  <2> QED
    BY <2>5, <2>8, <2>9, <2>10, <2>11, <2>12 DEF Pipe
<1> QED
  BY <1>4, <1>5, <1>8, <1>9

\* A worker ends: its hook has the pipeline from here on, if its task knew it.
LEMMA RunEndsPipe ==
    ASSUME OrchestratorAssumption, IInv, IInv', Pipe, NEW r \in Runs, RunEnds(r)
    PROVE  Pipe'
<1>1. PICK x \in Handlers : x = Ended(r)
  BY HandlerFacts
<1>2. /\ handler \in [Handlers -> HandlerLocals] /\ run \in [Runs -> RunStates]
      /\ UNCHANGED <<plan, task, work>> /\ run[r] = "running"
  BY DEF RunEnds, IInv, TypeOK
<1>3. /\ x \in Hooks /\ x # Sweeper /\ x[2] = "ended" /\ handler[x].at = "idle"
      /\ \A q \in Runs \ {r} : Ended(q) \in Handlers \ {x}
  BY <1>1, <1>2, HandlerFacts DEF Pipe, Workers, At
<1>4. /\ run'[r] \in {"completed", "failed"}
      /\ \A q \in Runs \ {r} : run'[q] = run[q]
      /\ \A y \in Handlers \ {x} : handler'[y] = handler[y]
      /\ handler'[x].at = "fired" /\ handler'[x].plan = handler[x].plan
      /\ handler'[x].todo = handler[x].todo
  BY <1>1, <1>2 DEF RunEnds, Ended, HandlerLocals
<1>5. {"idle", "fired"} \cap (Acting \cup Starting) = {}
  BY DEF Acting, Starting
<1>6. ASSUME NEW q \in Runs PROVE Waits(q)' = Waits(q)
  <2>1. run[q] = "running" \/ At(Ended(q), "fired") <=> (run[q] = "running" \/ At(Ended(q), "fired"))'
    BY <1>1, <1>2, <1>3, <1>4 DEF At
  <2> QED
    BY <1>2, <2>1 DEF Waits
<1>7. \A y \in Handlers : /\ handler'[y].at \in Acting <=> handler[y].at \in Acting
                          /\ handler'[y].at \in Starting <=> handler[y].at \in Starting
                          /\ handler'[y].at # handler[y].at => y = x
  BY <1>3, <1>4, <1>5
<1>8. \A y \in Handlers \ {x} : Mine(y)' = Mine(y)
  BY <1>4 DEF Mine
<1>9. OneHand'
  <2>1. ASSUME NEW y \in Handlers, NEW p, Holds(y, p)' PROVE Holds(y, p)
    BY <1>2, <1>4, <1>5, <1>6, <2>1 DEF Holds
  <2> QED
    BY <2>1 DEF Pipe, OneHand
<1>10. LeftAlone'
  <2>1. \A q \in Runs : run'[q] \in {"none", "running", "completed", "failed"}
    BY <1>4 DEF Pipe, LeftAlone
  <2> QED
    BY <1>3, <1>4, <2>1 DEF Pipe, LeftAlone, At
<1>11. Workers'
  <2>1. ASSUME NEW q \in Runs
        PROVE  /\ run'[q] = "none" => work'[q] = <<0, 0>>
               /\ run'[q] \in {"none", "running"} => handler'[Ended(q)].at = "idle"
               /\ run'[q] = "running" =>
                    Waits(q)' \/ \E y \in Handlers : handler'[y].at \in Starting /\ handler'[y].run = q
    <3>1. CASE q = r
      BY <1>4, <3>1
    <3>2. CASE q # r
      <4>1. run'[q] = run[q] /\ handler'[Ended(q)] = handler[Ended(q)] /\ work'[q] = work[q]
        BY <1>2, <1>3, <1>4, <3>2
      <4>2. ASSUME NEW y \in Handlers, handler[y].at \in Starting, handler[y].run = q
            PROVE  handler'[y].at \in Starting /\ handler'[y].run = q
        BY <1>3, <1>4, <1>5, <4>2
      <4> QED
        BY <1>6, <4>1, <4>2 DEF Pipe, Workers, At
    <3> QED
      BY <3>1, <3>2
  <2> QED
    BY <2>1 DEF Workers, At
<1>12. \A t : Verified(t)' = Verified(t)
  BY <1>2 DEF Verified
<1>13. InOrder'
  <2>1. \A q \in Runs : run'[q] # "none" => run[q] # "none"
    BY <1>2, <1>4
  <2> QED
    BY <1>2, <1>12, <2>1 DEF Pipe, InOrder
<1>14. Bindings'
  <2>1. ASSUME NEW t \in Tasks, task[t].status = "verifying"
        PROVE  handler'[Ended(task[t].run)].at \in {"judge", "rebind"} /\ Mine(Ended(task[t].run))' = t
    <3>1. /\ task[t].run \in Runs /\ Mine(Ended(task[t].run)) = t
          /\ handler[Ended(task[t].run)].at \in {"judge", "rebind"}
      BY <2>1 DEF Pipe, Bindings, Binds
    <3>2. PICK y \in Handlers : y = Ended(task[t].run)
      BY <3>1, HandlerFacts
    <3>3. Mine(y)' = t /\ handler'[y].at \in {"judge", "rebind"}
      BY <1>3, <1>4, <1>8, <3>1, <3>2
    <3> QED
      BY <1>2, <3>2, <3>3
  <2>2. ASSUME NEW t \in Tasks, task[t].status = "completed"
        PROVE  run'[task[t].run] = "completed"
    BY <1>2, <1>4, <2>2 DEF Pipe, Bindings, Binds
  <2>3. ASSUME NEW t \in Tasks PROVE Binds(t)'
    BY <1>2, <2>1, <2>2 DEF Pipe, Bindings, Binds
  <2> QED
    BY <2>3 DEF Bindings
<1>15. Dispatching'
  <2>1. ASSUME NEW y \in Handlers \ {x} PROVE Dispatches(y)'
    <3>1. PICK p, t, q : p = handler[y].plan /\ t = Mine(y) /\ q = handler[y].run
      OBVIOUS
    <3>2. Dispatches(y) /\ handler'[y] = handler[y] /\ task' = task /\ work' = work
      BY <1>2, <1>4 DEF Pipe, Dispatching
    <3>3. /\ handler[y].at \in {"next", "load", "start", "record"} => Ready(p)'
          /\ handler[y].at \in {"load", "start", "record"} => Verified(t)'
          /\ handler[y].at = "finalize" => AllDone(p)'
      BY <1>2, <1>12, <3>1, <3>2 DEF Dispatches, At, Ready, AllDone
    <3>4. handler[y].at \in Starting => run'[q] # "none"
      BY <1>4, <3>1, <3>2 DEF Dispatches
    <3> QED
      BY <3>1, <3>2, <3>3, <3>4, DispatchesKept
  <2>2. Dispatches(x)'
    BY <1>4, <1>5 DEF Dispatches, At
  <2> QED
    BY <2>1, <2>2 DEF Dispatching
<1>16. Judging'
  <2>1. ASSUME NEW q \in Runs \ {r} PROVE Judges(q)'
    <3>1. Judges(q) /\ handler'[Ended(q)] = handler[Ended(q)] /\ run'[q] = run[q]
      BY <1>3, <1>4 DEF Pipe, Judging
    <3> QED
      BY <1>2, <3>1, JudgesKept
  <2>2. Judges(r)'
    BY <1>1, <1>4 DEF Judges, At
  <2> QED
    BY <2>1, <2>2 DEF Judging
<1>17. PlansSound'
  <2>1. \A p : AllDone(p)' = AllDone(p)
    BY <1>2 DEF AllDone
  <2>2. \A y \in Handlers : /\ handler'[y].plan = handler[y].plan /\ handler'[y].todo = handler[y].todo
                            /\ handler'[y].at # "insert" => handler[y].at # "insert"
    BY <1>3, <1>4
  <2> QED
    BY <1>2, <1>7, <2>1, <2>2 DEF Pipe, PlansSound, At
<1>18. Counted'
  <2>1. ASSUME NEW t \in Tasks PROVE Recording(t)' = Recording(t)
    BY <1>3, <1>4, <1>5, <1>7, <1>8 DEF Recording
  <2> QED
    BY <1>2, <2>1 DEF Pipe, Counted, CountedFor, WorkersFor
<1> QED
  BY <1>9, <1>10, <1>11, <1>13, <1>14, <1>15, <1>16, <1>17, <1>18 DEF Pipe

-----------------------------------------------------------------------------
(* Rows of tasks are written by the handler that has the pipeline in hand. *)

\* A handler that has its plan's pipeline in hand writes rows of tasks of that plan,
\* and leaves the pipeline to itself or to the worker it made known.
LEMMA Writes ==
    ASSUME OrchestratorAssumption, IInv, IInv', Pipe, NEW x \in Handlers, NEW p,
           p = handler[x].plan, handler[x].at \in Acting,
           \A y \in Handlers \ {x} : handler'[y] = handler[y],
           UNCHANGED <<run, work>>,
           \A q \in Plans : plan'[q] = plan[q] \/ (plan[q] = "approved" /\ plan'[q] = "executing"),
           handler'[x].at \notin Starting \cup {"fired", "insert"},
           handler'[x].at \in HookPlaces => x \in Hooks,
           handler'[x].at \in Acting => handler'[x].plan = p,
           handler'[x].todo \subseteq handler[x].todo,
           Dispatches(x)', \A r \in Runs : Ended(r) = x => Judges(r)',
           \A u \in Tasks : u[1] # p => task'[u] = task[u],
           \A u \in Tasks : task[u].status = "completed" => task'[u].status = "completed",
           AllDone(p) => AllDone(p)',
           \A u \in Tasks : u[1] = p =>
               /\ Binds(u)'
               /\ task'[u].status \notin {"pending", "skipped"} => Verified(u)
               /\ task'[u].status = "skipped" =>
                      \E s \in 1..NumSteps : task'[<<p, s>>].status = "failed"
               /\ task'[u].attempt =< MaxAttempts
               /\ task[u].attempt + (IF task[u].status = "pending" THEN 0 ELSE 1)
                      + (IF u = Mine(x) /\ handler[x].at \in Starting THEN 1 ELSE 0)
                  =< task'[u].attempt + (IF task'[u].status = "pending" THEN 0 ELSE 1),
           \A r \in Runs : handler[x].at \in Starting /\ handler[x].run = r
                           /\ run[r] = "running" => Waits(r)',
           NEW z, handler'[x].at \in Acting => z = x,
           \A r \in Runs : work[r][1] = p /\ Waits(r)' => z = Ended(r)
    PROVE  Pipe'
<1>1. /\ p \in Plans
      /\ \A y \in Handlers \ {x} : handler[y].at \in Acting => handler[y].plan # p
      /\ \A r \in Runs : work[r][1] = p => ~Waits(r)
  BY OnlyHand
<1>2. /\ handler[x].at \notin {"idle", "fired", "insert"}
      /\ x = Sweeper \/ x[2] = "ended"
      /\ x # Sweeper => handler[x].todo = {}
  BY DEF Acting, Pipe, LeftAlone, At
<1>3. \A y \in Handlers \ {x} : Mine(y)' = Mine(y)
  BY DEF Mine
<1>4. \A r \in Runs : work[r][1] # p => Waits(r)' = Waits(r)
  <2>1. ASSUME NEW r \in Runs, work[r][1] # p PROVE Waits(r)' = Waits(r)
    <3>1. At(Ended(r), "fired")' = At(Ended(r), "fired")
      BY <1>2, HandlerFacts DEF At
    <3>2. work[r] \in Tasks => task'[work[r]] = task[work[r]]
      BY <2>1
    <3>3. run' = run /\ work' = work
      OBVIOUS
    <3> QED
      BY <3>1, <3>2, <3>3 DEF Waits
  <2> QED
    BY <2>1
<1>5. OneHand'
  <2>1. ASSUME NEW q \in Plans \ {p}, NEW y \in Handlers, Holds(y, q)' PROVE Holds(y, q)
    BY <1>4, <2>1 DEF Holds
  <2>2. ASSUME NEW y \in Handlers, Holds(y, p)' PROVE y = z
    BY <1>1, <2>2 DEF Holds
  <2> QED
    BY <2>1, <2>2, HandsStep DEF Pipe
<1>6. LeftAlone'
  BY <1>2 DEF Pipe, LeftAlone, At
<1>7. Workers'
  <2>1. ASSUME NEW r \in Runs, run[r] \in {"none", "running"} PROVE handler'[Ended(r)].at = "idle"
    <3>1. Ended(r) \in Handlers \ {x} /\ handler[Ended(r)].at = "idle"
      BY <1>2, <2>1, HandlerFacts DEF Pipe, Workers, At
    <3> QED
      BY <3>1
  <2>2. ASSUME NEW r \in Runs, run[r] = "running"
        PROVE  Waits(r)' \/ \E y \in Handlers : handler'[y].at \in Starting /\ handler'[y].run = r
    <3>1. CASE Waits(r)
      BY <1>1, <1>4, <3>1
    <3>2. CASE \E y \in Handlers \ {x} : handler[y].at \in Starting /\ handler[y].run = r
      BY <3>2
    <3>3. CASE handler[x].at \in Starting /\ handler[x].run = r
      BY <2>2, <3>3
    <3> QED
      BY <2>2, <3>1, <3>2, <3>3 DEF Pipe, Workers
  <2>3. run' = run /\ work' = work
    OBVIOUS
  <2> QED
    BY <2>1, <2>2, <2>3 DEF Pipe, Workers, At
<1>8. \A u \in Tasks : Verified(u) => Verified(u)'
  <2>1. ASSUME NEW u \in Tasks, NEW s \in 1..(u[2] - 1) PROVE <<u[1], s>> \in Tasks
    <3>1. u[1] \in Plans /\ u[2] \in 1..NumSteps
      BY HandlerFacts
    <3>2. s \in 1..NumSteps
      BY <3>1 DEF OrchestratorAssumption
    <3> QED
      BY <3>1, <3>2, HandlerFacts
  <2> QED
    BY <2>1 DEF Verified
<1>9. InOrder'
  <2>1. ASSUME NEW u \in Tasks, task'[u].status \notin {"pending", "skipped"} PROVE Verified(u)'
    BY <1>8, <2>1 DEF Pipe, InOrder
  <2>2. ASSUME NEW u \in Tasks, task'[u].status = "skipped"
        PROVE  \E s \in 1..NumSteps : task'[<<u[1], s>>].status = "failed"
    <3>1. CASE u[1] = p
      BY <2>2, <3>1
    <3>2. CASE u[1] # p
      <4>1. PICK s \in 1..NumSteps : task[<<u[1], s>>].status = "failed"
        BY <2>2, <3>2 DEF Pipe, InOrder
      <4>2. <<u[1], s>> \in Tasks
        BY HandlerFacts
      <4> QED
        BY <3>2, <4>1, <4>2
    <3> QED
      BY <3>1, <3>2
  <2>3. \A r \in Runs : run'[r] # "none" => work'[r] \in Tasks /\ Verified(work[r])'
    BY <1>8 DEF Pipe, InOrder
  <2> QED
    BY <2>1, <2>2, <2>3 DEF InOrder
<1>10. Bindings'
  <2>1. ASSUME NEW u \in Tasks, u[1] # p PROVE Binds(u)'
    <3>1. task'[u] = task[u] /\ run' = run /\ work' = work /\ Binds(u)
      BY <2>1 DEF Pipe, Bindings
    <3>2. ASSUME task[u].status = "verifying"
          PROVE  handler'[Ended(task[u].run)].at \in {"judge", "rebind"} /\ Mine(Ended(task[u].run))' = u
      <4>1. PICK y \in Handlers : y = Ended(task[u].run)
        BY <3>1, <3>2, HandlerFacts DEF Binds
      <4>2. handler[y].at \in {"judge", "rebind"} /\ Mine(y) = u
        BY <3>1, <3>2, <4>1 DEF Binds
      <4>3. y # x
        BY <2>1, <4>2, HandlerFacts
      <4>4. Mine(y)' = u /\ handler'[y].at \in {"judge", "rebind"}
        BY <1>3, <4>2, <4>3
      <4>5. task'[u].run = task[u].run
        BY <3>1
      <4>6. Ended(task[u].run)' = y
        BY <3>1, <4>1 DEF Ended
      <4> QED
        BY <3>1, <4>1, <4>4, <4>5, <4>6 DEF Mine, Ended
    <3> QED
      BY <3>1, <3>2 DEF Binds
  <2> QED
    BY <2>1 DEF Bindings
<1>11. \A q \in Plans \ {p} : (Ready(q) => Ready(q)') /\ (AllDone(q) => AllDone(q)')
  BY HandlerFacts DEF Ready, AllDone
<1>12. Dispatching'
  <2>1. ASSUME NEW y \in Handlers \ {x} PROVE Dispatches(y)'
    <3>1. PICK q, t, r : q = handler[y].plan /\ t = Mine(y) /\ r = handler[y].run
      OBVIOUS
    <3>2. Dispatches(y) /\ handler'[y] = handler[y] /\ run' = run /\ work' = work
      BY DEF Pipe, Dispatching
    <3>3. handler[y].at \in {"next", "load", "start", "record"} \cup Starting =>
            q \in Plans \ {p}
      BY <1>1, <3>1, <3>2 DEF Dispatches, Acting, Starting
    <3>4. t[1] = q
      BY <3>1, HandlerFacts
    <3>5. handler[y].at \in {"next", "load", "start", "record"} => Ready(q)'
      BY <1>11, <3>1, <3>2, <3>3 DEF Dispatches
    <3>6. handler[y].at \in {"load", "start", "record"} => Verified(t)'
      BY <1>8, <3>1, <3>2 DEF Dispatches
    <3>7. handler[y].at = "finalize" => AllDone(q)'
      BY <1>11, <3>1, <3>2 DEF Dispatches, At
    <3>8. handler[y].at \in Starting => t \in Tasks /\ run'[r] # "none"
      <4>1. handler[y].at \in Starting => work[r] = t /\ r \in Runs /\ run[r] # "none"
        BY <3>1, <3>2 DEF Dispatches
      <4> QED
        BY <3>2, <4>1 DEF Pipe, InOrder
    <3>9. handler[y].at \in {"load", "start"} \cup Starting => task'[t] = task[t]
      BY <3>1, <3>2, <3>3, <3>4, <3>8 DEF Dispatches
    <3> QED
      BY <3>1, <3>2, <3>5, <3>6, <3>7, <3>8, <3>9, DispatchesKept
  <2> QED
    BY <2>1 DEF Dispatching
<1>13. Judging'
  <2>1. ASSUME NEW r \in Runs, Ended(r) # x PROVE Judges(r)'
    <3>1. PICK y \in Handlers \ {x} : y = Ended(r)
      BY <2>1, HandlerFacts
    <3>2. PICK t : t = Mine(y)
      OBVIOUS
    <3>3. Judges(r) /\ handler'[y] = handler[y] /\ run' = run
      BY DEF Pipe, Judging
    <3>4. handler[y].at \in {"loaded", "mark", "judge", "rebind", "skip"} => handler[y].plan # p
      BY <1>1 DEF Acting
    <3>5. handler[y].at \in {"loaded", "mark", "judge", "rebind"} => task'[t] = task[t]
      <4>1. t[1] = handler[y].plan
        BY <3>2, HandlerFacts
      <4> QED
        BY <3>1, <3>2, <3>3, <3>4, <4>1 DEF Judges
    <3>6. ASSUME handler[y].at = "skip", NEW s \in 1..NumSteps
          PROVE  task'[<<handler[y].plan, s>>] = task[<<handler[y].plan, s>>]
      <4>1. handler[y].plan \in Plans
        BY <3>6 DEF Pipe, Dispatching, Dispatches, Acting
      <4>2. <<handler[y].plan, s>> \in Tasks
        BY <4>1, HandlerFacts
      <4> QED
        BY <3>4, <3>6, <4>2
    <3> QED
      BY <3>1, <3>2, <3>3, <3>5, <3>6, JudgesKept
  <2> QED
    BY <2>1 DEF Judging
<1>14. PlansSound'
  <2>1. plan[p] \notin {"none", "proposed"}
    BY <1>1 DEF Pipe, PlansSound
  <2>2. ASSUME NEW q \in Plans, plan'[q] \in {"none", "proposed"}
        PROVE  /\ \A s \in 1..NumSteps : task'[<<q, s>>].status = "pending"
               /\ \A y \in Handlers : handler'[y].at \in Acting => handler'[y].plan # q
               /\ \A r \in Runs : work'[r][1] # q
    <3>1. q # p /\ plan[q] \in {"none", "proposed"}
      BY <1>1, <2>1, <2>2
    <3> QED
      BY <3>1, HandlerFacts DEF Pipe, PlansSound
  <2>3. ASSUME NEW y \in Handlers, handler'[y].at # "insert", NEW q \in handler'[y].todo
        PROVE  plan'[q] \in {"proposed", "abandoned"}
    <3>1. q \in handler[y].todo /\ handler[y].at # "insert"
      BY <1>2, <2>3
    <3>2. q \in Plans
      BY <3>1 DEF IInv, TypeOK, HandlerLocals
    <3>3. plan[q] \in {"proposed", "abandoned"}
      BY <3>1 DEF Pipe, PlansSound, At
    <3> QED
      BY <3>2, <3>3
  <2>4. ASSUME NEW q \in Plans, plan'[q] = "done" PROVE AllDone(q)'
    BY <1>11, <2>4 DEF Pipe, PlansSound
  <2> QED
    BY <2>2, <2>3, <2>4 DEF PlansSound, At
<1>15. Counted'
  <2>1. ASSUME NEW u \in Tasks PROVE CountedFor(u)'
    <3>1. WorkersFor(u)' = WorkersFor(u)
      BY DEF WorkersFor
    <3>2. PICK n \in Nat : n = Cardinality(WorkersFor(u))
      <4>1. IsFiniteSet(Runs) /\ WorkersFor(u) \subseteq Runs
        BY FS_Interval DEF Runs, WorkersFor, OrchestratorAssumption
      <4> QED
        BY <4>1, FS_Subset, FS_CardinalityType
    <3>3. /\ task[u].attempt \in Nat /\ task'[u].attempt \in Nat
          /\ task[u].attempt =< MaxAttempts
          /\ n =< task[u].attempt + (IF task[u].status = "pending" THEN 0 ELSE 1)
                    + (IF Recording(u) THEN 1 ELSE 0)
      BY <3>2 DEF Pipe, Counted, CountedFor, IInv, TypeOK, TaskRows
    <3>4. CASE u[1] # p
      <4>1. Recording(u)' = Recording(u)
        <5>1. \A y \in Handlers : Mine(y)[1] = handler[y].plan
          BY HandlerFacts
        <5>2. handler[x].at \in Starting => Mine(x) # u
          BY <3>4, <5>1
        <5> QED
          BY <1>3, <5>2 DEF Recording
      <4>2. task'[u] = task[u]
        BY <3>4
      <4> QED
        BY <3>1, <3>2, <3>3, <4>1, <4>2 DEF CountedFor
    <3>5. CASE u[1] = p
      <4>1. ASSUME Recording(u) PROVE u = Mine(x) /\ handler[x].at \in Starting
        <5>1. PICK y \in Handlers : handler[y].at \in Starting /\ Mine(y) = u
          BY <4>1 DEF Recording
        <5>2. handler[y].at \in Acting /\ handler[y].plan = p
          BY <3>5, <5>1, HandlerFacts DEF Starting, Acting
        <5> QED
          BY <1>1, <5>1, <5>2
      <4>2. n =< task'[u].attempt + (IF task'[u].status = "pending" THEN 0 ELSE 1)
                   + (IF Recording(u)' THEN 1 ELSE 0)
        <5>1. n =< task'[u].attempt + (IF task'[u].status = "pending" THEN 0 ELSE 1)
          BY <3>3, <3>5, <4>1
        <5> QED
          BY <3>3, <5>1
      <4> QED
        BY <3>1, <3>2, <3>5, <4>2 DEF CountedFor
    <3> QED
      BY <3>4, <3>5
  <2> QED
    BY <2>1 DEF Counted
<1> QED
  BY <1>5, <1>6, <1>7, <1>9, <1>10, <1>12, <1>13, <1>14, <1>15 DEF Pipe

\* The same for the row of the task the handler is about, which is not over: the
\* only one of its plan that is neither pending nor over, if it is not pending.
LEMMA WritesOne ==
    ASSUME OrchestratorAssumption, IInv, IInv', Pipe, NEW x \in Handlers, NEW t \in Tasks,
           t = Mine(x), handler[x].at \in Acting,
           task[t].status \in {"pending", "running", "verifying"}, Verified(t),
           \A y \in Handlers \ {x} : handler'[y] = handler[y],
           UNCHANGED <<run, work>>,
           \A q \in Plans : plan'[q] = plan[q] \/ (plan[q] = "approved" /\ plan'[q] = "executing"),
           handler'[x].at \notin Starting \cup {"fired", "insert"},
           handler'[x].at \in HookPlaces => x \in Hooks,
           handler'[x].at \in Acting => handler'[x].plan = t[1],
           handler'[x].todo \subseteq handler[x].todo,
           Dispatches(x)', \A r \in Runs : Ended(r) = x => Judges(r)',
           \A u \in Tasks : u # t => task'[u] = task[u],
           task'[t].status \in {"running", "verifying", "completed", "failed"},
           Binds(t)',
           task'[t].attempt =< MaxAttempts,
           task[t].attempt + (IF task[t].status = "pending" THEN 0 ELSE 1)
               + (IF handler[x].at \in Starting THEN 1 ELSE 0) =< task'[t].attempt + 1,
           NEW w \in Runs,
           task'[t].status # "running" => handler[x].at \notin Starting,
           task'[t].status = "running" =>
               /\ handler'[x].at \notin Acting /\ task'[t].run = w
               /\ handler[x].at \in Starting /\ handler[x].run = w
               /\ run[w] = "running" => Waits(w)'
    PROVE  Pipe'
<1>1. PICK p \in Plans : p = t[1]
  BY HandlerFacts
<1>2. p = handler[x].plan
  BY <1>1, HandlerFacts
<1>3. /\ \A y \in Handlers \ {x} : handler[y].at \in Acting => handler[y].plan # p
      /\ \A r \in Runs : work[r][1] = p => ~Waits(r)
  BY <1>2, OnlyHand
<1>4. task \in [Tasks -> TaskRows] /\ task' \in [Tasks -> TaskRows]
  BY DEF IInv, TypeOK
<1>5. ASSUME NEW u \in Tasks, u[1] = p, u # t PROVE task[u].status # "verifying"
  <2>1. CASE task[u].status = "verifying"
    <3>1. PICK y \in Handlers : y = Ended(task[u].run)
      BY <2>1, HandlerFacts DEF Pipe, Bindings, Binds
    <3>2. handler[y].at \in Acting /\ Mine(y) = u
      BY <2>1, <3>1 DEF Pipe, Bindings, Binds, Acting
    <3>3. handler[y].plan = p
      BY <1>5, <3>2, HandlerFacts
    <3> QED
      BY <1>3, <1>5, <3>2, <3>3
  <2> QED
    BY <2>1
<1>6. ASSUME NEW u \in Tasks, u[1] = p, u # t PROVE Binds(u)'
  <2>1. task'[u] = task[u] /\ run' = run /\ work' = work /\ Binds(u)
    BY <1>6 DEF Pipe, Bindings
  <2>2. task[u].status # "verifying"
    BY <1>5, <1>6
  <2> QED
    BY <2>1, <2>2 DEF Binds
<1>7. /\ \A u \in Tasks : u[1] # p => task'[u] = task[u]
      /\ \A u \in Tasks : task[u].status \in {"completed", "failed"} =>
             task'[u].status = task[u].status
  BY <1>1
<1>8. ~AllDone(p)
  <2>1. t[2] \in 1..NumSteps /\ t = <<p, t[2]>>
    BY <1>1, HandlerFacts
  <2> QED
    BY <2>1 DEF AllDone, Terminal
<1>9. ASSUME NEW u \in Tasks, u[1] = p
      PROVE  /\ Binds(u)'
             /\ task'[u].status \notin {"pending", "skipped"} => Verified(u)
             /\ task'[u].status = "skipped" =>
                    \E s \in 1..NumSteps : task'[<<p, s>>].status = "failed"
             /\ task'[u].attempt =< MaxAttempts
             /\ task[u].attempt + (IF task[u].status = "pending" THEN 0 ELSE 1)
                    + (IF u = Mine(x) /\ handler[x].at \in Starting THEN 1 ELSE 0)
                =< task'[u].attempt + (IF task'[u].status = "pending" THEN 0 ELSE 1)
  <2>1. CASE u = t
    BY <2>1
  <2>2. CASE u # t
    <3>1. task'[u] = task[u] /\ task[u].attempt \in Nat /\ task[u].attempt =< MaxAttempts
      BY <1>4, <2>2 DEF TaskRows, Pipe, Counted, CountedFor
    <3>2. task[u].status \notin {"pending", "skipped"} => Verified(u)
      BY DEF Pipe, InOrder
    <3>3. ASSUME task[u].status = "skipped"
          PROVE  \E s \in 1..NumSteps : task'[<<p, s>>].status = "failed"
      <4>1. PICK s \in 1..NumSteps : task[<<p, s>>].status = "failed"
        BY <1>9, <3>3 DEF Pipe, InOrder
      <4>2. <<p, s>> \in Tasks
        BY HandlerFacts
      <4> QED
        BY <1>7, <4>1, <4>2
    <3> QED
      BY <1>6, <1>9, <2>2, <3>1, <3>2, <3>3
  <2> QED
    BY <2>1, <2>2
<1>10. PICK z : z = IF task'[t].status = "running" THEN Ended(w) ELSE x
  OBVIOUS
<1>11. ASSUME NEW q \in Runs, work[q][1] = p, Waits(q)' PROVE z = Ended(q)
  <2>1. work[q] \in Tasks /\ task'[work[q]].run = q /\ task'[work[q]].status = "running"
    BY <1>11 DEF Waits
  <2>2. CASE work[q] = t
    BY <1>10, <2>1, <2>2
  <2>3. CASE work[q] # t
    <3>1. task'[work[q]] = task[work[q]]
      BY <2>1, <2>3
    <3>2. handler[x].at # "fired" /\ handler'[x].at # "fired"
      BY DEF Acting
    <3>3. run[q] = "running" \/ At(Ended(q), "fired")
      <4>1. run'[q] = "running" \/ handler'[Ended(q)].at = "fired"
        BY <1>11 DEF Waits, At
      <4> QED
        BY <3>2, <4>1, HandlerFacts DEF At
    <3>4. Waits(q)
      BY <2>1, <3>1, <3>3 DEF Waits
    <3> QED
      BY <1>3, <1>11, <3>4
  <2> QED
    BY <2>2, <2>3
<1>12. /\ handler'[x].at \in Acting => z = x
       /\ \A q \in Runs : handler[x].at \in Starting /\ handler[x].run = q
                          /\ run[q] = "running" => Waits(q)'
  BY <1>10
<1>13. AllDone(p) => AllDone(p)'
  BY <1>8
<1>14. /\ \A u \in Tasks : u[1] # p => task'[u] = task[u]
       /\ \A u \in Tasks : task[u].status = "completed" => task'[u].status = "completed"
  BY <1>7
<1> QED
  BY SMTT(60), <1>1, <1>2, <1>9, <1>11, <1>12, <1>13, <1>14, Writes

LEMMA RecordWorkerPipe ==
    ASSUME OrchestratorAssumption, IInv, IInv', Pipe, NEW x \in Handlers, RecordWorker(x)
    PROVE  Pipe'
<1>1. /\ At(x, "record") /\ Return(x) /\ UNCHANGED <<run, work>>
      /\ plan' = [plan EXCEPT ![handler[x].plan] = IF @ = "approved" THEN "executing" ELSE @]
  BY DEF RecordWorker
<1>2. PICK t, r : t = Mine(x) /\ r = handler[x].run
  OBVIOUS
<1>3. /\ handler[x].at \in Acting /\ handler[x].at \in Starting
      /\ handler[x].plan \in Plans /\ t \in Tasks /\ task[t].status = "pending"
      /\ Verified(t) /\ r \in Runs /\ run[r] # "none" /\ work[r] = t
  BY <1>1, <1>2 DEF Pipe, Dispatching, Dispatches, At, Acting, Starting
<1>4. task \in [Tasks -> TaskRows] /\ plan \in [Plans -> PlanStates]
  BY DEF IInv, TypeOK
<1>5. task' = [task EXCEPT ![t] = [task[t] EXCEPT !.status = "running", !.run = r]]
  BY <1>2, <1>3, <1>4 DEF RecordWorker, TaskRows
<1>6. /\ task'[t].status = "running" /\ task'[t].run = r /\ task'[t].attempt = task[t].attempt
      /\ \A u \in Tasks : u # t => task'[u] = task[u]
  BY <1>3, <1>4, <1>5 DEF TaskRows
<1>7. \A q \in Plans : plan'[q] = plan[q] \/ (plan[q] = "approved" /\ plan'[q] = "executing")
  BY <1>1, <1>4
<1>8. /\ \A y \in Handlers \ {x} : handler'[y] = handler[y]
      /\ handler'[x].at \in {"count", "each", "idle"}
      /\ handler'[x].at = "count" => x \in Hooks /\ handler'[x].plan = handler[x].plan
      /\ handler'[x].todo \subseteq handler[x].todo
  BY <1>1, Returned
<1>9. /\ handler'[x].at \notin Acting \cup Starting
           \cup {"fired", "insert", "finalize", "next", "load", "start", "record"}
      /\ handler'[x].at \in HookPlaces => x \in Hooks
  BY <1>8 DEF Acting, Starting, HookPlaces
<1>10. Dispatches(x)'
  BY <1>3, <1>8, <1>9 DEF Dispatches, At
<1>11. \A q \in Runs : Ended(q) = x => Judges(q)'
  BY <1>8 DEF Judges, At
<1>12. Binds(t)'
  BY <1>1, <1>3, <1>6 DEF Binds
<1>13. run[r] = "running" => Waits(r)'
  BY <1>1, <1>3, <1>6 DEF Waits
<1>14. task[t].attempt \in Nat /\ task[t].attempt =< MaxAttempts
  BY <1>3, <1>4 DEF TaskRows, Pipe, Counted, CountedFor
<1>15. /\ task[t].status \in {"pending", "running", "verifying"}
       /\ task'[t].status \in {"running", "verifying", "completed", "failed"}
       /\ task'[t].attempt =< MaxAttempts
       /\ task[t].attempt + (IF task[t].status = "pending" THEN 0 ELSE 1)
               + (IF handler[x].at \in Starting THEN 1 ELSE 0) =< task'[t].attempt + 1
       /\ task'[t].status = "running" /\ task'[t].run = r /\ handler[x].run = r
       /\ run[r] = "running" => Waits(r)'
       /\ handler'[x].at \notin Acting
  BY <1>2, <1>3, <1>6, <1>9, <1>13, <1>14
<1> QED
  BY <1>1, <1>2, <1>3, <1>6, <1>7, <1>8, <1>9, <1>10, <1>11, <1>12, <1>15, WritesOne

LEMMA HookRebindsPipe ==
    ASSUME OrchestratorAssumption, IInv, IInv', Pipe, NEW x \in Hooks, HookRebinds(x)
    PROVE  Pipe'
<1>1. /\ At(x, "rebind") /\ GoOn(x, "count") /\ UNCHANGED <<plan, run, work>>
      /\ x \in Handlers
  BY HandlerFacts DEF HookRebinds
<1>2. PICK t, r : t = Mine(x) /\ r = handler[x].run
  OBVIOUS
<1>3. /\ handler[x].at \in Acting /\ handler[x].at \in Starting
      /\ handler[x].plan \in Plans /\ r \in Runs /\ run[r] # "none" /\ work[r] = t
  BY <1>1, <1>2 DEF Pipe, Dispatching, Dispatches, At, Acting, Starting
<1>4. x[1] \in Runs /\ x = Ended(x[1])
  BY <1>1, HandlerFacts DEF Pipe, LeftAlone, At
<1>5. /\ t \in Tasks /\ task[t].status = "verifying" /\ handler[x].attempt = task[t].attempt
      /\ handler[x].attempt < MaxAttempts
  BY <1>1, <1>2, <1>4 DEF Pipe, Judging, Judges, At
<1>6. task \in [Tasks -> TaskRows] /\ Verified(t)
  BY <1>5 DEF IInv, TypeOK, Pipe, InOrder
<1>7. task' = [task EXCEPT ![t] = [status |-> "running", run |-> r,
                                   attempt |-> task[t].attempt + 1]]
  BY <1>2 DEF HookRebinds
<1>8. /\ task'[t].status = "running" /\ task'[t].run = r
      /\ task'[t].attempt = task[t].attempt + 1
      /\ \A u \in Tasks : u # t => task'[u] = task[u]
  BY <1>5, <1>6, <1>7
<1>9. /\ \A y \in Handlers \ {x} : handler'[y] = handler[y]
      /\ handler'[x].at = "count" /\ handler'[x].plan = handler[x].plan
      /\ handler'[x].todo = handler[x].todo
  <2>1. "count" \in Places
    BY DEF Places
  <2> QED
    BY <1>1, <2>1, GoOnStep DEF IInv
<1>10. handler'[x].at \notin Acting \cup Starting
  BY <1>9 DEF Acting, Starting
<1>11. Dispatches(x)'
  BY <1>3, <1>9, <1>10 DEF Dispatches, At
<1>12. \A q \in Runs : Ended(q) = x => Judges(q)'
  BY <1>9 DEF Judges, At
<1>13. Binds(t)'
  BY <1>1, <1>3, <1>8 DEF Binds
<1>14. run[r] = "running" => Waits(r)'
  BY <1>1, <1>3, <1>5, <1>8 DEF Waits
<1>15. /\ task[t].attempt \in Nat /\ MaxAttempts \in Nat
  BY <1>5, <1>6 DEF TaskRows, OrchestratorAssumption
<1>16. /\ task'[t].attempt =< MaxAttempts
       /\ task[t].attempt + (IF task[t].status = "pending" THEN 0 ELSE 1)
               + (IF handler[x].at \in Starting THEN 1 ELSE 0) =< task'[t].attempt + 1
  BY <1>3, <1>5, <1>8, <1>15
<1>17. /\ task[t].status \in {"pending", "running", "verifying"}
       /\ task'[t].status \in {"running", "verifying", "completed", "failed"}
       /\ task'[t].status = "running" /\ task'[t].run = r /\ handler[x].run = r
       /\ run[r] = "running" => Waits(r)'
       /\ handler'[x].at \notin Acting \cup Starting \cup {"fired", "insert"}
  BY <1>2, <1>5, <1>8, <1>9, <1>10, <1>14
<1> QED
  BY <1>1, <1>2, <1>3, <1>5, <1>6, <1>8, <1>9, <1>11, <1>12, <1>13, <1>16, <1>17, WritesOne

\* The hook takes its task's outcome down.
LEMMA HookMarksPipe ==
    ASSUME OrchestratorAssumption, IInv, IInv', Pipe, NEW x \in Hooks, HookMarks(x)
    PROVE  Pipe'
<1>1. At(x, "mark") /\ UNCHANGED <<plan, run, work>> /\ x \in Handlers
  BY HandlerFacts DEF HookMarks
<1>2. PICK t : t = Mine(x)
  OBVIOUS
<1>3. x[1] \in Runs /\ x = Ended(x[1]) /\ handler[x].at \in Acting /\ handler[x].at \notin Starting
  BY <1>1, HandlerFacts DEF Pipe, LeftAlone, At, Acting, Starting
<1>4. /\ t \in Tasks /\ task[t].run = x[1] /\ task[t].status = "running"
      /\ handler[x].attempt = task[t].attempt /\ handler[x].seen = run[x[1]]
  BY <1>1, <1>2, <1>3 DEF Pipe, Judging, Judges, At
<1>5. handler[x].seen \in {"completed", "failed"}
  <2>1. run[x[1]] \notin {"none", "running"}
    BY <1>1, <1>3 DEF Pipe, Workers, At
  <2> QED
    BY <1>3, <1>4, <2>1 DEF Pipe, LeftAlone
<1>6. /\ task \in [Tasks -> TaskRows] /\ handler \in [Handlers -> HandlerLocals] /\ Verified(t)
      /\ handler[x].plan \in Plans /\ t[1] = handler[x].plan
  BY <1>1, <1>2, <1>3, <1>4, HandlerFacts DEF IInv, TypeOK, Pipe, InOrder, Dispatching, Dispatches
<1>7. task' = [task EXCEPT ![t].status = "verifying"] /\ Goto(x, "judge")
  BY <1>2, <1>5 DEF HookMarks
<1>8. /\ task'[t].status = "verifying" /\ task'[t].run = task[t].run
      /\ task'[t].attempt = task[t].attempt
      /\ \A u \in Tasks : u # t => task'[u] = task[u]
  BY <1>4, <1>6, <1>7 DEF TaskRows
<1>9. /\ \A y \in Handlers \ {x} : handler'[y] = handler[y]
      /\ handler'[x].at = "judge" /\ handler'[x].plan = handler[x].plan
      /\ handler'[x].step = handler[x].step /\ handler'[x].todo = handler[x].todo
      /\ handler'[x].attempt = handler[x].attempt /\ handler'[x].seen = handler[x].seen
  BY <1>1, <1>6, <1>7 DEF Goto, HandlerLocals
<1>10. Mine(x)' = t
  BY <1>2, <1>9 DEF Mine
<1>11. handler'[x].at \notin Starting \cup {"fired", "insert"}
       /\ (handler'[x].at \in HookPlaces => x \in Hooks)
       /\ handler'[x].at \in Acting
  BY <1>9 DEF Acting, Starting
<1>12. Dispatches(x)'
  BY <1>6, <1>9, <1>11 DEF Dispatches, At
<1>13. ASSUME NEW q \in Runs, Ended(q) = x PROVE Judges(q)'
  <2>1. q = x[1]
    BY <1>13, HandlerFacts
  <2>2. run'[q] = handler'[x].seen
    BY <1>1, <1>4, <1>9, <2>1
  <2> QED
    BY <1>4, <1>8, <1>9, <1>10, <1>13, <2>1, <2>2 DEF Judges, At
<1>14. Binds(t)'
  <2>1. Ended(task'[t].run) = x /\ work'[task'[t].run] = t /\ task'[t].run \in Runs
    BY <1>1, <1>3, <1>4, <1>8 DEF Pipe, Bindings, Binds
  <2>2. PICK r : r = task'[t].run
    OBVIOUS
  <2>3. Mine(Ended(r))' = t /\ handler'[Ended(r)].at = "judge"
    BY <1>9, <1>10, <2>1, <2>2 DEF Mine, Ended
  <2>4. Mine(Ended(task[t].run))' = t /\ handler'[Ended(task'[t].run)].at = "judge"
    BY <2>2, <2>3 DEF Mine, Ended
  <2> QED
    BY <1>8, <2>1, <2>4 DEF Binds
<1>15. task[t].attempt \in Nat /\ task[t].attempt =< MaxAttempts
  BY <1>4, <1>6 DEF TaskRows, Pipe, Counted, CountedFor
<1>16. /\ task'[t].attempt =< MaxAttempts
       /\ task[t].attempt + (IF task[t].status = "pending" THEN 0 ELSE 1)
               + (IF handler[x].at \in Starting THEN 1 ELSE 0) =< task'[t].attempt + 1
  BY <1>3, <1>8, <1>15
<1>17. /\ task[t].status \in {"pending", "running", "verifying"}
       /\ task'[t].status \in {"running", "verifying", "completed", "failed"}
       /\ task'[t].status # "running"
       /\ handler'[x].plan = t[1] /\ handler'[x].todo \subseteq handler[x].todo
  BY <1>4, <1>6, <1>8, <1>9
<1> QED
  BY <1>1, <1>2, <1>3, <1>4, <1>6, <1>8, <1>9, <1>11, <1>12, <1>13, <1>14, <1>16, <1>17, WritesOne

\* What the hook knows when the verdict is in: its task is the only one of the plan
\* that is neither over nor pending, and those after it were not begun.
LEMMA AtJudge ==
    ASSUME OrchestratorAssumption, IInv, Pipe, NEW x \in Hooks, At(x, "judge"), NEW t, t = Mine(x)
    PROVE  /\ x \in Handlers /\ x[1] \in Runs /\ x = Ended(x[1])
           /\ handler[x].at \in Acting /\ handler[x].at \notin Starting
           /\ handler[x].plan \in Plans /\ t[1] = handler[x].plan
           /\ t \in Tasks /\ task[t].run = x[1] /\ task[t].status = "verifying" /\ Verified(t)
           /\ work[x[1]] = t
           /\ run[x[1]] \in {"completed", "failed"} /\ handler[x].seen = run[x[1]]
           /\ task[t].attempt \in Nat /\ task[t].attempt =< MaxAttempts
           /\ \A s \in 1..NumSteps : s # t[2] => task[<<t[1], s>>].status \in {"completed", "pending"}
<1>1. /\ x \in Handlers /\ x[1] \in Runs /\ x = Ended(x[1])
      /\ handler[x].at \in Acting /\ handler[x].at \notin Starting
  BY HandlerFacts DEF Pipe, LeftAlone, At, Acting, Starting
<1>2. handler[x].plan \in Plans /\ t[1] = handler[x].plan
  BY <1>1, HandlerFacts DEF Pipe, Dispatching, Dispatches
<1>3. /\ t \in Tasks /\ task[t].run = x[1] /\ task[t].status = "verifying"
      /\ handler[x].seen = run[x[1]]
  BY <1>1 DEF Pipe, Judging, Judges, At
<1>4. Verified(t) /\ work[x[1]] = t
  BY <1>3 DEF Pipe, InOrder, Bindings, Binds
<1>5. run[x[1]] \in {"completed", "failed"}
  <2>1. run[x[1]] \notin {"none", "running"}
    BY <1>1 DEF Pipe, Workers, At
  <2> QED
    BY <1>1, <2>1 DEF Pipe, LeftAlone
<1>6. task[t].attempt \in Nat /\ task[t].attempt =< MaxAttempts
  BY <1>3 DEF IInv, TypeOK, TaskRows, Pipe, Counted, CountedFor
<1>7. /\ t[2] \in 1..NumSteps /\ t = <<t[1], t[2]>> /\ NumSteps \in Nat
      /\ \A s \in 1..NumSteps : <<t[1], s>> \in Tasks
  BY <1>3, HandlerFacts DEF OrchestratorAssumption
<1>8. \A s \in 1..NumSteps : s < t[2] => task[<<t[1], s>>].status = "completed"
  BY <1>4, <1>7 DEF Verified
<1>9. ASSUME NEW s \in 1..NumSteps, s > t[2]
      PROVE  task[<<t[1], s>>].status \in {"pending", "skipped"}
  <2>1. CASE Verified(<<t[1], s>>)
    <3>1. t[2] \in 1..(s - 1)
      BY <1>7, <1>9
    <3>2. task[<<t[1], t[2]>>].status = "completed"
      BY <2>1, <3>1 DEF Verified
    <3> QED
      BY <1>3, <1>7, <3>2
  <2>2. CASE ~Verified(<<t[1], s>>)
    BY <1>7, <2>2 DEF Pipe, InOrder
  <2> QED
    BY <2>1, <2>2
<1>10. ASSUME NEW s \in 1..NumSteps PROVE task[<<t[1], s>>].status # "failed"
  BY <1>3, <1>7, <1>8, <1>9
<1>11. ASSUME NEW s \in 1..NumSteps, s # t[2]
       PROVE  task[<<t[1], s>>].status \in {"completed", "pending"}
  <2>1. CASE s < t[2]
    BY <1>8, <2>1
  <2>2. CASE s > t[2]
    <3>1. task[<<t[1], s>>].status # "skipped"
      BY <1>7, <1>10 DEF Pipe, InOrder
    <3> QED
      BY <1>9, <2>2, <3>1
  <2> QED
    BY <1>7, <1>11, <2>1, <2>2
<1> QED
  BY <1>1, <1>2, <1>3, <1>4, <1>5, <1>6, <1>11

\* A verdict closes the task, and its hook keeps the pipeline.
LEMMA VerdictPipe ==
    ASSUME OrchestratorAssumption, IInv, IInv', Pipe, NEW x \in Hooks,
           HookPasses(x) \/ HookGivesUp(x)
    PROVE  Pipe'
<1>1. At(x, "judge") /\ UNCHANGED <<plan, run, work>>
  BY DEF HookPasses, HookGivesUp
<1>2. PICK t : t = Mine(x)
  OBVIOUS
<1>3. /\ x \in Handlers /\ x[1] \in Runs /\ x = Ended(x[1])
      /\ handler[x].at \in Acting /\ handler[x].at \notin Starting
      /\ handler[x].plan \in Plans /\ t[1] = handler[x].plan
      /\ t \in Tasks /\ task[t].run = x[1] /\ task[t].status = "verifying" /\ Verified(t)
      /\ work[x[1]] = t
      /\ run[x[1]] \in {"completed", "failed"} /\ handler[x].seen = run[x[1]]
      /\ task[t].attempt \in Nat /\ task[t].attempt =< MaxAttempts
      /\ \A s \in 1..NumSteps : s # t[2] => task[<<t[1], s>>].status \in {"completed", "pending"}
  BY <1>1, <1>2, AtJudge
<1>4. PICK verdict \in {"completed", "failed"}, place \in {"next", "skip"} :
        /\ task' = [task EXCEPT ![t].status = verdict]
        /\ GoOn(x, place)
        /\ \/ verdict = "completed" /\ place = "next" /\ run[x[1]] = "completed"
           \/ verdict = "failed" /\ place = "skip"
  BY <1>2, <1>3 DEF HookPasses, HookGivesUp
<1>5. /\ task'[t].status = verdict /\ task'[t].run = x[1] /\ task'[t].attempt = task[t].attempt
      /\ \A u \in Tasks : u # t => task'[u] = task[u]
  BY <1>3, <1>4 DEF IInv, TypeOK, TaskRows
<1>6. /\ \A y \in Handlers \ {x} : handler'[y] = handler[y]
      /\ handler'[x].at = place /\ handler'[x].plan = handler[x].plan
      /\ handler'[x].todo = handler[x].todo
  <2>1. place \in Places
    BY DEF Places
  <2> QED
    BY <1>3, <1>4, <2>1, GoOnStep DEF IInv
<1>7. handler'[x].at \notin Starting \cup {"fired", "insert"}
  BY <1>6 DEF Starting
<1>8. PICK p \in Plans : p = t[1] /\ handler'[x].plan = p
  BY <1>3, <1>6
<1>9. /\ \A s \in 1..NumSteps : <<p, s>> \in Tasks
      /\ t[2] \in 1..NumSteps /\ t = <<p, t[2]>>
  BY <1>3, <1>8, HandlerFacts
<1>10. Dispatches(x)'
  <2>1. place = "next" => Ready(p)'
    BY <1>3, <1>4, <1>5, <1>8, <1>9 DEF Ready
  <2>2. Ready(p)' => Ready(handler[x].plan)'
    BY <1>8 DEF Ready
  <2> QED
    BY <1>6, <1>7, <1>8, <2>1, <2>2 DEF Dispatches, At
<1>11. ASSUME NEW q \in Runs, Ended(q) = x PROVE Judges(q)'
  <2>1. place = "skip" => \E s \in 1..NumSteps : task'[<<p, s>>].status = "failed"
    BY <1>4, <1>5, <1>9
  <2> QED
    BY <1>6, <1>8, <1>11, <2>1 DEF Judges, At
<1>12. Binds(t)'
  BY <1>1, <1>3, <1>4, <1>5 DEF Binds
<1>13. /\ task'[t].attempt =< MaxAttempts
       /\ task[t].attempt + (IF task[t].status = "pending" THEN 0 ELSE 1)
               + (IF handler[x].at \in Starting THEN 1 ELSE 0) =< task'[t].attempt + 1
  BY <1>3, <1>5
<1>14. /\ task[t].status \in {"pending", "running", "verifying"}
       /\ task'[t].status \in {"running", "verifying", "completed", "failed"}
       /\ task'[t].status # "running"
       /\ handler'[x].plan = t[1] /\ handler'[x].todo \subseteq handler[x].todo
  BY <1>3, <1>5, <1>6
<1> QED
  BY <1>1, <1>2, <1>3, <1>5, <1>6, <1>7, <1>10, <1>11, <1>12, <1>13, <1>14, WritesOne

\* The tasks after a failed one are skipped.
LEMMA HookSkipsRestPipe ==
    ASSUME OrchestratorAssumption, IInv, IInv', Pipe, NEW x \in Hooks, HookSkipsRest(x)
    PROVE  Pipe'
<1>1. At(x, "skip") /\ GoOn(x, "count") /\ UNCHANGED <<plan, run, work>>
  BY DEF HookSkipsRest
<1>2. /\ x \in Handlers /\ x[1] \in Runs /\ x = Ended(x[1])
      /\ handler[x].at \in Acting /\ handler[x].at \notin Starting
  BY <1>1, HandlerFacts DEF Pipe, LeftAlone, At, Acting, Starting
<1>3. PICK p \in Plans : p = handler[x].plan
  BY <1>2 DEF Pipe, Dispatching, Dispatches
<1>4. PICK k \in 1..NumSteps : task[<<p, k>>].status = "failed"
  <2>1. PICK r \in Runs : x = Ended(r)
    BY <1>2
  <2>2. Judges(r) /\ At(Ended(r), "skip") /\ handler[Ended(r)].plan = p
    BY <1>1, <1>3, <2>1 DEF Pipe, Judging
  <2> QED
    BY <2>2 DEF Judges
<1>5. task \in [Tasks -> TaskRows]
  BY DEF IInv, TypeOK
<1>6. \A u \in Tasks : task'[u] = IF u[1] = p /\ task[u].status = "pending"
                                  THEN [task[u] EXCEPT !.status = "skipped"] ELSE task[u]
  BY <1>3 DEF HookSkipsRest
<1>7. \A u \in Tasks :
        /\ task'[u].run = task[u].run /\ task'[u].attempt = task[u].attempt
        /\ IF u[1] = p /\ task[u].status = "pending"
           THEN task'[u].status = "skipped" ELSE task'[u] = task[u]
  BY ZenonT(60), <1>5, <1>6 DEF TaskRows
<1>8. /\ \A y \in Handlers \ {x} : handler'[y] = handler[y]
      /\ handler'[x].at = "count" /\ handler'[x].plan = p
      /\ handler'[x].todo = handler[x].todo
  <2>1. "count" \in Places
    BY DEF Places
  <2> QED
    BY <1>1, <1>2, <1>3, <2>1, GoOnStep DEF IInv
<1>9. handler'[x].at \notin Acting \cup Starting \cup {"fired", "insert"}
  BY <1>8 DEF Acting, Starting
<1>10. /\ \A y \in Handlers \ {x} : handler[y].at \in Acting => handler[y].plan # p
       /\ \A r \in Runs : work[r][1] = p => ~Waits(r)
  BY <1>2, <1>3, OnlyHand
<1>11. ASSUME NEW u \in Tasks, u[1] = p
       PROVE  /\ Binds(u)'
              /\ task'[u].status \notin {"pending", "skipped"} => Verified(u)
              /\ task'[u].status = "skipped" =>
                     \E s \in 1..NumSteps : task'[<<p, s>>].status = "failed"
              /\ task'[u].attempt =< MaxAttempts
              /\ task[u].attempt + (IF task[u].status = "pending" THEN 0 ELSE 1)
                     + (IF u = Mine(x) /\ handler[x].at \in Starting THEN 1 ELSE 0)
                 =< task'[u].attempt + (IF task'[u].status = "pending" THEN 0 ELSE 1)
  <2>1. task[u].status # "verifying"
    <3>1. CASE task[u].status = "verifying"
      <4>1. PICK y \in Handlers : y = Ended(task[u].run)
        BY <3>1, HandlerFacts DEF Pipe, Bindings, Binds
      <4>2. handler[y].at \in {"judge", "rebind"} /\ Mine(y) = u
        BY <3>1, <4>1 DEF Pipe, Bindings, Binds
      <4>3. handler[y].at \in Acting /\ handler[y].plan = p /\ y # x
        BY <1>1, <1>11, <4>2, HandlerFacts DEF Acting, At
      <4> QED
        BY <1>10, <4>3
    <3> QED
      BY <3>1
  <2>2. Binds(u)'
    <3>1. Binds(u) /\ run' = run /\ work' = work
      BY <1>1 DEF Pipe, Bindings
    <3>2. CASE task[u].status = "pending"
      BY <1>7, <1>11, <3>1, <3>2 DEF Binds
    <3>3. CASE task[u].status # "pending"
      <4>1. task'[u] = task[u]
        BY <1>7, <3>3
      <4> QED
        BY <2>1, <3>1, <4>1 DEF Binds
    <3> QED
      BY <3>2, <3>3
  <2>3. task'[u].status \notin {"pending", "skipped"} => Verified(u)
    BY <1>7 DEF Pipe, InOrder
  <2>4. \E s \in 1..NumSteps : task'[<<p, s>>].status = "failed"
    BY <1>4, <1>7, HandlerFacts
  <2>5. task[u].attempt \in Nat /\ task[u].attempt =< MaxAttempts
    BY <1>5 DEF TaskRows, Pipe, Counted, CountedFor
  <2>6. task'[u].attempt = task[u].attempt /\ (task'[u].status = "pending" => task[u].status = "pending")
    BY <1>7
  <2> QED
    BY <1>2, <2>2, <2>3, <2>4, <2>5, <2>6
<1>12. /\ \A u \in Tasks : u[1] # p => task'[u] = task[u]
       /\ \A u \in Tasks : task[u].status = "completed" => task'[u].status = "completed"
  BY <1>7
<1>13. AllDone(p) => AllDone(p)'
  BY <1>7, HandlerFacts DEF AllDone, Terminal
<1>14. ASSUME NEW r \in Runs, work[r][1] = p, Waits(r)' PROVE x = Ended(r)
  <2>1. work[r] \in Tasks /\ task'[work[r]].run = r /\ task'[work[r]].status = "running"
    BY <1>1, <1>14 DEF Waits
  <2>2. task'[work[r]] = task[work[r]]
    BY <1>7, <2>1
  <2>3. run[r] = "running" \/ At(Ended(r), "fired")
    <3>1. run'[r] = "running" \/ handler'[Ended(r)].at = "fired"
      BY <1>14 DEF Waits, At
    <3> QED
      BY <1>1, <1>8, <3>1, HandlerFacts DEF At
  <2>4. Waits(r)
    BY <2>1, <2>2, <2>3 DEF Waits
  <2> QED
    BY <1>10, <1>14, <2>4
<1>15. Dispatches(x)' /\ \A q \in Runs : Ended(q) = x => Judges(q)'
  BY <1>8, <1>9 DEF Dispatches, Judges, At
<1> QED
  BY SMTT(60), <1>1, <1>2, <1>3, <1>8, <1>9, <1>11, <1>12, <1>13, <1>14, <1>15, Writes

-----------------------------------------------------------------------------
(* The theorems of the pipeline.                                           *)

LEMMA PipeInit == OrchestratorAssumption /\ Init => Pipe
<1> SUFFICES ASSUME OrchestratorAssumption, Init PROVE Pipe
  OBVIOUS
<1>1. /\ \A x \in Handlers : /\ handler[x].at = "idle" /\ handler[x].todo = {}
      /\ \A p \in Plans : plan[p] = "none"
      /\ \A t \in Tasks : /\ task[t].status = "pending" /\ task[t].run = 0
                          /\ task[t].attempt = 0
      /\ \A r \in Runs : run[r] = "none" /\ work[r] = <<0, 0>>
  BY DEF Init, Idle
<1>2. /\ "idle" \notin Acting \cup Starting \cup HookPlaces
      /\ \A r \in Runs : handler[Ended(r)].at = "idle"
  BY <1>1, HandlerFacts DEF Acting, Starting, HookPlaces
<1>3. OneHand
  BY <1>1, <1>2 DEF OneHand, Holds, Waits, At
<1>4. LeftAlone /\ Workers
  BY <1>1, <1>2 DEF LeftAlone, Workers, At
<1>5. InOrder /\ Bindings
  BY <1>1 DEF InOrder, Bindings, Binds
<1>6. Dispatching
  <2>1. \A x \in Handlers : handler[x].at \notin Acting \cup Starting
                              \cup {"next", "load", "start", "record", "count", "finalize"}
    BY <1>1, <1>2 DEF Acting
  <2> QED
    BY <2>1 DEF Dispatching, Dispatches, At
<1>7. Judging
  BY <1>2 DEF Judging, Judges, At
<1>8. PlansSound
  <2>1. \A p \in Plans, s \in 1..NumSteps : task[<<p, s>>].status = "pending"
    BY <1>1, HandlerFacts
  <2>2. \A p \in Plans : p # 0
    BY HandlerFacts
  <2> QED
    BY <1>1, <1>2, <2>1, <2>2 DEF PlansSound
<1>9. Counted
  <2>1. ASSUME NEW t \in Tasks PROVE CountedFor(t)
    <3>1. WorkersFor(t) = {}
      BY <1>1, HandlerFacts DEF WorkersFor
    <3>2. ~Recording(t)
      BY <1>1, <1>2 DEF Recording
    <3> QED
      BY <1>1, <3>1, <3>2, FS_EmptySet DEF CountedFor, OrchestratorAssumption
  <2> QED
    BY <2>1 DEF Counted
<1> QED
  BY <1>3, <1>4, <1>5, <1>6, <1>7, <1>8, <1>9 DEF Pipe

LEMMA PipeNext ==
    ASSUME OrchestratorAssumption, IInv, IInv', PipeInv, [Next]_vars
    PROVE  PipeInv'
<1> SUFFICES ASSUME disturbances' = 0 PROVE Pipe'
  BY DEF PipeInv, HandsOff
<1>1. ASSUME Disturb PROVE FALSE
  BY <1>1 DEF Disturb, IInv, TypeOK
<1>2. CASE UNCHANGED vars
  <2>1. Pipe
    BY <1>2 DEF vars, PipeInv, HandsOff
  <2>2. /\ OneHand' /\ LeftAlone' /\ Workers' /\ InOrder'
    BY <1>2, <2>1
       DEF vars, Pipe, OneHand, Holds, Waits, At, LeftAlone, Workers, InOrder, Verified
  <2>3. Bindings' /\ Judging' /\ PlansSound'
    BY <1>2, <2>1
       DEF vars, Pipe, Bindings, Binds, Mine, Judging, Judges, At, PlansSound, AllDone
  <2>4. Dispatching'
    <3>1. ASSUME NEW x \in Handlers PROVE Dispatches(x)' = Dispatches(x)
      BY <1>2 DEF vars, Dispatches, Ready, AllDone, Verified, Mine, At
    <3> QED
      BY <2>1, <3>1 DEF Pipe, Dispatching
  <2>5. Counted'
    <3>1. ASSUME NEW t \in Tasks PROVE CountedFor(t)' = CountedFor(t)
      BY <1>2 DEF vars, CountedFor, WorkersFor, Recording, Mine
    <3> QED
      BY <2>1, <3>1 DEF Pipe, Counted
  <2> QED
    BY <2>2, <2>3, <2>4, <2>5 DEF Pipe
<1>3. ASSUME NEW r \in Runs, RunEnds(r) \/ RunParks(r) \/ RunResumes(r) \/ RunCancelled(r)
      PROVE  Pipe'
  <2>1. disturbances' = disturbances /\ (RunEnds(r) \/ RunResumes(r))
    BY <1>1, <1>3 DEF RunEnds, RunResumes, RunParks, RunCancelled
  <2>2. Pipe
    BY <2>1 DEF PipeInv, HandsOff
  <2>3. ~RunResumes(r)
    BY <2>2 DEF RunResumes, Pipe, LeftAlone
  <2> QED
    BY <2>1, <2>2, <2>3, RunEndsPipe
<1>4. ASSUME NEW x \in Hooks, HookStep(x) PROVE Pipe'
  <2>1. disturbances' = disturbances
    BY <1>4 DEF HookStep, HookLoads, HookReadsRun, HookMarks, HookPasses, HookRetries,
                HookRebinds, HookGivesUp, HookSkipsRest, HookCounts, HookFinalizes,
                HookVerifiesGoal, HookTallies
  <2>2. Pipe /\ x \in Handlers
    BY <2>1 DEF PipeInv, HandsOff, Handlers
  <2> QED
    BY <1>4, <2>2, HookReadsOn, HookMarksPipe, VerdictPipe, StartsPipe, HookRebindsPipe,
       HookSkipsRestPipe, CloseLetsGo DEF HookStep
<1>5. ASSUME NEW x \in Handlers, HandlerStep(x) PROVE Pipe'
  <2>1. disturbances' = disturbances
    BY <1>5 DEF HandlerStep, DecomposeGoal, InsertPlan, NextPending, LoadTask, StartWorker,
                RecordWorker
  <2>2. Pipe
    BY <2>1 DEF PipeInv, HandsOff
  <2> QED
    BY <1>5, <2>2, DecomposeLetsGo, DispatchReads, StartsPipe, RecordWorkerPipe DEF HandlerStep
<1>6. CASE "sweep" \in Clients /\ (SweepPlans \/ SweepCollects \/ SweepExecutes)
  <2>1. disturbances' = disturbances
    BY <1>6 DEF SweepPlans, SweepCollects, SweepExecutes
  <2>2. Pipe
    BY <2>1 DEF PipeInv, HandsOff
  <2> QED
    BY <1>6, <2>2, SweepLetsGo, SweepExecutesPipe
<1>7. ASSUME NEW p \in Plans, ApprovePlan(p) PROVE FALSE
  BY <1>1, <1>7 DEF ApprovePlan
<1>8. CASE "user" \in Clients /\ ((\E p \in Plans : UserExecutes(p)) \/ UserAsks)
  BY <1>1, <1>8 DEF UserExecutes, UserAsks
<1>9. CASE Crash
  BY <1>1, <1>9 DEF Crash
<1> QED
  BY <1>2, <1>3, <1>4, <1>5, <1>6, <1>7, <1>8, <1>9 DEF Next

LEMMA PipeInductive == Spec => [](IInv /\ PipeInv)
<1>1. Init => IInv /\ PipeInv
  BY InitHolds, PipeInit, OrchestratorAssumption DEF PipeInv
<1>2. IInv /\ PipeInv /\ [Next]_vars => (IInv /\ PipeInv)'
  <2> SUFFICES ASSUME IInv, PipeInv, [Next]_vars PROVE IInv' /\ PipeInv'
    OBVIOUS
  <2>1. IInv'
    BY NextHolds, OrchestratorAssumption
  <2> QED
    BY <2>1, PipeNext, OrchestratorAssumption
<1> QED
  BY <1>1, <1>2, PTL DEF Spec

\* A worker at work holds its plan's pipeline: through its hook once its task knows
\* it, and before that through the handler that started it.
LEMMA OneWorker ==
    ASSUME OrchestratorAssumption, IInv, Pipe, NEW p \in Plans,
           NEW q \in WorkersOn(p), NEW r \in WorkersOn(p)
    PROVE  q = r
<1>1. /\ q \in Runs /\ r \in Runs /\ work[q][1] = p /\ work[r][1] = p
      /\ run[q] = "running" /\ run[r] = "running"
  BY DEF WorkersOn, LiveRun, Pipe, LeftAlone
<1>2. handler[Ended(q)].at \notin Starting /\ handler[Ended(r)].at \notin Starting
  BY <1>1 DEF Pipe, Workers, At, Starting
<1>3. ASSUME NEW k \in Runs, work[k][1] = p, run[k] = "running"
      PROVE  \E y \in Handlers : /\ Holds(y, p)
                                 /\ y = Ended(k) \/ (handler[y].at \in Starting /\ handler[y].run = k)
  <2>1. CASE Waits(k)
    BY <1>3, <2>1, HandlerFacts DEF Holds
  <2>2. ASSUME NEW y \in Handlers, handler[y].at \in Starting, handler[y].run = k
        PROVE  Holds(y, p)
    <3>1. work[k] = Mine(y)
      BY <2>2 DEF Pipe, Dispatching, Dispatches
    <3>2. handler[y].plan = p
      BY <1>3, <3>1, HandlerFacts
    <3> QED
      BY <2>2, <3>2 DEF Holds, Starting, Acting
  <2> QED
    BY <1>3, <2>1, <2>2 DEF Pipe, Workers
<1>4. PICK y \in Handlers : /\ Holds(y, p)
                            /\ y = Ended(q) \/ (handler[y].at \in Starting /\ handler[y].run = q)
  BY <1>1, <1>3
<1>5. PICK z \in Handlers : /\ Holds(z, p)
                            /\ z = Ended(r) \/ (handler[z].at \in Starting /\ handler[z].run = r)
  BY <1>1, <1>3
<1>6. y = z
  BY <1>4, <1>5 DEF Pipe, OneHand
<1> QED
  BY <1>1, <1>2, <1>4, <1>5, <1>6, HandlerFacts

\* Left alone, a plan never has two workers, and no step is begun before all the
\* steps before it were verified.
THEOREM StepsInOrder == Spec => []Sequential
<1>1. IInv /\ PipeInv => Sequential
  <2> SUFFICES ASSUME IInv, Pipe
               PROVE  /\ \A p \in Plans : Cardinality(WorkersOn(p)) =< 1
                      /\ \A r \in Runs : run[r] # "none" => Verified(work[r])
    BY DEF PipeInv, Sequential, Verified
  <2>1. ASSUME NEW p \in Plans PROVE Cardinality(WorkersOn(p)) =< 1
    <3>1. CASE WorkersOn(p) = {}
      BY <3>1, FS_EmptySet
    <3>2. CASE WorkersOn(p) # {}
      <4>1. PICK r \in WorkersOn(p) : TRUE
        BY <3>2
      <4>2. WorkersOn(p) = {r}
        BY <4>1, OneWorker, OrchestratorAssumption
      <4> QED
        BY <4>2, FS_Singleton
    <3> QED
      BY <3>1, <3>2
  <2>2. \A r \in Runs : run[r] # "none" => Verified(work[r])
    BY DEF Pipe, InOrder
  <2> QED
    BY <2>1, <2>2
<1> QED
  BY <1>1, PipeInductive, PTL

\* Left alone, a completed task rests on the run its row names, and that run
\* completed.
THEOREM CreditedToItsRun == Spec => []VerifiedWork
<1>1. IInv /\ PipeInv => VerifiedWork
  BY DEF PipeInv, VerifiedWork, Pipe, Bindings, Binds
<1> QED
  BY <1>1, PipeInductive, PTL

\* Left alone, a task gets one worker and at most MaxAttempts retries.
THEOREM RetriesEnd == Spec => []AttemptsBounded
<1>1. ASSUME IInv, Pipe, NEW t \in Tasks
      PROVE  Cardinality({r \in Runs : work[r] = t}) =< MaxAttempts + 1
  <2>1. PICK n \in Nat : n = Cardinality({r \in Runs : work[r] = t})
    <3>1. IsFiniteSet(Runs) /\ {r \in Runs : work[r] = t} \subseteq Runs
      BY FS_Interval, OrchestratorAssumption DEF Runs, OrchestratorAssumption
    <3> QED
      BY <3>1, FS_Subset, FS_CardinalityType
  <2>2. /\ n =< task[t].attempt + (IF task[t].status = "pending" THEN 0 ELSE 1)
                 + (IF Recording(t) THEN 1 ELSE 0)
        /\ task[t].attempt =< MaxAttempts /\ task[t].attempt \in Nat /\ MaxAttempts \in Nat
    BY <1>1, <2>1, OrchestratorAssumption
       DEF Pipe, Counted, CountedFor, WorkersFor, IInv, TypeOK, TaskRows, OrchestratorAssumption
  <2>3. ASSUME Recording(t), task[t].status # "pending" PROVE task[t].attempt < MaxAttempts
    <3>1. PICK x \in Handlers : handler[x].at \in Starting /\ Mine(x) = t
      BY <2>3 DEF Recording
    <3>2. handler[x].at = "rebind"
      BY <1>1, <2>3, <3>1 DEF Starting, Pipe, Dispatching, Dispatches
    <3>3. x \in Hooks
      BY <1>1, <3>2 DEF Pipe, LeftAlone, HookPlaces
    <3>4. PICK r \in Runs : x = Ended(r)
      BY <1>1, <3>2, <3>3, HandlerFacts, OrchestratorAssumption DEF Pipe, LeftAlone, At
    <3>5. Judges(r) /\ At(Ended(r), "rebind") /\ Mine(Ended(r)) = t
      BY <1>1, <3>1, <3>2, <3>4 DEF Pipe, Judging, At
    <3> QED
      BY <3>5 DEF Judges, At
  <2> QED
    BY <2>1, <2>2, <2>3
<1>2. IInv /\ PipeInv => AttemptsBounded
  BY <1>1 DEF PipeInv, AttemptsBounded
<1> QED
  BY <1>2, PipeInductive, PTL

\* Left alone, a plan that is done has nothing left to do.
THEOREM DoneForGood == Spec => []DoneIsSettled
<1>1. IInv /\ PipeInv => DoneIsSettled
  BY DEF PipeInv, DoneIsSettled, Pipe, PlansSound, AllDone
<1> QED
  BY <1>1, PipeInductive, PTL

=============================================================================
