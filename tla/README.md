# CurlyOS-Core in TLA+

Specifications, model-checking configurations and machine-checked proofs for
CurlyOS-Core: the policy decision point and the Executive run it guards, the goal
orchestrator, memory governance with its event log and projection, the scheduler and
everything it fires, and the records that requests and jobs work on. Paths are relative
to the repository; `PROJECT.json` maps every definition to its lines.

## 1. The system: inventory

CurlyOS-Core is one Python process (FastAPI and asyncio) over Postgres (state and event
log), Redis (cache, locks, short-term memory) and language models reached over HTTP.
Concurrency is coroutines: a coroutine runs from one `await` to the next, and every
database connection it opens is an await, so state read over one connection may be stale
over the next. Transactions are Postgres' default, read committed: two of them see each
other's commits, and only row locks, unique keys and the WHERE of an UPDATE keep them
apart. A second process (Hermes' cron, a refresh script, a stray second server) may work
on the same tables.

| Component | State it keeps | Operations | What is hard | What makes it correct |
|---|---|---|---|---|
| Policy decision point, `safety/pdp.py` | none (pure) | `decide`, `class_floor`, `resolve_level` | a cascade of early returns whose order matters; boundaries at the spend threshold | allows exactly what an order-free rule allows; no tightening loosens a verdict |
| Gate and approvals, `agent/pdp_gate.py`, `agent/approval_service.py` | `approvals` | `evaluate`, create, `grant`, `deny`, expire | two decisions at once, an expiry racing a grant, an approval that lapses before the run wakes | a decision is final; only a granted approval of that action opens the gate |
| Kill switch, budget, `safety/` | three Redis flags | `set_kill`, `clear_kill`, `read_kill` | unreadable counts as set; pressed between check and effect | how many effects may still follow is bounded |
| Run executor, `orchestration/runner.py` | `agent_runs` rows, `_tasks`, a semaphore | `start`, `stop`, `start_run`, `resume`, `cancel`, `_park`, `_finish` | row and asyncio task updated apart, done callbacks, drain, recovery | row and task agree, no two drivers of one run |
| Executive graph, `orchestration/graph.py`, with its tools, sandbox, hash chain and checkpointer | checkpoint, `actions`, `tool_calls`, `observations` | `hydrate`, `act`, `synthesize`, `record` | the `act` node is executed again from its top after every interrupt and crash | no ungated effect, one record per step |
| Goal orchestrator, `orchestration/orchestrator.py`, `verify.py` | `goal_plans`, `goal_tasks`, `goals.status` | decompose, approve, dispatch, `on_worker_done`, `autoplan_sweep` | overlapping hooks, presses, sweeps, all acting on earlier reads | steps in order behind a verify gate, bounded attempts, nothing before approval, plans never go back |
| Scheduler, `orchestration/scheduler.py` | its list of jobs, envelopes in `agent_runs`, Redis keys | `fire`, `_loop`, the cadences | the key is deleted unconditionally after its TTL, guards asked once, edits in the middle of a tick | one report a period, an envelope ends with its firing, next occurrence is the least |
| User jobs, `orchestration/user_jobs.py`, `orchestration/api.py` | `scheduled_jobs`, inbox, the live list | fire, `deliver_run_output`, `reconcile_deliveries`, create, patch, delete | a run ending before the job knows it, delivery raced by boot, rows and list edited apart | output delivered once, list and table agree, no due job passed over for good |
| Memory governance, `memory/governance` | memories, staged events | add, invalidate, forget | single-use approval, event staged in the transaction, an advisory lock | a forgotten statement stays forgotten, an approval pays once |
| Events spine, `shared/events` | event log | `stage`, `emit` | sequence numbers drawn before commit | log and state change commit together |
| Projection and consolidation, `memory/consolidation` | watermarks, vectors, `mem:current`, episodes | `project_scope`, the six passes | lock TTL, deferred Redis operations, replay; passes that overlap | nothing skipped but gaps, read model true at rest, no statement closed without an heir |
| Retrieval and recall cache, `memory/retrieval`, `api_server.py` | none; Redis entries by generation | `retrieve`, recall, ingest's bump | memories change between the channels; an entry written after the generation it belongs to moved | a recall sees what was ingested, no stage revives what is hidden |
| Identity facts, `identity` | `identity_facts` | propose, context, invalidate, conflict pass | read and write apart, a pass over pairs read earlier | context never weakens |
| Settings, `shared/settings.py` | a row and an in-process cache | read, write, invalidate | a read that overlaps a write caches the old value again | no value older than the TTL |
| Prompt evolution, `orchestration/evolution.py` | `prompt_versions` | propose, evaluate, activate | read, wait for a model, write without looking again | no regression, one active version |
| Goals, decisions, opportunities, `goals`, `orchestration/workflows.py` | rows | create, scans, promotion sweep, review | titles read before the model is asked; create and resolve in two transactions | promoted once, open titles distinct |
| Decision loop and lessons, `cognition/decision_loop` | outcomes, lessons | distil, reinforce, decay | nearest-lesson search beside an insert | validated means three outcomes, no clones |
| Reflection, `cognition/reflection`, `api_server.py` | reports; identity facts, goals' last reflection | reflect, propose, store, two syncs | reads and writes in transactions of their own; old reports asked again | inferences stay hypotheses, the goal shows the newest report |
| Attention, narrative, meta-cognition, `cognition/` | themes, chapters, signals, assumptions, principles | snapshot generators, audit, distil, mirror | close and insert in separate transactions; look, then insert | a snapshot is the whole of one run; each text once |
| Workspaces and placement, `workspace` | workspaces, projects, directories | `place_goal` | find-or-create across transactions and a file system | a goal keeps its home, and the home exists |
| Studio, `studio` | sketches | create, update, graduate | nested pool connections, read and write apart | one project per sketch |
| Simulation, `simulation`, `orchestration/workflows.py` | a run, scenarios, memories | create, execute | status read before a model call, memories written after the commit | one execution's scenarios, each told |
| Knowledge graph, `knowledge/` | entities, edges | extract, resolve, mint, link | retries, overlapping tasks of one name | a name converges on one node |
| Hermes plugin and MCP adapter, `hermes_integration/` | a recall slot, threads | mirror the built-in memory, prefetch | threads, calls that fail | the mirror keeps up, the block is the last turn's |
| HTTP API and lifespan, `api_server.py` | none of their own | endpoints, startup sweeps, shutdown | shutdown order, background tasks | drain before the pools close |
| Evaluation, types, model access; migrations, deployment, import scripts | rows | one-shot calls | nothing interleaves | not modelled, section 7 |

How they interact: the API and the scheduler call `Runner.start_run`; the executor drives
the graph, whose `act` node asks the gate, which reads the kill switch, the approval and
the budget and calls `decide`; granting or denying an approval calls `Runner.resume`; when
a run parks or ends the executor calls the run-event hook, which delivers user-job output
and then runs the orchestrator's `on_worker_done`; that places the goal in its project and
starts further runs. Memory operations stage an event in their own transaction;
`project_scope`, called by the scheduler, applies it later. Consolidation closes and writes
memories that retrieval reads, and works on identity facts beside proposals. Evolution and
hard forgets read approvals and, the former, `decide`.

## 2. Modules

| Module | Models | Kind |
|---|---|---|
| `PDP` | `decide`, `class_floor`, `resolve_level`, and the request `pdp_gate.evaluate` builds | operators |
| `PolicyInputs` | every request `decide` can tell apart, and every change of one control | state machine over `PDP`, checked against an order-free rule |
| `ExecutiveRun` | executor, graph, gate, approvals, kill switch, checkpointer as used | state machine, EXTENDS `PDP` |
| `Orchestrator` | plans and tasks of one goal, handlers in progress, workers as rows | state machine |
| `MemoryLedger` | what governance promises about statements and approvals | abstract specification |
| `Memory` | governance, event log and projection of one scope | state machine, implements `MemoryLedger` |
| `Consolidation` | `run_consolidation` and its six passes, in overlapping calls | state machine |
| `PeriodicJob` | `Scheduler.fire` of one job with a report per period | state machine |
| `Cadence` | `next_due` of the calendar cadences | functions and a clock that asks them |
| `UserJobs` | one user job: firings, its runs, the hook, boot reconciliation | state machine |
| `JobTable` | the jobs' rows, the live list and the loop over it | state machine |
| `Identity`, `Settings`, `Placement`, `RecallCache`, `Retrieval`, `Evolution`, `Lessons`, `Proposals`, `Sketches`, `KnowledgeGraph`, `Snapshots`, `Wisdom`, `Reflection` (over `Identity`), `Simulation`, `HermesProvider` | one component each | state machines |
| `Studio` | `Sketches` and `Simulation` together | properties |
| `Cognition` | `Snapshots`, `Wisdom` and `Reflection` together | properties |
| `MCExecutiveRun`, `MCMemory` | instantiations for TLC | models |
| `MCBackground` | composes `PeriodicJob`, `UserJobs`, `JobTable`, `Cadence`, `Consolidation` by EXTENDS | model |
| `MCHeartbeat` | composes `UserJobs`, `JobTable`, `Memory` with their fairness, by INSTANCE | model |
| `MCRecords` | composes the fifteen components above by EXTENDS | model |
| `PolicyInputs_proofs`, `ExecutiveRun_proofs` (with `PDP`), `Orchestrator_proofs`, `Memory_proofs`, `Background_proofs` (`PeriodicJob`, `UserJobs`, `JobTable`, `Cadence`, `Consolidation`), `Records_proofs` (`Identity`, `Placement`, `Settings`, `RecallCache`, `KnowledgeGraph`, `Sketches`, `Simulation`), `Learning_proofs` (`Evolution`, `Lessons`, `Proposals`), `Derived_proofs` (`Reflection`, `Wisdom`, `Snapshots`, `HermesProvider`, `Retrieval`) | theorems | proofs |

Two conventions hold throughout. An action is the code from one await that matters to the
next; what a coroutine carries over an await is part of its state. And where the code lets
two of its steps cross, the exception is not waved through by a weak property: a history
variable (`crossed`, `overlaps`, `late`, `leaks`, `blindly`, `unmarked`, `unbumped`, `astray`,
...) records exactly the event that excuses it, and the property holds for everything else.
Each such exception is a finding of section 5 when a comment or a doc of the repository
claims it away.

The components of a composing module share no state: what couples them in the program is
either inside one of them or a free choice of it. A behaviour of a composition therefore
chooses one component at its start and moves that one only; the state spaces add up and
each component still meets every one of its interleavings.

### PDP and PolicyInputs

`Decide` is `decide` return by return: integrity failures, kill, approval, class floor,
capability, egress, budget, dry run, and the self-modification gate. Amounts, hosts and
budgets appear as the comparison `decide` makes (`bigSpend`, `hostAllowed`, `budgetHard`).
`Evaluate` builds the request the agent's gate builds: the budget it passes is the
nothing-consumed default, and the capability grant names the Phase A tools.
`PolicyInputs` keeps one request as its state and one action per control, so the runs
explore every pair of requests that differ in one control. `AllowsExactly` compares the
cascade with `MayExecute`, a conjunction with no order.

### ExecutiveRun

A run is its row (`agent_runs.status`), its task (the coroutine driving it and the place
it stands at, with the locals it holds), its checkpoint, its approvals (one per cursor)
and its records.

- executor: `StartRun`, `Resume`, `Acquire` (semaphore), `Park`, `TailDone`, `Finish`,
  `HookDone`, `CancelTasks`/`CancelTask`/`CancelRow` (cancel is several steps in the code), `Stop`,
  `Exit`, `Boot` (`_recover`), `Crash`; the process is then gone, `down` after a crash,
  `stopped` after a drain;
- graph: `Hydrate`, then the `act` node as `ActReplay` (an observation exists),
  `ActFromApproval`, `ActDecideNothing`, `ActDecide` (the model's free choice), `Gate`
  (first evaluation), `Interrupt`, `Regate` (second evaluation), `Effect`, `Audit`,
  `ActReturn`; `Advance` is the step cap; then `Synthesize`;
- around: `DecideApproval`, `Lapse` and `ExpireApprovals`, `KillChange`.

Whether a resume value survives a crash before it is consumed is left open, as is
everything the language model says. The done callback that pops `_tasks` whichever task
it refers to is modelled.

### Orchestrator

One goal. `plan`, `task`, `run` are the rows' statuses. `handler` holds the coroutines in
progress: the hook of a run's park, the hook of a run's end, the sweep, one request of the
user. Every connection a handler opens is a step; locals a handler carries over an await
(`attempt`, `seen`, `todo`) are part of its state. `DecomposeGoal` and `InsertPlan` are one
transaction: its UPDATE sees the plans committed when it starts, so a plan another
decomposition inserts meanwhile stays live. `work` and `approved` are history variables.

A worker is reduced to its row and its events; `ExecutiveRun` shows what may happen inside.
That a worker parks and is resumed, ends once, and may be cancelled without an event is
what `ExecutiveRun` has its runs do.

### Memory and MemoryLedger

A client is one governance call in its transaction (`AddMemory`, `Invalidate`, the gates
and writes of a forget, `Commit`, `Abort`); a worker is one `project_scope` call, which
takes the scope's Redis key, reads the watermark and a batch by sequence number, applies
the rows, commits vectors and watermarks, and then applies the Redis operations it put
off. An event has its number when it is staged and is visible when its transaction
commits, so a projection can read past one. The key may expire under its holder
(`LockExpires`), a worker may fail or die, the process may restart, and a rebuild may reset
the watermark.

`MemoryLedger` says what a caller may rely on: a statement is recorded once, may be
closed, may be forgotten, and never comes back; every hard forget spends an approval of
its own. `LedgerHolds` is `Memory` implementing it, with the mapping `Life`/`Spent`: a
statement's life is read from its committed row, the spent approvals from the visible
events. An approval is not a row that is marked: it is spent when a visible event names
it, and the advisory lock is what makes two forgets ask that one after the other.

### Background

`PeriodicJob` has a firing per scheduler process (key, guard, envelope, body, close,
release), the manual endpoints (the reflections'), which run the body with neither key nor
guard, outages of Redis, in which a firing goes on without a key, and the end of a period in
between. `UserJobs` is the job's row against its runs: the run is started before the row
knows it, and the hook of an event reads, updates and delivers in several transactions. Any
of them may raise, which ends the hook and is only logged (`HookFails`); the UPDATE that
records a run and the boot's reconciliation may fail too (`RecordFails`, `ReconcileFails`),
and a cancel may reach the task while it is in the hook (`RunCancelled`). `JobTable` keeps
the rows, the live list and the iterator of the loop as an index into that list, as Python's
list iterator is one, so an entry removed before it makes it pass over another; `Without` is
the list rebuilt without a job, object by object. `Cadence` computes the next time with the
code's arithmetic, for every cadence `parse_cadence` accepts, and compares it with the first
later time that the cadence names, times being days and slots of a day in lexicographic
order. Its years have 365 days: the code clamps the day of the month at 28, so a leap day
only moves the later dates. `Consolidation` takes each pass as one transaction over
candidates read at its start; passes of two calls meet on rows.

### Records

| Module | Its steps follow |
|---|---|
| `Identity` | `propose_identity_fact` (`ReadLive`, `WriteFact`), `invalidate_identity_fact`, the identity half of the conflict pass (`ResolveReads`, `Resolves`) |
| `Settings` | `get_setting_cached` (`Asks`, `Queries`, `Keeps`), `set_setting` (`Commits`, `Drops`) |
| `Placement` | `place_goal` through both find-or-create pairs, the directories and the link; retitling; crashes and failing directories |
| `RecallCache` | recall's generation read, lookup, two queries, store; ingest and its bump; a Redis that restarts |
| `Retrieval` | channels, fusion, graph expansion, follow-up round, assembly, over memories that move meanwhile |
| `Evolution` | propose, evaluate in two transactions, activate through `Decide`, the retire-and-activate switch |
| `Lessons` | review with and without a lesson, weekly distillation, decay with its floor |
| `Proposals` | requests, which look for no title; three scans, which avoid the titles on the list they read; promotion in two transactions, either of which may fail |
| `Sketches` | create, update in two transactions, graduation over nested pool connections |
| `KnowledgeGraph` | the task of an episode: exact name, embedding, mint, link, three tries |
| `Snapshots` | themes, chapters, signals, assumptions: read, close, insert one by one |
| `Wisdom` | audit, distillation, mirror, embedding, each looking before it inserts |
| `Reflection` | `run_reflection` to its proposal and report, the two syncs of the endpoints to identity facts and the goal |
| `Simulation` | create, and `run_simulation`: status, model, episode, scenarios with status, memories |
| `HermesProvider` | `on_memory_write` call by call for both targets, prefetch threads, turns with a blank query |

## 3. Runs

| Run | Question | Bounds |
|---|---|---|
| `policy_inputs` | does the cascade allow exactly what it should, and never loosen under a tightening? | exhaustive over the comparisons |
| `executive_life` | one run through every path: gated effects, one record per step, final decisions, coming to rest | 1 run, 2 steps, 1 disturbance |
| `executive_contend` | two runs, one place in the semaphore, the panic button | 2 runs, 1 step, 1 disturbance |
| `goal_pipeline` | the hands-off life of a goal, sweep and completion racing | 2 plans of 2 steps, 4 workers, 1 retry |
| `goal_contend` | the same with presses, parks, cancels, crashes | 2 plans of 1 step, 3 workers, 1 disturbance |
| `memory_ledger` | does governance keep its ledger, does projection miss nothing, is the read model true at rest? | 2 memories, 1 approval, 2 calls, 2 workers, 4 events, 1 accident |
| `background` | what the scheduler drives | 2 processes, 3 firings, 2 periods, 2 troubles; 2 job runs and 2 disturbances; 2 jobs, 2 editors, 2 edits; 110 days over a year's end; 2 consolidation calls, 3 memories |
| `heartbeat` | what must eventually happen | 1 run of the job, 2 disturbances; 2 jobs; 1 memory, 2 workers, 3 events, 1 accident |
| `records` | the fifteen record components | 2 overlapping callers; 3 rows or versions, or 2 of what each counts, 1 fault; 3 turns; lists of 1 row |
| `grant_wakes` | refuted: "Grant AND deny both wake a parked run" (`api_server.py:1379`) | 1 run, no fault |
| `effects_once` | refuted: "exactly-once side effects across crashes and resumes" (`graph.py:13-14`) | 1 run, 1 fault |
| `memory_redis` | refuted: a forgotten statement leaves Redis when the watermark passes it (`memory.md:717`) | 1 memory, 1 worker, 1 accident |

Why the bounds are enough. Two runs and one semaphore place (two in the code) make a run
wait and make one run's end another's start. Two steps are what replay needs: a step that
was recorded and one that was not. One disturbance (crash, drain, cancel, node error, stray
resume) may fall between any two steps; the refuted statements need at most one. For the
orchestrator, two plans make one supersede the other, two steps make an order, one retry
makes a second attempt. The bounds `NumPlans` and `NumRuns` only stop new rows from being
inserted; `OnlyOrphansStall` names the states in which `NumRuns` is spent.

In `memory_ledger` two calls and one approval make a second forget find it spent, four
events let one number commit after a later one was projected, and two workers meet when a
key expires under its holder. In `background`, three firings of two processes are what a
key deleted by an expired holder takes; two disturbances of a job let a boot follow a hook
that failed and fail itself; two versions of two jobs let an edit be overtaken
by a deletion; the cadences are asked over the end of a year and of a short month. In
`records`, two callers are enough for every look-then-write; the third row, version or try
lets a third find what two left. A list of one row (50 in the code) is passed as soon as
there are two; three turns are one that asks, a blank one and one that asks again.

What the passing properties say, beyond their names:

- `KillBound`: after the panic button at most one effect per semaphore place still happens.
- `RowMatchesTask`: a running row is driven, a parked or unknown one is not; so no second
  driver can be spawned beside a live one, which is also what keeps the hash chain of
  `tool_calls` sequential.
- `OneRecordPerStep` is what is true instead of exactly-once.
- `RunsSettle`: a running run comes to rest: it ends or parks, across crashes and recovery,
  unless a clean drain stops the process, which nothing then starts again.
- `OnlyOrphansStall`: the one way a hands-off pipeline stalls is a worker that ends before
  the UPDATE that stores its `run_id`; its hook finds no task.
- `NothingSkipped`: below the watermark everything was projected, except what was
  still uncommitted when a projection read past its number (`late`).
- `ReadModelTrue`: with nothing in progress and the log drained, Redis and vectors say what
  the rows say, accidents on that memory aside (`astray`).
- `DeliveredOnce`: output is delivered at most once unless two events of the run were
  handled together; once quiet, the run the row points at has its output and its status,
  unless its event came before the row knew it, two events crossed, or its last hook ended
  early and no boot has replayed it.
- `FiringsBounded`, `ReportsAndEnvelopes`: firings that overlap, and reports beyond one a
  period, are paid for by keys that expired, Redis outages and runs without a guard, one each; an
  envelope is running exactly while a firing will close it or when its close was lost.
- `LiveMatchesTable`: list and table agree on a job nobody edits, unless two edits raced;
  and a tick reaches every due job, unless the list closed up behind the iterator.
- `PassesSound`: what passes close has an open heir, ties of the creation time aside, and
  what they derive is derived once, overlaps aside.
- `BootDelivers`, `DueFires`, `LogDrains` are the liveness of the background. A boot delivers
  what earlier hooks failed to, unless its own replay is cut off or the row moves on.
- `VersionsSound`: an active version that was judged against the one it replaced is not
  worse than it, unless an evaluation came late; in it and in `LessonsSound`,
  what should be one is one, and one more for each overlap.
- `ProposalsSound`: an opportunity becomes one goal, and one more each time a sweep took it
  out of another's hands or its resolution was lost after the goal was committed; open rows
  of one title are one, and one more for each whose maker had not been shown it.
- `HermesKeepsUp`: the notes under the target `memory` have a live memory; what is under
  `user` makes none. The cached block is that of the last turn that asked.
- `ContextNeverWeakens`: the strongest live fact
  gives way only to one as strong; `HomesSound`: a goal keeps its project, and its
  directories exist, are being made, or were lost to a fault.

Deadlock is not checked in the runs where the system may stop: all runs ended and every
disturbance spent is a legal rest, and so is a component whose bound on calls is spent.

Each property of a passing run has a mutant (`PROJECT.json`, "mutants"): an operator
beside the one it changes, with a bug somebody could write, which the run then catches.

### Fairness

Weak fairness of a coroutine's own steps: the event loop runs every ready coroutine. Strong
fairness of `Acquire`: `asyncio.Semaphore` is first in, first out, so a waiter is not passed
over for ever. Weak fairness of `Boot` after a crash only (`up = "down"`): the service unit
has `Restart=on-failure` (`deploy/curlyos-api.override.conf:11`), so a process that drained
and left stays `stopped` until an operator starts it, and a crash in the middle of a drain
counts as stopped. That it is the unit which runs the process is assumed; a process started
by `start_api_server.py` has nobody to restart it. In the orchestrator, weak fairness of
every handler's steps and of a worker's end, which `RunsSettle` justifies for runs that do
not park. In `heartbeat`: the hook's steps and the boot's reconciliation, whose failures are
bounded (`MaxDisturbances`); the loop wakes (`Wakes`) and a firing it awaits returns
(`FireReturns`): `fire` catches what a job's function raises, and that the function returns
at all is assumed, since one that hangs stops the loop in the code too; a started
transaction goes on to its end (`ForgetRedact`, `Commit`); the scheduler keeps calling
`project_scope` (`Acquire`) and a call goes on (`WorkerStep`); the key of a worker that is
gone times out (`LockExpires`, only then). Nobody else owes anything: not the user, not the
clock that lapses approvals or makes a job due, not the model, not a fault.

## 4. Proofs

`tlapm` checks the following for every value of the constants.

| Theorem | Says |
|---|---|
| `TypeCorrect` | `Spec => []TypeOK` of `ExecutiveRun` |
| `EffectsAreGated` | no effect that needs a person happens without a granted approval of its class at its cursor |
| `RowsMatchTasks` | rows and tasks agree |
| `DecisionsAreFinal` | an approval keeps its action and, once decided, its decision |
| `RecordedOnce` | a step has at most one audit row, and an effect without one belongs to a task that was cut short or is about to write it |
| `KillIsBounded` | after the panic button at most one effect per semaphore place still happens |
| `OrchestratorTypes` | `Spec => []TypeOK` of `Orchestrator` |
| `ApprovalFirst` | no worker is started for, or bound to, a plan that was never approved |
| `PlansNeverGoBack` | a plan's status only moves forward, whatever a handler read before it writes |
| `StepsInOrder` | left alone, one worker per plan, and none for a step before all earlier ones are verified |
| `CreditedToItsRun` | left alone, a completed task rests on the run its row names, and that run completed |
| `RetriesEnd` | left alone, at most `MaxAttempts + 1` workers per task |
| `DoneForGood` | left alone, a plan that is done has nothing left to do |
| `OnlyGrantOpens` | what the gate holds back, only a granted approval opens |
| `KillStopsAll` | killed or unreadable, the gate allows reads only |
| `CascadeIsTheRule` | `decide` allows exactly what the order-free rule allows |
| `TighteningHolds` | no change that only tightens controls lets more happen |
| `GovernanceImplements` | `MemorySpec => LedgerHolds`: governance refines `MemoryLedger` |
| `ReadsEveryEvent` | the projection skips no committed event but those still open when it read past them |
| `ReadModelFollowsTheRows` | at rest Redis and the vectors are what the rows say, accidents aside |
| `FiringsHold`, `ReportsHold` | firings that overlap and reports of a period are bounded as the run says; envelopes end with their firings |
| `OutputsDelivered` | a job's output is delivered once, and its row settles on its last run, but for events too early or crossed and for hooks that ended early |
| `ContextHolds` | the strongest live identity fact only gives way to one as strong |
| `HomesHold` | a goal keeps its home, and its home's directories are accounted for |
| `SettingFresh` | no cached setting is older than the TTL |
| `RecallHolds` | no recall misses what an ingest had answered for before it began, but for the Redis failures recorded |
| `VersionsHold` | a prompt version is no worse than the baseline it replaced, unless figures changed during or after an activation; one is active, and one more for each overlapping switch |
| `LessonsHold` | a validated lesson rests on three outcomes, a topic has one lesson, the overlapping calls recorded aside |
| `GraphHolds` | the mentions of one name converge on one node, overlapping mints and failed lookups counted; edges join nodes |
| `JobTableHolds` | a job that was not edited by two requests together is in the live list as its row says, once, or not at all; a tick serves all that was due, unless the list closed up behind it |
| `CadencesHold` | the next time is the first after now that the cadence names, for any slots and days |
| `PassesHold` | what consolidation closes has an open heir, ties of the creation time aside, and what it derives is derived once, overlaps aside |
| `CognitionHolds` (`ReflectionHolds`, `WisdomHolds`) | inferred facts stay hypotheses, a goal shows the newest report, a principle is distilled and mirrored once, but for the crossings, slips and failures recorded |
| `SnapshotsHold` | what is on show is one run whole, overlaps and broken runs counted; chapters divide the episodes they read |
| `HermesHolds` | the mirror has a live memory of every note the built-in memory holds under `memory`, and the block is of the last turn that asked, but for the failures, misdirected hits and unordered recalls recorded |
| `RetrievalHolds` | fusion agrees with its channels, no stage revives what the mode must not show, the context keeps to its budget and shares |
| `StudioHolds` (`SketchesHold`, `SimulationHolds`) | a sketch graduates once, a simulation shows and tells one execution, overlaps, restarts and faults counted |
| `ProposalsHold` | an opportunity becomes one goal and a title is open once, and one more for each lapse and each repeat counted |

Assumptions: the named ASSUMEs of the modules, as weak as the proofs allow. The step cap,
the numbers of disturbances and the bounds are naturals, the tools have classes; the
scheduler processes, the jobs, the memories, the promotion sweeps, and the callers of
evolution, lessons and the studio are finite sets, because the proofs count them; "none" is neither
an approval nor a worker nor a statement's id nor a job, and no sketch has the empty id. What
consolidation starts from was made no later than it begins, and `DistilLimit` and the other
limits are naturals. Retrieval ranks at most 900 ids, beyond which two ranks may have one
score (10^6 / (60 + rank), in whole units; the LIMITs of the code are 50 and less). TLC
evaluates them in the runs.

### PolicyInputs

`LevelIs` reads the clamp without an order (suggest-only if either level is, confirm-each if
either is or the class has a floor), `VerdictIs` the verdict, class by class, from that level
and the tests before it (`Barred`); both theorems are then a case split. `Requests` bounds
nothing the code does not: every combination of the fields `decide` reads is in it.

### ExecutiveRun

`GatedEffects` is not inductive: whether the effect about to happen is
gated was decided earlier, by an evaluation whose approval lives on in a local of the
`act` node. The invariant adds what each place knows:

    IInv == TypeOK /\ RowMatchesTask /\ NodeAgrees /\ LocalsAgree /\ GatedEffects

`NodeAgrees` ties a task's place to the row and the checkpoint; `LocalsAgree` says what
the node's locals imply about the approval row at each place (at the effect, an action that
needs a person has a granted approval, which no other step can take back since decisions
are final). The proof is one lemma per conjunct and action; `Inductive` puts them together
and the theorems follow. `RowMatchesTask` is needed because a second driver would break
`LocalsAgree`.

`RecordInv` adds `RecordsAgree` for `OneRecordPerStep`: from the gate to the audit row a step
has no record, because the replay guard that opened the node found none and nobody else
drives the run. `KillInv` counts for `KillBound`: effects already allowed (`Armed`) and
those that happened since the button fit in the semaphore together, since an armed run holds
a place of it and the gate arms none while the button is down.

### Orchestrator

`NothingBeforeApproval` speaks of the worker of a run, and the plan it is started for was
read several transactions earlier. The invariant follows the plan from the read that
admitted it to the worker:

    IInv == TypeOK /\ OpenWasApproved /\ BoundWasApproved /\ CarriedWasApproved
            /\ NothingBeforeApproval

`OpenWasApproved`: an approved, executing or done plan is in the history variable
`approved`. `BoundWasApproved`: so is the plan of a task with a worker.
`CarriedWasApproved`: so is the plan in the locals of a request, a sweep or a hook, at the
places where it is about to use it. `approved` only grows, so a stale local stays
covered after its plan is abandoned. `PlansNeverGoBack` is read off the guards of the
UPDATEs, with the same invariant for the types.

The hands-off properties need to know where a plan's pipeline is. `PipeInv` says, until the
first disturbance, that it is in one hand (`OneHand`): a handler between reading its next
step and recording the worker, a worker its task knows, or the hook of that worker's end
from the event to the verdict. No lock keeps two hands off a plan; one hand makes the next
and lets go. Around it:

- `LeftAlone`, `Workers`: only the sweep and the hooks of ends act, a worker at work is
  known to its task or about to be;
- `InOrder`, `Bindings`: steps before one that was begun are completed, and a row says of
  its worker what is so;
- `Dispatching`, `Judging`, `PlansSound`: what each place of a handler implies about the
  rows it has read, at the moment it will write them;
- `Counted`: a task's workers number its attempts, one more once it is not pending, and one
  more while a handler is about to record one. Without the last term the count is not
  inductive: the run exists before its task knows.

A step either writes no task (`Frame`, `LetsGo`, `Advances`), starts or ends a worker
(`StartsPipe`, `RunEndsPipe`), or writes rows of the plan it has in hand (`Writes`); each
action is an instance of one of them. Parks, cancels, presses and crashes end the premise
`HandsOff`, and their effect on these properties is a finding, not a theorem.

### Memory

The refinement maps the committed rows to `life` and the approvals that visible events
name to `spent`. Its invariant is `GovInv == RowInv /\ LogInv /\ TxInv`: a call in
progress finds its row as it read it (`Sound`), its staged event is the one
it staged and not yet visible (`Staged`), and two calls that have staged hold different
rows and events, two that are past their gates different approvals (`Apart`: the row and
advisory locks). A commit is then `Record`, `Close` or `Forget` of the ledger, and every other step,
projection included, a stutter.

`NothingSkipped` speaks of the committed watermark; what will move it is in the locals of a
call. `PassInv` says of each pass that all up to its last event was found by it, was open
when it read, was let pass before, or, unless it replays, is covered already
(`BatchPassed`). A replay takes `covered` back to what it projects itself, under the feet of
a pass that read before it, when the lock had expired; `ReplayPassed` says that what the
replay found covers what that pass takes for granted. `ReadInv` has what the row lock on the
watermark gives: of the calls that have written it or replay, one at a time. Sequence numbers
are drawn at the INSERT and seen at the commit, so nothing stronger holds than with `late`.

`ReadModelTrue` holds at rest; the invariant holds everywhere. `Agree(r, log, vis, m, seen,
kept, vec)` says what a read model that has seen some events of `m` must show, given the row
as it is now; it is asserted of what a pass would leave if it committed (`PassAgrees`), of
what the operations it still owes Redis will leave (`DebtAgrees`, through `Kept`) and, when
nobody owes any, of what is there (`RestAgrees`). A projector works on a row fetched before it
waits for the embedder: `Fetched` says what such a row may still be wrong about, and that an
event the pass has not seen will put it right. `HistInv` ties rows and committed events:
a closed row has a closing event, a redacted one an event that names its approval, a row
was closed by nothing else unless the endpoint that stages no event did it (`Logged`). `Calm`
is what the lock gives at a memory no accident has touched: whoever is at work holds it.
A replay answers for itself whatever happens meanwhile, because its flush and its vectors
overwrite what was there (`Rebuilds`).

### The others

`PeriodicJob`: the claims are counts, and the invariant is an account. `CountInv`: the firings
under way are at most `leaks` and the one the key covers; the reports written, those on
their way past the guard and the manual ones are at most `1 + leaks + blindly`.
`OwnerInv`: an envelope that will be closed is owned by one firing. `Counted` supplies what
one member more or less does to a cardinality.

`UserJobs`: `JobsInv` says what each hook and firing in progress may still do to the one row
and the inbox: a run being started is nobody's last run yet (`NotRecorded`), a hook that
is alone with its run finds the inbox empty when it is about to insert (`HooksAlone`), and
an ended last run is settled or somebody is on the way (`Settling`), unless it is in
`Upset`, the union of the three history sets `early`, `crossed` and `cut`; a boot clears
the first and the last for the run it replays.

`RecallCache`: `EntriesServe` compares an entry with the recalls that may still take it,
generation by generation, and `OwesAgree` the recalls with one another; `GensCounted` keeps
an ingest's bump ahead of every entry that lacks it. Its memories are a finite set, because
the generation is bounded by a count.

`Identity`: `ContextNeverWeakens` is a statement about steps; the invariant says that a proposal
about to write closes only a fact it found weaker (`ProposalInv`), and that the pairs a
pass has left still contain, for each fact it may close, a live one at least as strong
unless an invalidation came in between (`PassInv`).

`Placement`: `RowKnown` (a call past the row knows it to exist), `RowsServed` (a row has
directories, had them given up, or has a call about to make them), `HomesCreated` (homes
are rows). `Settings`: the value a read got was the stored one at some moment since its
stamp, which is taken before the query (`HeldSince`); the read in progress carries that
(`TaskInv`) and then the entry (`EntryInv`).

`Evolution`: evaluation and activation write what they read in an earlier transaction, so the
invariant speaks of what is carried. `JudgedFairly` and `ScoredFairly`: a baseline keeps the
rate a version was judged by, or is in `late`; `ActivePassed`: what is active or past the
gate has a passed evaluation or is in `late`, the gate being `Decide`, which `EvalGate` shows
to refuse the rest. `SwitchesCounted`: what became active behind the snapshot of a switch,
together with the other switches about to commit, is within `overlaps`; each of them may
add one active version.

`Lessons`: outside `twice` a lesson's support is the number of its outcomes (`Supported`), and
the lessons of a topic and the calls about to write one are counted together
(`CreationsCounted`). Lessons are numbered in the order they are written (`Numbered`).

`Proposals`: of every open title a scan knows that it saw it or that it could not (`SeenAll`:
`hidden` are those beyond its list), as long as nobody added to its table; so a row that
repeats one is counted (`RepeatsCounted`). For the promotion the invariant is an account,
`PromotionInv`: the goals an opportunity became, with the sweeps about to make it one
(`Takers`), are within its `lapses` and one (`Room`), and within its `lapses` alone while it is
open and in nobody's hands (`Spare`), which is what a sweep that reads it then spends.

`KnowledgeGraph`: a task that is about to mint looked in two queries, and what they cannot
have seen is what was added since (`rows`). `LookedWell`: without an error, none of the
nodes it looked through is an embedded one of the name; `BareCounted`: the others, without an
embedding, were counted in `blind` when they were minted. So a mint that nothing excuses
finds, when nobody minted since, as many nodes as `blind` says, and adds the one.

`Sketches`: of the graduations of a sketch under way one began while there was no other
(`OneForemost`). While it has not made its project, and while the sketch has no pointer and
it is not about to write one (`Settled`), every project is in `rivals` or `unmarked`
(`FewMade`). `Simulation`: an execution read the status before anything was stored
(`ExecutionOK`), so all but one that stored are in `rivalled` (`OneUnrivalled`); what is
stored and not told is before an execution or behind a fault (`UntoldIsComing`), and an
episode without scenarios likewise (`SourcedIsComing`).

`JobTable`: of a job outside `raced` one request at most is under way, and it knows the row
(`Knows`); when none is, the list agrees with the row (`Agrees`). `InStep` says that, unless
the list has closed up behind it, the iterator stands at the object it is firing and
nothing that waits is before it. The step that matters takes a job out of the list:
`WithoutKeeps` says where each object that stays has gone, that none is lost or doubled,
and that nothing moves before the first one taken out.

`Cadence`: the invariant is the types; the work is arithmetic. Every day is the date of one
year, month and day and back; the days before each month follow from exhibiting the twelve
values of the recursion; a candidate that is not after now is followed by the next day,
weekday or month, and nothing the cadence names is between.

`Consolidation`: `LinesUp` says that an heir is no older than what was closed for it, and that a
chain of heirs goes up until it ends in an open memory, in one closed for its own sake or
in a tie; `PassesSound` then takes the latest-made heir. `WorkOK` says what each pass may
believe of its candidates; `StoresApart` and `HandsAre` say that an item outside `doubled` is
in one hand at most while it is not derived, and in none after.

`Reflection`: `ReportsProposed` and `CallAgrees`: a candidate that is sure was proposed, clamped,
before its report was stored, so when a sync finds no live fact somebody invalidated it
or the report proposed nothing itself. `Landing`: the newest deep report has landed or
whoever stored it is on the way to the goal, and nobody on it holds an older one.
`Wisdom`: `Looked` compares what a call has in hand with what was inserted since it looked;
`SyncComplete` says of a sync in progress what `MirrorsComplete` says of one that ended, and
`BareExcused` that a mirror without its vector is about to get one, or failed to.

`Snapshots`: the runs on show and those inside their write are at most `1 + amid`
(`FewWriters`); with none overlapping and none broken one maker is alone or what is shown is
the whole of the last run (`Whole`, `Alone`). The chapters a run has read divide the episodes
(`LastRead`), which is the loop of `compose_chapters` followed episode by episode: a segment
starts at its own first episode, a shift or the first of all, and ends with the least length.

`HermesProvider`: only the note a write is about to ingest lacks a memory, and a hit that is
about to be invalidated is live; which notes that leaves bare the step records
(`MirrorInv`). While no recall ran beside another, the only one under way is that of the
last turn that asked (`PrefetchInv`); a blank turn moves neither.

`Retrieval`: what a query, the walk or the follow-up round can find was visible at that step,
and what was visible once since the start is in `usable` (`VisibleOK`, `RanksOK`); the later
stages choose and reorder (`ItemsOK`, `ResultOK`). `FusionAgrees` is arithmetic: different ranks
have different scores, so an item that dominates another has the higher sum, whatever
recency makes of the two, and is sorted before it. The packing loop is followed item by
item (`Chosen`): what it has taken fits the budget and each share; moving the second best to
the end is a permutation.

Where a definition is a recursion (`Without`, `DaysBefore`, the segments of `compose_chapters`,
the packing loop) the proof exhibits a function that satisfies it, and reasons about its
values by the least index that would be a counterexample, which `WFMin` supplies for sets of
naturals. The library's induction theorems take a predicate as a parameter, which the
installed provers cannot instantiate, hence the detour. Sorting is a CHOOSE of an order
among the permutations; `OrderExists` shows by the same means that a finite set under a
total order has one.

### Only model-checked

Every invariant and every action property of the passing runs is the statement of a theorem.
The runs alone show liveness under fairness (`RunsSettle`, `OnlyOrphansStall`, `BootDelivers`,
`DueFires`, `LogDrains`), which is out of the prover's reach, as ENABLED is, and the three
statements they refute. No module here declares a recursive operator.

## 5. Findings

Thirty-five, quoted in `PROJECT.json`. Three have a run that shows them (section 3,
"refuted"). The others were met while translating; where a history variable of a module
records the case, the property that excepts it is named.

- Executive: a run can leave `cancelled` (`runner.py:258`); a queued run without a
  checkpoint is failed at recovery (`runner.py:118`); cancel fires no hook, so the task
  of a cancelled worker stays running (`runner.py:186`). `CancelledIsFinal` and
  `RestartFailsNoRun` state what the comments say.
- Orchestrator: a stale hook reopens a completed task (`orchestrator.py:536`, stated by
  `TerminalStays`); a second press of dispatch starts a second step beside the first
  (`orchestrator.py:276`).
- Goals: an opportunity whose resolution fails after its goal was created is promoted again
  (`orchestrator.py:365`, `ProposalsSound`).
- Scheduler and jobs: double delivery (`user_jobs.py:174`, `DeliveredOnce`); manual runs
  beside the guard (`scheduler.py:211`, `ReportsAndEnvelopes`); edits in the middle of a
  tick (`user_jobs.py:297`, `LiveMatchesTable`).
- Memory: overlapping passes and ties (`consolidation/__init__.py:1156`, `:288`,
  `PassesSound`); a pass whose INSERT can never satisfy its foreign key (`:961`); the budget shares
  and the graph signal of retrieval (`retrieval/__init__.py:447`, `:649`).
- Lessons: the floor that never retires (`decision_loop/__init__.py:612`), retired lessons
  that take evidence (`:137`). Evolution: a held version that passes stays held, and a slow
  evaluation can leave none active (`evolution.py:213`).
- Records: the unused threshold of identity (`identity/__init__.py:24`); the studio's soft
  invalidation, ladder and one-way door (`studio/__init__.py:445`, `:193`, `:390`,
  `StudioSound`); names with inner spaces in the graph (`knowledge/graph/__init__.py:643`);
  mirrors left without a vector (`api_server.py:2519`, `CognitionSound`); an empty answer that
  empties a snapshot (`meta/__init__.py:688`); candidates that become canonical unclamped
  (`api_server.py:2442`, `InferredStaysHypothesis` of `Reflection`); an event staged on a
  returned connection (`reflection/__init__.py:376`); scenarios that are never told, and
  executions that overlap (`workflows.py:225`, `StudioSound`); the executor nobody calls
  (`simulation/__init__.py:184`).
- Hermes: the twentieth turn, the unordered prefetches and the block a blank turn leaves
  (`plugin.py:798`, `:443`, `:440`), the target nobody asks when an entry is replaced or
  removed (`:694`); `HermesKeepsUp`.

## 6. Plan

Done: the policy and executive core, the orchestrator with its hands-off pipeline, memory
with its abstract ledger and the refinement, the background with liveness, the records, and
theorems for every safety property of the passing runs. What would come next, in this order:

1. an abstract specification of a run as the orchestrator sees it (a row that parks,
   resumes, ends once), implemented by `ExecutiveRun`, and `Orchestrator` over it;
2. the parts listed as partly modelled whose state changes are single statements now
   (mood and allocation, the ingest of reflection's findings), once something reads them;
3. errors of the executor's own UPDATEs, with the recovery the code would need.

## 7. Not modelled, and why

Language-model output is a free choice wherever it is asked. Prompts, parsing, wording,
notifications and the content of events are data no property is about. Tool bodies and
the sandbox are I/O and string checks; a tool is its action class. The hash chain's
digests are left out: that its read and append do not interleave is `RowMatchesTask`.
Evaluation, identifiers and language-model access have no state machine. Migrations,
deployment and the import scripts are run alone by an operator. Of reflection, the ingest
of its findings, the monthly review of mental models and the refresh script (it deletes
all reports first) are left out; mood, allocation and load are single inserts and
statistics; listings are reads. Errors of the executor's own UPDATEs (`_park`, `_finish`)
are not modelled: the run then stays running until the next start. Of several scopes,
users or goals only one is modelled where the code keys everything by it and nothing
crosses. Of Hermes' own memory tool, which is outside the repository, the model assumes
that it holds no entry twice.
