------------------------------- MODULE UserJobs -------------------------------
(***************************************************************************)
(* One user-defined job (orchestration/user_jobs.py): its firings, by the    *)
(* scheduler and by run-now, the Executive runs they start, and the run-event *)
(* hook that keeps the job's row in step and delivers a finished run's output *)
(* to the inbox.  The row remembers one run, the last it was told of; the     *)
(* hook finds the job of a run through it.                                    *)
(***************************************************************************)
EXTENDS Naturals, FiniteSets

CONSTANTS
    NumRuns,      \* bound: runs started for the job
    MaxDisturbances  \* bound: failed starts, records and hooks, cancels, resumes, restarts

UserJobsAssumption == NumRuns \in Nat /\ MaxDisturbances \in Nat

VARIABLES
    job,        \* scheduled_jobs: last_status and last_run_id (0: null)
    jobRun,     \* agent_runs.status of the runs the job started
    firing,     \* the job's fn in progress, by who fired it: the run to record, or 0
    hook,       \* deliver_run_output in progress: where it is and what it read
    inbox,      \* inbox_items per run
    boot,       \* reconcile_deliveries still has to read the job's last run
    early,      \* history: runs whose event came before the job knew of them
    crossed,    \* history: runs two of whose events were in progress together
    cut,        \* history: runs whose latest hook ended early, and not by a restart
    disturbances

jobVars == <<job, jobRun, firing, hook, inbox, boot, early, crossed, cut, disturbances>>

Runs == 1..NumRuns
Triggers == {"tick", "now"}
Delivered == {"completed", "failed"}
RunStates == {"none", "running", "parked", "completed", "failed", "cancelled"}
Hooks == Runs \X {"parked", "ended", "reconcile"}
NoHook == [at |-> "idle", saw |-> "none"]
Busy(r) == {h \in Hooks : h[1] = r /\ hook[h].at # "idle"}

JobsInit ==
    /\ job = [status |-> "none", run |-> 0]
    /\ jobRun = [r \in Runs |-> "none"]
    /\ firing = [f \in Triggers |-> 0]
    /\ hook = [h \in Hooks |-> NoHook]
    /\ inbox = [r \in Runs |-> 0]
    /\ boot = FALSE
    /\ early = {} /\ crossed = {} /\ cut = {}
    /\ disturbances = 0

Disturb == disturbances < MaxDisturbances /\ disturbances' = disturbances + 1

\* fn: start_run inserts the run, which is being driven from then on.
StartRun(f, r) ==
    /\ firing[f] = 0
    /\ jobRun[r] = "none" /\ \A q \in 1..(r - 1) : jobRun[q] # "none"
    /\ jobRun' = [jobRun EXCEPT ![r] = "running"]
    /\ firing' = [firing EXCEPT ![f] = r]
    /\ UNCHANGED <<job, hook, inbox, boot, early, crossed, cut, disturbances>>

\* fn: _mark(..., "running", run_id).
RecordRun(f) ==
    /\ firing[f] # 0
    /\ job' = [status |-> "running", run |-> firing[f]]
    /\ firing' = [firing EXCEPT ![f] = 0]
    /\ UNCHANGED <<jobRun, hook, inbox, boot, early, crossed, cut, disturbances>>

\* fn: no runner, or start_run raises; the row forgets its last run.
StartFails(f) ==
    /\ firing[f] = 0
    /\ Disturb
    /\ job' = [status |-> "failed", run |-> 0]
    /\ UNCHANGED <<jobRun, firing, hook, inbox, boot, early, crossed, cut>>

\* fn: the _mark after start_run raises; the run goes on without its job.
RecordFails(f) ==
    /\ firing[f] # 0
    /\ Disturb
    /\ firing' = [firing EXCEPT ![f] = 0]
    /\ UNCHANGED <<job, jobRun, hook, inbox, boot, early, crossed, cut>>

\* The runner's _emit_run_event begins the hook of an event.
Begin(r, kind) ==
    /\ hook[<<r, kind>>].at = "idle"
    /\ hook' = [hook EXCEPT ![<<r, kind>>].at = "owner"]
    /\ crossed' = IF Busy(r) # {} THEN crossed \cup {r} ELSE crossed
    /\ cut' = cut \ {r}

\* Runner._park and _finish.  The UPDATE of _park looks for a running row, that
\* of _finish for none, and both raise their event: so does the task of a
\* cancelled run that the cancel did not reach.
Driven == {"running", "cancelled"}

RunParks(r) ==
    /\ jobRun[r] \in Driven
    /\ jobRun' = [jobRun EXCEPT ![r] = IF @ = "running" THEN "parked" ELSE @]
    /\ Begin(r, "parked")
    /\ UNCHANGED <<job, firing, inbox, boot, early, disturbances>>

RunEnds(r, s) ==
    /\ jobRun[r] \in Driven
    /\ jobRun' = [jobRun EXCEPT ![r] = s]
    /\ Begin(r, "ended")
    /\ UNCHANGED <<job, firing, inbox, boot, early, disturbances>>

\* Resuming and cancelling raise no event.
RunResumes(r) ==
    /\ jobRun[r] = "parked"
    /\ Disturb
    /\ jobRun' = [jobRun EXCEPT ![r] = "running"]
    /\ UNCHANGED <<job, firing, hook, inbox, boot, early, crossed, cut>>

\* A hook ends before it is through, and nobody repeats it.
EndsEarly(h) ==
    /\ hook[h].at # "idle"
    /\ hook' = [hook EXCEPT ![h] = NoHook]
    /\ cut' = cut \cup {h[1]}

\* Runner.cancel: the task it reaches, if any, may be in the hook of an event, even
\* that of the run's end; the row is written only if the run has not ended.
RunCancelled(r) ==
    /\ jobRun[r] # "none"
    /\ Disturb
    /\ jobRun' = [jobRun EXCEPT ![r] = IF @ \in {"running", "parked"} THEN "cancelled" ELSE @]
    /\ \/ \E kind \in {"parked", "ended"} : EndsEarly(<<r, kind>>)
       \/ UNCHANGED <<hook, cut>>
    /\ UNCHANGED <<job, firing, inbox, boot, early, crossed>>

\* deliver_run_output: SELECT ... WHERE last_run_id = run_id.
FindOwner(h) ==
    /\ hook[h].at = "owner"
    /\ hook' = [hook EXCEPT ![h] = IF job.run = h[1] THEN [@ EXCEPT !.at = "read"] ELSE NoHook]
    /\ early' = IF job.run # h[1] /\ \E f \in Triggers : firing[f] = h[1]
                THEN early \cup {h[1]} ELSE early
    /\ UNCHANGED <<job, jobRun, firing, inbox, boot, crossed, cut, disturbances>>

ReadOutcome(h) ==
    /\ hook[h].at = "read"
    /\ hook' = [hook EXCEPT ![h] = [at |-> "sync", saw |-> jobRun[h[1]]]]
    /\ UNCHANGED <<job, jobRun, firing, inbox, boot, early, crossed, cut, disturbances>>

\* _mark(job_id, run_status, run_id): by the job's id, whatever its row says now.
SyncJob(h) ==
    /\ hook[h].at = "sync"
    /\ job' = [status |-> hook[h].saw, run |-> h[1]]
    /\ hook' = [hook EXCEPT ![h] =
            IF hook[h].saw \in Delivered THEN [@ EXCEPT !.at = "check"] ELSE NoHook]
    /\ UNCHANGED <<jobRun, firing, inbox, boot, early, crossed, cut, disturbances>>

\* mutant: nothing is looked for before the insert
CheckInbox_Always(h) ==
    /\ hook[h].at = "check"
    /\ hook' = [hook EXCEPT ![h].at = "insert"]
    /\ UNCHANGED <<job, jobRun, firing, inbox, boot, early, crossed, cut, disturbances>>

\* SELECT 1 FROM inbox_items WHERE run_id; nothing makes the pair unique.
CheckInbox(h) ==
    /\ hook[h].at = "check"
    /\ hook' = [hook EXCEPT ![h] = IF inbox[h[1]] = 0 THEN [@ EXCEPT !.at = "insert"] ELSE NoHook]
    /\ UNCHANGED <<job, jobRun, firing, inbox, boot, early, crossed, cut, disturbances>>

InsertItem(h) ==
    /\ hook[h].at = "insert"
    /\ inbox' = [inbox EXCEPT ![h[1]] = @ + 1]
    /\ hook' = [hook EXCEPT ![h] = NoHook]
    /\ UNCHANGED <<job, jobRun, firing, boot, early, crossed, cut, disturbances>>

\* A statement of deliver_run_output raises: the exception is logged, the hook ends.
HookFails(h) ==
    /\ Disturb
    /\ EndsEarly(h)
    /\ UNCHANGED <<job, jobRun, firing, inbox, boot, early, crossed>>

HookStep(h) == FindOwner(h) \/ ReadOutcome(h) \/ SyncJob(h) \/ CheckInbox(h) \/ InsertItem(h)

\* A process dies or drains and another starts: every coroutine ends, the runner
\* drives its running runs again and only then are deliveries reconciled.
Restarts ==
    /\ Disturb
    /\ firing' = [f \in Triggers |-> 0]
    /\ hook' = [h \in Hooks |-> NoHook]
    /\ boot' = TRUE
    /\ cut' = cut \ {job.run}
    /\ UNCHANGED <<job, jobRun, inbox, early, crossed>>

\* mutant: the run the row points at is not replayed
Reconcile_Nothing == boot /\ boot' = FALSE
    /\ UNCHANGED <<job, jobRun, firing, hook, inbox, early, crossed, cut, disturbances>>

\* reconcile_deliveries replays the job's last run, as if its events came now.
Reconcile ==
    /\ boot
    /\ boot' = FALSE
    /\ early' = early \ {job.run}
    /\ IF job.run # 0 THEN Begin(job.run, "reconcile") ELSE UNCHANGED <<hook, crossed, cut>>
    /\ UNCHANGED <<job, jobRun, firing, inbox, disturbances>>

\* The jobs do not load or their last runs cannot be read: no replay at this boot.
ReconcileFails ==
    /\ boot
    /\ Disturb
    /\ boot' = FALSE
    /\ cut' = cut \cup ({job.run} \ {0})
    /\ UNCHANGED <<job, jobRun, firing, hook, inbox, early, crossed>>

JobsNext ==
    \/ \E f \in Triggers : (\E r \in Runs : StartRun(f, r)) \/ RecordRun(f)
                            \/ RecordFails(f) \/ StartFails(f)
    \/ \E r \in Runs : RunParks(r) \/ RunResumes(r) \/ RunCancelled(r)
                        \/ \E s \in Delivered : RunEnds(r, s)
    \/ \E h \in Hooks : HookStep(h) \/ HookFails(h)
    \/ Restarts \/ Reconcile \/ ReconcileFails

\* The event loop runs every coroutine on.
JobsFairness ==
    /\ WF_jobVars(Reconcile)
    /\ \A h \in Hooks : WF_jobVars(HookStep(h))

JobsSpec == JobsInit /\ [][JobsNext]_jobVars /\ JobsFairness

-------------------------------------------------------------------------------
JobsTypeOK ==
    /\ job \in [status : RunStates, run : 0..NumRuns]
    /\ jobRun \in [Runs -> RunStates]
    /\ firing \in [Triggers -> 0..NumRuns]
    /\ hook \in [Hooks -> [at : {"idle", "owner", "read", "sync", "check", "insert"},
                          saw : RunStates]]
    /\ inbox \in [Runs -> Nat]
    /\ early \subseteq Runs /\ crossed \subseteq Runs /\ cut \subseteq Runs

Quiet == ~boot /\ (\A h \in Hooks : hook[h].at = "idle") /\ (\A f \in Triggers : firing[f] = 0)

\* deliver_run_output delivers a run at most once as long as no two events of
\* that run are handled at the same time.
NeverTwice == \A r \in Runs : inbox[r] > 1 => r \in crossed

\* Runs an event of which was not handled as it should: it came too early, while
\* another was handled, or its hook was the last and ended early.
Upset == early \cup crossed \cup cut

\* When nothing is in progress, the job's last run, if it ended, has been
\* delivered and is what the row says, unless it was upset.
LastRunSettled ==
    Quiet => \A r \in Runs :
        job.run = r /\ jobRun[r] \in Delivered /\ r \notin Upset =>
            inbox[r] = 1 /\ job.status = jobRun[r]

\* A finished run's output reaches the inbox once: never more, unless two of the
\* run's events crossed; and once all is quiet not less for the run the job's row
\* points at, which tells its end, unless its event came before the job knew of it
\* or the last hook it had raised or was cancelled, and no boot has replayed it.
DeliveredOnce == JobsTypeOK /\ NeverTwice /\ LastRunSettled

\* Why they hold.  A run nobody recorded yet is not the row's, and its hooks have
\* not got past looking for their job.
NotRecorded ==
    /\ \A r \in Runs : jobRun[r] = "none" =>
            /\ job.run # r /\ \A f \in Triggers : firing[f] # r
            /\ \A h \in Hooks : h[1] = r => hook[h].at = "idle"
    /\ \A f \in Triggers : firing[f] # 0 =>
            /\ job.run # firing[f]
            /\ \A g \in Triggers \ {f} : firing[g] # firing[f]
            /\ \A h \in Hooks : h[1] = firing[f] => hook[h].at \in {"idle", "owner"}
            /\ jobRun[firing[f]] \in Delivered /\ firing[f] \notin early \cup cut =>
                    hook[<<firing[f], "ended">>].at = "owner"

\* Two hooks of a run at work at once crossed; a hook alone with its run reads the
\* run's end, and finds the inbox empty before it inserts.
HooksAlone ==
    /\ \A h, g \in Hooks :
            h # g /\ h[1] = g[1] /\ hook[h].at # "idle" /\ hook[g].at # "idle" => h[1] \in crossed
    /\ \A h \in Hooks : h[1] \notin crossed =>
            /\ hook[h].at = "insert" => inbox[h[1]] = 0
            /\ hook[h].at = "sync" /\ jobRun[h[1]] \in Delivered => hook[h].saw = jobRun[h[1]]

\* The job's last run, once ended, is settled, or something will still see to it.
Settling ==
    \A r \in Runs :
        job.run = r /\ jobRun[r] \in Delivered /\ r \notin Upset =>
            \/ boot
            \/ \E h \in Hooks : h[1] = r /\ hook[h].at \in {"owner", "read", "sync"}
            \/ job.status = jobRun[r]
               /\ (inbox[r] > 0 \/ \E h \in Hooks : h[1] = r /\ hook[h].at \in {"check", "insert"})

JobsInv == JobsTypeOK /\ NeverTwice /\ NotRecorded /\ HooksAlone /\ Settling

\* A boot delivers the finished run the row points at, whatever hook of it failed
\* before, unless the row moves on or the run is cut off again.
BootDelivers ==
    \A r \in Runs :
        (boot /\ job.run = r /\ jobRun[r] \in Delivered)
            ~> (inbox[r] > 0 \/ job.run # r \/ r \in cut)
===============================================================================
