----------------------------- MODULE PeriodicJob -----------------------------
(***************************************************************************)
(* One code-defined job of the scheduler (orchestration/scheduler.py) whose *)
(* output is one report per period: Scheduler.fire under its Redis key and  *)
(* its period guard, fired by the loops of the processes that run one, and  *)
(* by the manual POST endpoint, which calls the job's function directly.    *)
(* Periods are numbered; the report counts for the period it is written in. *)
(***************************************************************************)
EXTENDS Naturals, FiniteSets, Sequences

CONSTANTS
    Firers,       \* processes with a scheduler loop (Hermes' cron, a stray second one)
    MaxFirings,   \* bound: envelopes opened
    MaxPeriods,   \* bound: periods
    MaxTroubles   \* bound: manual runs, expiries under a live firing, outages and
                  \* firings in them, failed guards and bookkeeping, crashes

ASSUME PeriodicJobAssumption ==
    /\ {MaxFirings, MaxTroubles} \subseteq Nat /\ MaxPeriods \in Nat \ {0}
    /\ IsFiniteSet(Firers)

VARIABLES
    key,       \* lock:sched:<name> is set
    redis,     \* Redis answers
    fire,      \* Scheduler.fire per process: where it is and the envelope it opened
    manual,    \* POST endpoints in the middle of the job's function
    envelope,  \* agent_runs status of the workflow envelopes
    period,    \* the current period
    reports,   \* reports written per period
    leaks,     \* history: firings that stopped being covered by the key
    blindly,   \* history: reports asked for without a guard that answered
    lost,      \* history: envelopes whose close was lost
    troubles

pjVars == <<key, redis, fire, manual, envelope, period, reports, leaks, blindly, lost, troubles>>

Periods == 1..MaxPeriods
Places == {"idle", "guard", "open", "body", "close", "release"}
Idle == [at |-> "idle", row |-> 0, ok |-> FALSE]
Active == {f \in Firers : fire[f].at # "idle"}
Trouble == troubles < MaxTroubles /\ troubles' = troubles + 1

PJInit ==
    /\ key = FALSE /\ redis = TRUE
    /\ fire = [f \in Firers |-> Idle]
    /\ manual = 0
    /\ envelope = <<>>
    /\ period = 1
    /\ reports = [p \in Periods |-> 0]
    /\ leaks = 0 /\ blindly = 0 /\ lost = {}
    /\ troubles = 0

Goes(f, place) == fire' = [fire EXCEPT ![f].at = place]

\* mutant: the key is looked at and then set
TakesKey_Overwrites == key' = TRUE /\ UNCHANGED leaks

\* SET NX EX: only a free key is taken.
TakesKey == ~key /\ key' = TRUE /\ UNCHANGED leaks

\* fire up to the lock.  Without Redis the firing goes on unprotected; a locked
\* job is skipped.
Fire(f) ==
    /\ fire[f].at = "idle"
    /\ IF redis THEN TakesKey /\ UNCHANGED troubles
                ELSE UNCHANGED key /\ leaks' = leaks + 1 /\ Trouble
    /\ Goes(f, "guard")
    /\ UNCHANGED <<redis, manual, envelope, period, reports, blindly, lost>>

\* mutant: the guard's answer is ignored
AfterGuard_Open == "open"

\* The period guard: a report of this period exists.
AfterGuard == IF reports[period] > 0 THEN "release" ELSE "open"

Guard(f) ==
    /\ fire[f].at = "guard"
    /\ Goes(f, AfterGuard)
    /\ UNCHANGED <<key, redis, manual, envelope, period, reports, leaks, blindly, lost, troubles>>

\* The guard raises: the job runs anyway.
GuardFails(f) ==
    /\ fire[f].at = "guard"
    /\ Trouble
    /\ blindly' = blindly + 1
    /\ Goes(f, "open")
    /\ UNCHANGED <<key, redis, manual, envelope, period, reports, leaks, lost>>

\* _open_run.
Open(f) ==
    /\ fire[f].at = "open"
    /\ Len(envelope) < MaxFirings
    /\ envelope' = Append(envelope, "running")
    /\ fire' = [fire EXCEPT ![f] = [at |-> "body", row |-> Len(envelope'), ok |-> FALSE]]
    /\ UNCHANGED <<key, redis, manual, period, reports, leaks, blindly, lost, troubles>>

\* The job's function writes its report, or raises first.
Writes == reports' = [reports EXCEPT ![period] = @ + 1]

Body(f) ==
    /\ fire[f].at = "body"
    /\ \E ok \in BOOLEAN :
        /\ fire' = [fire EXCEPT ![f].at = "close", ![f].ok = ok]
        /\ IF ok THEN Writes ELSE UNCHANGED reports
    /\ UNCHANGED <<key, redis, manual, envelope, period, leaks, blindly, lost, troubles>>

\* _close_run.
Close(f) ==
    /\ fire[f].at = "close"
    /\ envelope' = [envelope EXCEPT ![fire[f].row] = IF fire[f].ok THEN "completed" ELSE "failed"]
    /\ Goes(f, "release")
    /\ UNCHANGED <<key, redis, manual, period, reports, leaks, blindly, lost, troubles>>

\* The database refuses to open or to close the envelope: the exception passes
\* through fire's finally to the loop.
BookkeepingFails(f) ==
    /\ fire[f].at \in {"open", "close"}
    /\ Trouble
    /\ Goes(f, "release")
    /\ lost' = IF fire[f].at = "close" THEN lost \cup {fire[f].row} ELSE lost
    /\ UNCHANGED <<key, redis, manual, envelope, period, reports, leaks, blindly>>

\* finally: DEL, whoever set the key.
Release(f) ==
    /\ fire[f].at = "release"
    /\ key' = (key /\ ~redis)
    /\ fire' = [fire EXCEPT ![f] = Idle]
    /\ UNCHANGED <<redis, manual, envelope, period, reports, leaks, blindly, lost, troubles>>

\* The manual endpoint: the function alone, no key, no guard, no envelope.
ManualStart ==
    /\ Trouble
    /\ manual' = manual + 1
    /\ blindly' = blindly + 1
    /\ UNCHANGED <<key, redis, fire, envelope, period, reports, leaks, lost>>

ManualEnd ==
    /\ manual > 0
    /\ manual' = manual - 1
    /\ Writes \/ UNCHANGED reports
    /\ UNCHANGED <<key, redis, fire, envelope, period, leaks, blindly, lost, troubles>>

\* The key's hour is over.
KeyExpires ==
    /\ key
    /\ key' = FALSE
    /\ IF Active = {} THEN UNCHANGED <<leaks, troubles>> ELSE Trouble /\ leaks' = leaks + 1
    /\ UNCHANGED <<redis, fire, manual, envelope, period, reports, blindly, lost>>

\* A process dies: its firing releases and closes nothing.
Dies(f) ==
    /\ fire[f].at # "idle"
    /\ Trouble
    /\ fire' = [fire EXCEPT ![f] = Idle]
    /\ lost' = IF fire[f].at \in {"body", "close"} THEN lost \cup {fire[f].row} ELSE lost
    /\ UNCHANGED <<key, redis, manual, envelope, period, reports, leaks, blindly>>

RedisFails ==
    /\ redis /\ Trouble
    /\ redis' = FALSE
    /\ UNCHANGED <<key, fire, manual, envelope, period, reports, leaks, blindly, lost>>

RedisReturns ==
    /\ ~redis
    /\ redis' = TRUE
    /\ UNCHANGED <<key, fire, manual, envelope, period, reports, leaks, blindly, lost, troubles>>

NextPeriod ==
    /\ period < MaxPeriods
    /\ period' = period + 1
    /\ UNCHANGED <<key, redis, fire, manual, envelope, reports, leaks, blindly, lost, troubles>>

PJNext ==
    \/ \E f \in Firers : \/ Fire(f) \/ Guard(f) \/ GuardFails(f) \/ Open(f) \/ Body(f)
                         \/ Close(f) \/ BookkeepingFails(f) \/ Release(f) \/ Dies(f)
    \/ ManualStart \/ ManualEnd \/ KeyExpires \/ RedisFails \/ RedisReturns \/ NextPeriod

PJSpec == PJInit /\ [][PJNext]_pjVars

-------------------------------------------------------------------------------
PJTypeOK ==
    /\ key \in BOOLEAN /\ redis \in BOOLEAN
    /\ fire \in [Firers -> [at : Places, row : 0..Len(envelope), ok : BOOLEAN]]
    /\ manual \in Nat /\ leaks \in Nat /\ blindly \in Nat
    /\ envelope \in Seq({"running", "completed", "failed"})
    /\ period \in Periods /\ reports \in [Periods -> Nat]
    /\ lost \subseteq DOMAIN envelope

\* Firings that go on together are at most one, plus one for every time the key
\* ran out under a firing or Redis was down when one started (fire: SET NX EX
\* with a constant value, DEL in finally): the unconditional delete lets the
\* overlap go on, but never grow.
FiringsBounded == Cardinality(Active) <= leaks + (IF key THEN 1 ELSE 0)

\* A period gets one report, plus one for every firing the key did not cover
\* and every run no guard answered for.
ReportsBounded == \A p \in Periods : reports[p] <= 1 + leaks + blindly

\* An envelope still running belongs to a firing that will close it, or to one
\* that died or could not write: nothing else ever closes it (_recover takes
\* only the Executive's runs).
EnvelopesOwned ==
    \A i \in DOMAIN envelope :
        envelope[i] = "running" <=>
            i \in lost \/ \E f \in Firers : fire[f].row = i /\ fire[f].at \in {"body", "close"}

\* A period gets one report but for the firings nothing covered, and an envelope
\* left running is one whose close was lost (fire, _close_run, the period guards).
ReportsAndEnvelopes == PJTypeOK /\ ReportsBounded /\ EnvelopesOwned
===============================================================================
