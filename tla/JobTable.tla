------------------------------ MODULE JobTable ------------------------------
(***************************************************************************)
(* The two copies of the user-defined jobs and the loop that reads one: the *)
(* scheduled_jobs rows, edited through orchestration/api.py, and the list    *)
(* the running scheduler iterates over (orchestration/scheduler.py), which   *)
(* orchestration/user_jobs.py mutates in place, also while the loop waits    *)
(* for a firing in the middle of a tick.                                     *)
(***************************************************************************)
EXTENDS Naturals, Sequences, FiniteSets, SequencesExt

CONSTANTS
    Jobs,        \* job ids
    Existing,    \* those with a row when the process boots
    Editors,     \* requests that can be in progress together
    MaxVersions  \* bound: edits, and registrations, made

JobTableAssumption ==
    /\ IsFiniteSet(Jobs) /\ "none" \notin Jobs
    /\ Existing \subseteq Jobs /\ MaxVersions \in Nat \ {0}

VARIABLES
    table,     \* scheduled_jobs: version 0 is no row yet
    live,      \* Scheduler.jobs: Job objects
    tick,      \* _loop: the index it is at and the object it fires (0: asleep)
    overdue,   \* objects due at the tick's `now` and not fired in it yet
    edit,      \* requests in progress: the job and the row they read
    writes,    \* how many versions were written
    made,      \* how many Job objects were made
    raced,     \* history: jobs two requests were editing together
    shifted    \* history: the list closed up behind the iterator in this tick

jtVars == <<table, live, tick, overdue, edit, writes, made, raced, shifted>>

NoRow == [ver |-> 0, on |-> FALSE, there |-> FALSE]
NoEdit == [at |-> "idle", job |-> "none", row |-> NoRow]
Asleep == [i |-> 0, obj |-> 0]

\* load_user_jobs and register_job for each row, disabled ones too.
Loaded(first) ==
    LET rows == SetToSeq({j \in Jobs : table[j].there})
    IN [k \in 1..Len(rows) |-> [job |-> rows[k], ver |-> table[rows[k]].ver,
                                 on |-> table[rows[k]].on, due |-> FALSE, obj |-> first + k]]

JTInit ==
    /\ table = [j \in Jobs |-> IF j \in Existing THEN [ver |-> 1, on |-> TRUE, there |-> TRUE]
                                                 ELSE NoRow]
    /\ live = Loaded(0)
    /\ tick = Asleep /\ overdue = {}
    /\ edit = [e \in Editors |-> NoEdit]
    /\ writes = 1
    /\ made = Len(live)
    /\ raced = {} /\ shifted = FALSE

-------------------------------------------------------------------------------
(* The requests.                                                            *)

Others(e, j) == \E d \in Editors \ {e} : edit[d].job = j
Begins(e, j, place) ==
    /\ edit' = [edit EXCEPT ![e] = [at |-> place, job |-> j, row |-> NoRow]]
    /\ raced' = IF Others(e, j) THEN raced \cup {j} ELSE raced

\* create_job's INSERT and update_job's UPDATE ...
WriteRow(e, j, on) ==
    /\ edit[e].at = "idle"
    /\ table[j] = NoRow \/ table[j].there
    /\ writes < MaxVersions
    /\ table' = [table EXCEPT ![j] = [ver |-> writes + 1, on |-> on, there |-> TRUE]]
    /\ writes' = writes + 1
    /\ Begins(e, j, "fetch")
    /\ UNCHANGED <<live, tick, overdue, made, shifted>>

\* ... then the row is read back; if it is gone, registering it raises ...
FetchRow(e) ==
    /\ edit[e].at = "fetch"
    /\ LET row == table[edit[e].job] IN
        edit' = [edit EXCEPT ![e] = IF ~row.there THEN NoEdit
                                    ELSE [@ EXCEPT !.at = "register", !.row = row]]
    /\ UNCHANGED <<table, live, tick, overdue, writes, made, raced, shifted>>

Without(j) ==
    LET Rest[i \in 0..Len(live)] ==
            IF i = 0 THEN <<>>
            ELSE IF live[i].job = j THEN Rest[i - 1] ELSE Append(Rest[i - 1], live[i])
    IN Rest[Len(live)]
Shifts(j) == shifted' = (shifted \/ \E k \in 1..tick.i : k \in DOMAIN live /\ live[k].job = j)
Register(e, others) ==
    LET j == edit[e].job IN
    /\ edit[e].at = "register"
    /\ live' = IF edit[e].row.on
               THEN Append(others, [job |-> j, ver |-> edit[e].row.ver, on |-> TRUE,
                                    due |-> FALSE, obj |-> made + 1])
               ELSE others
    /\ made' = made + 1
    /\ Shifts(j)
    /\ edit' = [edit EXCEPT ![e] = NoEdit]
    /\ UNCHANGED <<table, tick, overdue, writes, raced>>

\* mutant: the old object stays
RegisterLive_NoUnregister(e) == Register(e, live)

\* ... and _register_live replaces the live object by one made from it.
RegisterLive(e) == Register(e, Without(edit[e].job))

\* delete_job: the row, then the live object.
DeleteRow(e, j) ==
    /\ edit[e].at = "idle"
    /\ table[j].there
    /\ table' = [table EXCEPT ![j].there = FALSE, ![j].on = FALSE]
    /\ Begins(e, j, "unregister")
    /\ UNCHANGED <<live, tick, overdue, writes, made, shifted>>

Unregister(e) ==
    /\ edit[e].at = "unregister"
    /\ live' = Without(edit[e].job)
    /\ Shifts(edit[e].job)
    /\ edit' = [edit EXCEPT ![e] = NoEdit]
    /\ UNCHANGED <<table, tick, overdue, writes, made, raced>>

-------------------------------------------------------------------------------
(* The loop: nothing else runs between two awaits, so it goes from one firing *)
(* to the next in one step.                                                 *)

ComesDue(k) ==
    /\ k \in DOMAIN live /\ ~live[k].due
    /\ live' = [live EXCEPT ![k].due = TRUE]
    /\ UNCHANGED <<table, tick, overdue, edit, writes, made, raced, shifted>>

\* mutant: the iterator starts past the index
NextFrom_PastIt(i, list, due) ==
    LET found == {k \in DOMAIN list : k > i /\ list[k].on /\ list[k].obj \in due}
    IN IF found = {} THEN Asleep
       ELSE LET k == CHOOSE k \in found : \A l \in found : k <= l
            IN [i |-> k, obj |-> list[k].obj]

\* The next object to fire from index i on, in the list as it is now.
NextFrom(i, list, due) ==
    LET found == {k \in DOMAIN list : k >= i /\ list[k].on /\ list[k].obj \in due}
    IN IF found = {} THEN Asleep
       ELSE LET k == CHOOSE k \in found : \A l \in found : k <= l
            IN [i |-> k, obj |-> list[k].obj]

\* `now` is read once: what comes due later waits for the next tick.
Wakes ==
    LET due == {live[k].obj : k \in {l \in DOMAIN live : live[l].due}} IN
    /\ tick = Asleep
    /\ tick' = NextFrom(1, live, due)
    /\ overdue' = due
    /\ shifted' = FALSE
    /\ UNCHANGED <<table, live, edit, writes, made, raced>>

\* fire returns: the object's next slot is computed, in the list or not, and the
\* iterator goes on at the next index of whatever the list is by now.
FireReturns ==
    /\ tick.obj > 0
    /\ live' = [k \in DOMAIN live |->
                    IF live[k].obj = tick.obj THEN [live[k] EXCEPT !.due = FALSE] ELSE live[k]]
    /\ overdue' = overdue \ {tick.obj}
    /\ tick' = NextFrom(tick.i + 1, live, overdue')
    /\ UNCHANGED <<table, edit, writes, made, raced, shifted>>

\* A restart loses the requests and loads the rows again.
Reboot ==
    /\ made + Cardinality(Jobs) <= 2 * MaxVersions
    /\ live' = Loaded(made)
    /\ made' = made + Len(live')
    /\ tick' = Asleep /\ overdue' = {}
    /\ edit' = [e \in Editors |-> NoEdit]
    /\ raced' = {} /\ shifted' = FALSE
    /\ UNCHANGED <<table, writes>>

JTNext ==
    \/ \E e \in Editors :
        \/ \E j \in Jobs : (\E on \in BOOLEAN : WriteRow(e, j, on)) \/ DeleteRow(e, j)
        \/ FetchRow(e) \/ RegisterLive(e) \/ Unregister(e)
    \/ \E k \in DOMAIN live : ComesDue(k)
    \/ Wakes \/ FireReturns \/ Reboot

\* The loop always wakes and every firing returns; requests and time are free.
JTFairness == WF_jtVars(Wakes) /\ WF_jtVars(FireReturns)
JTSpec == JTInit /\ [][JTNext]_jtVars /\ JTFairness

-------------------------------------------------------------------------------
JTTypeOK ==
    /\ table \in [Jobs -> [ver : 0..MaxVersions, on : BOOLEAN, there : BOOLEAN]]
    /\ live \in Seq([job : Jobs, ver : 1..MaxVersions, on : BOOLEAN, due : BOOLEAN, obj : 1..made])
    /\ tick.obj \in 0..made

Entries(j) == {k \in DOMAIN live : live[k].job = j}

\* A job nobody is editing, and no two requests edited together, is in the
\* scheduler exactly as its row says: once if enabled, with the row's version,
\* and not at all if disabled or deleted (_register_live after the row).
ListAgrees ==
    \A j \in Jobs \ (raced \cup {edit[e].job : e \in Editors}) :
        /\ Cardinality(Entries(j)) <= 1
        /\ table[j].on => Entries(j) # {}
        /\ \A k \in Entries(j) : live[k].ver = table[j].ver /\ live[k].on = table[j].on

\* A tick ends with every enabled job served that was due when it began, unless
\* an edit closed the list up behind the iterator while a firing was awaited.
TickServesAll ==
    tick = Asleep /\ ~shifted =>
        \A k \in DOMAIN live : live[k].on => live[k].obj \notin overdue

\* The scheduler's list and the table agree on a job nobody edits, unless two
\* edits raced, and a tick reaches every due job (_register_live, _loop).
LiveMatchesTable == JTTypeOK /\ ListAgrees /\ TickServesAll

\* A due, enabled job is fired, replaced or removed sooner or later: a job the
\* iterator skipped is found by a later tick.
DueFires ==
    \A o \in 1..(2 * MaxVersions) :
        (\E k \in DOMAIN live : live[k].obj = o /\ live[k].on /\ live[k].due)
            ~> (tick.obj = o \/ \A k \in DOMAIN live : live[k].obj # o)
===============================================================================
