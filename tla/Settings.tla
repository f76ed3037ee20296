------------------------------- MODULE Settings -------------------------------
(***************************************************************************)
(* One setting and its in-process cache (shared/settings.py):               *)
(* get_setting_cached reads the clock, then the cache, then the database,   *)
(* and set_setting commits before it drops the cached value.                *)
(***************************************************************************)
EXTENDS Naturals

CONSTANTS
    Tasks,       \* coroutines that read the setting
    TTL,         \* _CACHE_TTL
    MaxTime,     \* bound: clock
    MaxValue     \* bound: the values set, in order

ASSUME SettingsAssumption == TTL \in Nat /\ MaxTime \in Nat /\ MaxValue \in Nat

VARIABLES
    stored,    \* app_settings.value
    past,      \* history: the values it had, by time
    entry,     \* _CACHE[key]: its stamp and value ({}: none)
    task,      \* the read in progress
    setting,   \* set_setting between its commit and invalidate_cache
    today      \* the clock

setVars == <<stored, past, entry, task, setting, today>>

Idle == [at |-> "idle", from |-> 0, val |-> 0]

SetInit ==
    /\ stored = 0 /\ past = [t \in 0..MaxTime |-> {0}]
    /\ entry = {} /\ setting = FALSE /\ today = 0
    /\ task = [k \in Tasks |-> Idle]

\* get_setting_cached: a hit answers at once, anything else asks the database.
Asks(k) ==
    /\ task[k].at \in {"idle", "answered"}
    /\ IF \E e \in entry : today - e.stamp < TTL
       THEN \E e \in entry : task' = [task EXCEPT ![k] = [at |-> "answered", from |-> today, val |-> e.val]]
       ELSE task' = [task EXCEPT ![k] = [at |-> "query", from |-> today, val |-> 0]]
    /\ UNCHANGED <<stored, past, entry, setting, today>>

Queries(k) ==
    /\ task[k].at = "query"
    /\ task' = [task EXCEPT ![k] = [@ EXCEPT !.at = "keep", !.val = stored]]
    /\ UNCHANGED <<stored, past, entry, setting, today>>

\* mutant: the entry is as young as its write
Stamp_Now(k) == today

\* The stamp was read before the database.
Stamp(k) == task[k].from

Keeps(k) ==
    /\ task[k].at = "keep"
    /\ entry' = {[stamp |-> Stamp(k), val |-> task[k].val]}
    /\ task' = [task EXCEPT ![k] = [@ EXCEPT !.at = "answered", !.from = today]]
    /\ UNCHANGED <<stored, past, setting, today>>

\* set_setting: the upsert ...
Commits ==
    /\ ~setting /\ stored < MaxValue
    /\ stored' = stored + 1
    /\ past' = [t \in 0..MaxTime |-> IF t < today THEN past[t]
                                       ELSE IF t = today THEN past[t] \cup {stored'} ELSE {stored'}]
    /\ setting' = TRUE
    /\ UNCHANGED <<entry, task, today>>

\* ... and invalidate_cache.
Drops ==
    /\ setting /\ setting' = FALSE
    /\ entry' = {}
    /\ UNCHANGED <<stored, past, task, today>>

Tick ==
    /\ today < MaxTime /\ today' = today + 1
    /\ UNCHANGED <<stored, past, entry, task, setting>>

SetNext == Commits \/ Drops \/ Tick \/ \E k \in Tasks : Asks(k) \/ Queries(k) \/ Keeps(k)

SetSpec == SetInit /\ [][SetNext]_setVars

-------------------------------------------------------------------------------
SetTypeOK == today \in 0..MaxTime /\ \A k \in Tasks : task[k].val \in 0..MaxValue

\* A change takes effect within _CACHE_TTL: a value answered from the cache was
\* the stored one less than TTL ago, although a read that overlaps a change puts
\* the old value back after invalidate_cache.
FreshWithinTTL ==
    \A e \in entry : today - e.stamp < TTL => \E t \in e.stamp..today : e.val \in past[t]
===============================================================================
