------------------------------- MODULE Cadence -------------------------------
(***************************************************************************)
(* When a job is due next: the cadences of orchestration/scheduler.py and    *)
(* the rows orchestration/user_jobs.py accepts for them.  A time is a date   *)
(* and a slot of the day.                                                    *)
(***************************************************************************)
EXTENDS Naturals, Sequences, FiniteSets

CONSTANTS
    Slots,      \* slots of a day: 0 .. Slots - 1
    FirstDay, LastDay  \* the days, counted from the first of January, year 1,
                       \* the clock goes through

CadenceAssumption == {Slots, FirstDay, LastDay} \subseteq Nat /\ Slots > 0

VARIABLES
    cadence,  \* the job's cadence
    clock     \* the local time next_due is asked for

cadVars == <<cadence, clock>>

MonthLengths == <<31, 28, 31, 30, 31, 30, 31, 31, 30, 31, 30, 31>>
DaysBefore[m \in 1..13] == IF m = 1 THEN 0 ELSE DaysBefore[m - 1] + MonthLengths[m - 1]

Date(year, month, day) == [year |-> year, month |-> month, day |-> day]
DayOf(date) == 365 * (date.year - 1) + DaysBefore[date.month] + date.day - 1
DateOf(n) ==
    LET year == n \div 365 + 1
        rest == n % 365
        month == CHOOSE m \in 1..12 : DaysBefore[m] <= rest /\ rest < DaysBefore[m + 1]
    IN Date(year, month, rest - DaysBefore[month] + 1)
Weekday(n) == n % 7

Time(day, slot) == [day |-> day, slot |-> slot]
After(t, u) == t.day > u.day \/ (t.day = u.day /\ t.slot > u.slot)

DailyAt(slot, after) ==
    LET candidate == Time(after.day, slot)
    IN IF After(candidate, after) THEN candidate ELSE Time(after.day + 1, slot)

\* Eight days are looked at: today's slot may have gone by.
WeeklyAt(weekdays, slot, after) ==
    LET days == {d \in after.day..(after.day + 7) :
                    Weekday(d) \in weekdays /\ After(Time(d, slot), after)}
    IN Time(CHOOSE d \in days : \A e \in days : d <= e, slot)

\* mutant: the year does not turn
MonthlyAt_SameYear(day, slot, after) ==
    LET today == DateOf(after.day)
        dom == IF day > 28 THEN 28 ELSE day
        candidate == Time(DayOf([today EXCEPT !.day = dom]), slot)
    IN IF After(candidate, after) THEN candidate
       ELSE Time(DayOf(Date(today.year, (today.month % 12) + 1, dom)), slot)

\* The day of this month, or of the next one, in the next year after December.
MonthlyAt(day, slot, after) ==
    LET today == DateOf(after.day)
        dom == IF day > 28 THEN 28 ELSE day
        candidate == Time(DayOf([today EXCEPT !.day = dom]), slot)
    IN IF After(candidate, after) THEN candidate
       ELSE Time(DayOf(Date(today.year + today.month \div 12, (today.month % 12) + 1, dom)), slot)

NextDue(c, after) ==
    CASE c.type = "daily_at" -> DailyAt(c.slot, after)
      [] c.type = "weekly_at" -> WeeklyAt(c.weekdays, c.slot, after)
      [] c.type = "monthly_at" -> MonthlyAt(c.day, c.slot, after)

\* The rows parse_cadence accepts: some weekday, a day every month has.
Cadences ==
    [type : {"daily_at"}, slot : 0..(Slots - 1)]
        \cup [type : {"weekly_at"}, weekdays : (SUBSET (0..6)) \ {{}}, slot : 0..(Slots - 1)]
        \cup [type : {"monthly_at"}, day : 1..28, slot : 0..(Slots - 1)]

CadInit ==
    /\ cadence \in Cadences
    /\ clock = Time(FirstDay, 0)

CadNext ==
    /\ clock.day <= LastDay
    /\ clock' = IF clock.slot + 1 < Slots THEN [clock EXCEPT !.slot = @ + 1]
                                          ELSE Time(clock.day + 1, 0)
    /\ UNCHANGED cadence

CadSpec == CadInit /\ [][CadNext]_cadVars

-------------------------------------------------------------------------------
\* What the row asks for, said without a computation.
Falls(c, t) ==
    /\ t.slot = c.slot
    /\ CASE c.type = "daily_at" -> TRUE
         [] c.type = "weekly_at" -> Weekday(t.day) \in c.weekdays
         [] c.type = "monthly_at" -> DateOf(t.day).day = c.day

\* next_due is the first time after now that the cadence names: no slot is
\* passed over and none is given twice, across weeks, months and years.
NextDueIsLeast ==
    LET due == NextDue(cadence, clock) IN
    /\ After(due, clock)
    /\ Falls(cadence, due)
    /\ \A t \in [day : clock.day..due.day, slot : 0..(Slots - 1)] :
        After(t, clock) /\ After(due, t) => ~Falls(cadence, t)
===============================================================================
