------------------------------ MODULE Proposals ------------------------------
(***************************************************************************)
(* Where goals, opportunities and decisions come from: requests, scans that *)
(* ask a model for new ones (discovery_scan, derive_goals_from_memories,    *)
(* extract_decisions_from_memories) and avoid the titles they read before   *)
(* asking, and the sweep that promotes scored opportunities to goals.       *)
(***************************************************************************)
EXTENDS Naturals, Sequences, FiniteSets

CONSTANTS
    Headings,             \* titles of goals, opportunities and decisions
    Scanners, Sweepers,   \* scans and promotion sweeps in progress
    MaxRows,              \* bound: rows of the three tables together
    ListLimit,            \* how many opportunities discovery_scan lists (50)
    MaxPromote,           \* max_promote
    MaxMishaps            \* bound: restarts, and calls of a sweep that fail

ProposalsAssumption ==
    {MaxRows, ListLimit, MaxPromote, MaxMishaps} \subseteq Nat /\ IsFiniteSet(Sweepers)

VARIABLES
    rows,      \* opportunities, goals and decisions, in order of creation
    scan,      \* the scan in progress
    sweep,     \* promote_opportunities_sweep in progress
    repeats,   \* history: rows of a title then open that their maker had not been shown
    lapses,    \* history: times an opportunity was in two sweeps, or got its goal and stayed open
    mishaps

prVars == <<rows, scan, sweep, repeats, lapses, mishaps>>

Tables == {"opportunity", "goal", "decision"}
Open == {"detected", "scored", "active"}
NoScan == [table |-> "", seen |-> {}, hidden |-> {}, rows |-> 0]
NoSweep == [todo |-> {}, opp |-> 0]
IsOpen(k, i) == k = "decision" \/ rows[k][i].status \in Open
OpenTitles(k) == {rows[k][i].title : i \in {j \in DOMAIN rows[k] : IsOpen(k, j)}}

PrInit ==
    /\ rows = [k \in Tables |-> <<>>]
    /\ scan = [s \in Scanners |-> NoScan]
    /\ sweep = [w \in Sweepers |-> NoSweep]
    /\ repeats = [k \in Tables |-> [t \in Headings |-> 0]]
    /\ lapses = [o \in 1..MaxRows |-> 0] /\ mishaps = 0

Row(title, status, from) == [title |-> title, status |-> status, from |-> from]

\* create_opportunity (scored if any estimate came with it), create_goal,
\* record_decision.
Adds(k, title, from) ==
    /\ Len(rows["opportunity"]) + Len(rows["goal"]) + Len(rows["decision"]) < MaxRows
    /\ \E status \in CASE k = "opportunity" -> {"detected", "scored"}
                       [] k = "goal" -> {"active"}
                       [] OTHER -> {"recorded"} :
        rows' = [rows EXCEPT ![k] = Append(@, Row(title, status, from))]

\* The history of a row added: counted if its title was open, unknown to its maker.
Repeats(k, title, unknown) ==
    repeats' = [repeats EXCEPT ![k][title] = IF unknown /\ title \in OpenTitles(k) THEN @ + 1 ELSE @]

\* A request: nothing looks for another row of its title.
Request(k, title) ==
    /\ Adds(k, title, 0) /\ Repeats(k, title, TRUE)
    /\ UNCHANGED <<scan, sweep, lapses, mishaps>>

\* The titles a scan avoids: active goals, every decision, and the opportunities
\* that are open among the newest of any status.
Seen(k) ==
    {rows[k][i].title : i \in {j \in DOMAIN rows[k] :
        IsOpen(k, j) /\ (k = "opportunity" => j + ListLimit > Len(rows[k]))}}

ScanReads(s, k) ==
    /\ scan[s] = NoScan
    /\ scan' = [scan EXCEPT ![s] = [table |-> k, seen |-> Seen(k),
                                   hidden |-> OpenTitles(k) \ Seen(k), rows |-> Len(rows[k])]]
    /\ UNCHANGED <<rows, sweep, repeats, lapses, mishaps>>

\* The model has answered; one of its proposals is not a title seen so far.  The
\* scan cannot know of what lay beyond its list, or was added since it read.
ScanCreates(s, title) ==
    LET k == scan[s].table IN
    /\ k # "" /\ title \notin scan[s].seen
    /\ Adds(k, title, 0)
    /\ Repeats(k, title, title \in scan[s].hidden \/ Len(rows[k]) > scan[s].rows)
    /\ scan' = [scan EXCEPT ![s].seen = @ \cup {title}, ![s].rows = @ + 1]
    /\ UNCHANGED <<sweep, lapses, mishaps>>

ScanEnds(s) ==
    /\ scan[s] # NoScan
    /\ scan' = [scan EXCEPT ![s] = NoScan]
    /\ UNCHANGED <<rows, sweep, repeats, lapses, mishaps>>

Held(o, w) == o \in sweep[w].todo \/ sweep[w].opp = o

\* update_goal: a goal is achieved, abandoned or paused.
CloseGoal(g) ==
    /\ rows["goal"][g].status = "active"
    /\ rows' = [rows EXCEPT !["goal"][g].status = "closed"]
    /\ UNCHANGED <<scan, sweep, repeats, lapses, mishaps>>

\* mutant: the resolution is written without the status
Resolution_Unmarked(o, status) == [rows["opportunity"][o] EXCEPT !.from = 1]

Resolution(o, status) == [rows["opportunity"][o] EXCEPT !.status = status]

\* resolve_opportunity by the user: only one that is still open.
UserResolves(o, status) ==
    /\ rows["opportunity"][o].status \in Open
    /\ rows' = [rows EXCEPT !["opportunity"][o] = [@ EXCEPT !.status = status]]
    /\ UNCHANGED <<scan, sweep, repeats, lapses, mishaps>>

Lapse(S) == lapses' = [o \in DOMAIN lapses |-> IF o \in S THEN lapses[o] + 1 ELSE lapses[o]]

\* promote_opportunities_sweep: the candidates are read once.
SweepReads(w) ==
    /\ sweep[w] = NoSweep
    /\ \E todo \in SUBSET {i \in DOMAIN rows["opportunity"] : rows["opportunity"][i].status = "scored"} :
        /\ todo # {} /\ Cardinality(todo) <= MaxPromote
        /\ sweep' = [sweep EXCEPT ![w] = [NoSweep EXCEPT !.todo = todo]]
        /\ Lapse({o \in todo : \E v \in Sweepers \ {w} : Held(o, v)})
    /\ UNCHANGED <<rows, scan, repeats, mishaps>>

\* create_goal commits ...
SweepCreates(w, o) ==
    LET title == rows["opportunity"][o].title IN
    /\ sweep[w].opp = 0 /\ o \in sweep[w].todo
    /\ Adds("goal", title, o) /\ Repeats("goal", title, TRUE)
    /\ sweep' = [sweep EXCEPT ![w] = [todo |-> @.todo \ {o}, opp |-> o]]
    /\ UNCHANGED <<scan, lapses, mishaps>>

\* ... and then resolve_opportunity; one that was resolved meanwhile is skipped.
SweepResolves(w) ==
    /\ sweep[w].opp # 0
    /\ LET o == sweep[w].opp IN
        rows' = IF rows["opportunity"][o].status \in Open
                THEN [rows EXCEPT !["opportunity"][o] = Resolution(o, "accepted")]
                ELSE rows
    /\ sweep' = [sweep EXCEPT ![w].opp = 0]
    /\ UNCHANGED <<scan, repeats, lapses, mishaps>>

Mishap == mishaps < MaxMishaps /\ mishaps' = mishaps + 1
IsOpenOpp(o) == rows["opportunity"][o].status \in Open

\* create_goal or resolve_opportunity raises: the sweep logs it and goes on with the
\* next.  An opportunity whose goal was created is then open still, for a later sweep.
SweepFails(w) ==
    /\ Mishap
    /\ \/ /\ sweep[w].opp = 0
          /\ \E o \in sweep[w].todo : sweep' = [sweep EXCEPT ![w].todo = @ \ {o}]
          /\ UNCHANGED lapses
       \/ /\ sweep[w].opp # 0 /\ IsOpenOpp(sweep[w].opp)
          /\ sweep' = [sweep EXCEPT ![w].opp = 0]
          /\ Lapse({sweep[w].opp})
    /\ UNCHANGED <<rows, scan, repeats>>

\* The process dies.
PrCrash ==
    /\ Mishap
    /\ scan' = [s \in Scanners |-> NoScan]
    /\ sweep' = [w \in Sweepers |-> NoSweep]
    /\ Lapse({o \in DOMAIN rows["opportunity"] :
                IsOpenOpp(o) /\ \E w \in Sweepers : sweep[w].opp = o})
    /\ UNCHANGED <<rows, repeats>>

PrNext ==
    \/ \E k \in Tables : (\E t \in Headings : Request(k, t)) \/ \E s \in Scanners : ScanReads(s, k)
    \/ \E s \in Scanners : ScanEnds(s) \/ \E t \in Headings : ScanCreates(s, t)
    \/ \E g \in DOMAIN rows["goal"] : CloseGoal(g)
    \/ \E o \in DOMAIN rows["opportunity"] :
        \/ \E status \in {"accepted", "rejected"} : UserResolves(o, status)
        \/ \E w \in Sweepers : SweepCreates(w, o)
    \/ \E w \in Sweepers : SweepReads(w) \/ SweepResolves(w) \/ SweepFails(w)
    \/ PrCrash

PrSpec == PrInit /\ [][PrNext]_prVars

-------------------------------------------------------------------------------
PrTypeOK == \A k \in Tables : \A i \in DOMAIN rows[k] :
    rows[k][i].title \in Headings /\ rows[k][i].from \in 0..Len(rows["opportunity"])

\* An opportunity becomes one goal, and one more each time a sweep took it out of
\* another's hands, or the call that resolves it failed or was lost with the
\* process after its goal was committed.
PromotedOnce ==
    \A o \in DOMAIN rows["opportunity"] :
        Cardinality({g \in DOMAIN rows["goal"] : rows["goal"][g].from = o}) <= 1 + lapses[o]

\* Scans do not repeat what is open: open opportunities, and decisions, of one
\* title are one, and one more for each that a request added without looking, or a
\* scan to whom the title was not shown: it lay beyond the list the scan read, or
\* others had added to the table since.
TitlesDistinct ==
    \A k \in {"opportunity", "decision"}, t \in Headings :
        Cardinality({i \in DOMAIN rows[k] : rows[k][i].title = t /\ IsOpen(k, i)})
            <= 1 + repeats[k][t]

\* An opportunity becomes one goal, and scans do not repeat what is open, but for
\* the overlaps and failures counted (promote_opportunities_sweep, discovery_scan).
ProposalsSound == PrTypeOK /\ PromotedOnce /\ TitlesDistinct
===============================================================================
