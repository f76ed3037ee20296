------------------------------ MODULE Snapshots ------------------------------
(***************************************************************************)
(* The snapshots cognition keeps of the journal and the graph: themes and    *)
(* life chapters (cognition/narrative), alignment signals                    *)
(* (cognition/attention), assumptions and mental models (cognition/meta).    *)
(* Each generator reads, closes what is live of its kind in one transaction  *)
(* and inserts the new rows in transactions of their own; endpoints and the  *)
(* refresh script call them, and nothing keeps two calls apart.              *)
(***************************************************************************)
EXTENDS Naturals, Sequences, FiniteSets

CONSTANTS
    Makers,       \* calls that may overlap
    Subjects,     \* what themes, signals and models are about
    Least,        \* episodes a chapter needs before it may end
    ReadLimit,    \* LIMIT of the episode query, oldest first
    MaxJournal,   \* bound: episodes
    MaxTries      \* bound: calls, of all kinds

SnapshotsAssumption == {Least, ReadLimit, MaxJournal, MaxTries} \subseteq Nat

VARIABLES
    kind,     \* which snapshot this is about: the four share no row
    journal,  \* episodes: does the topic shift from the one before (similarity < 0.3)
    world,    \* subjects in the graph, the goals and the beliefs
    shown,    \* live rows: content and the run that wrote them
    maker,    \* the call in progress
    last,     \* history: the rows of the latest run
    amid,     \* history: runs that were amid their inserts at the latest closing
    cut,      \* history: the latest run ended early
    tries

snVars == <<kind, journal, world, shown, maker, last, amid, cut, tries>>

Kinds == {"chapters", "themes", "signals", "models"}
NoMaker == [at |-> "idle", run |-> 0, rows |-> {}]
Inside == {k \in Makers : maker[k].at \in {"read", "insert"}}

SnInit ==
    /\ kind \in Kinds
    /\ journal = <<>> /\ world = {} /\ shown = {} /\ last = {}
    /\ maker = [k \in Makers |-> NoMaker]
    /\ amid = 0 /\ cut = FALSE /\ tries = 0

\* len(cur_ids) >= 3 when episode i comes.
LongEnough(first, i) == i - first >= Least

\* compose_chapters' loop: where the segment that holds episode i starts.
SegmentStart(n) ==
    LET start[i \in 1..n] ==
        IF i = 1 THEN 1
        ELSE IF journal[i] /\ LongEnough(start[i - 1], i) THEN i ELSE start[i - 1]
    IN start

Chapters(n) ==
    LET start == SegmentStart(n) IN
        {[first |-> start[i], end |-> i] : i \in {j \in 1..n : j = n \/ start[j + 1] # start[j]}}

EpisodesSeen == IF Len(journal) < ReadLimit THEN Len(journal) ELSE ReadLimit

\* What a run finds: the most connected entities, the goals and values little
\* attended to, and the model's answer, which may hold nothing.
Themes == world
Signals == {world}
Models == {world, {}}

\* The rows of create_assumption, create_mental_model and the other INSERTs.
Rows(run, contents) == {[is |-> x, run |-> run] : x \in contents}

\* The generator's reads before it closes anything.  Chapters need two episodes,
\* themes one; themes read the graph only after they closed the old ones; the
\* model's answer for assumptions may parse to nothing.
MakerBegins(k) ==
    /\ maker[k].at = "idle" /\ tries < MaxTries
    /\ kind = "chapters" => Len(journal) >= 2
    /\ kind = "themes" => journal # <<>>
    /\ \E contents \in CASE kind = "chapters" -> {Chapters(EpisodesSeen)}
                         [] kind = "models"   -> Models
                         [] kind = "signals"  -> Signals
                         [] kind = "themes"   -> {{}} :
        maker' = [maker EXCEPT ![k] =
            [at |-> "close", run |-> tries + 1, rows |-> Rows(tries + 1, contents)]]
    /\ tries' = tries + 1
    /\ UNCHANGED <<kind, journal, world, shown, last, amid, cut>>

\* mutant: only what the run before wrote is closed
Closed_Previous(run) == {r \in shown : r.run = run - 1}

\* UPDATE ... SET valid_to = now() WHERE valid_to IS NULL [AND hypothesis].
Closed(run) == shown

Ends(k) == maker' = [maker EXCEPT ![k] = NoMaker]

ClosesShown(k) ==
    /\ maker[k].at = "close"
    /\ shown' = shown \ Closed(maker[k].run)
    /\ last' = maker[k].rows
    /\ amid' = Cardinality(Inside)
    /\ cut' = FALSE
    /\ IF kind = "themes" THEN maker' = [maker EXCEPT ![k].at = "read"]
       ELSE IF maker[k].rows = {} THEN Ends(k)
       ELSE maker' = [maker EXCEPT ![k].at = "insert"]
    /\ UNCHANGED <<kind, journal, world, tries>>

\* surface_themes' query for the most connected entities.
ReadsGraph(k) ==
    /\ maker[k].at = "read"
    /\ last' = Rows(maker[k].run, Themes)
    /\ IF last' = {} THEN Ends(k)
       ELSE maker' = [maker EXCEPT ![k].at = "insert", ![k].rows = last']
    /\ UNCHANGED <<kind, journal, world, shown, amid, cut, tries>>

\* One INSERT, a transaction of its own (create_assumption, create_mental_model).
Inserts(k, r) ==
    /\ maker[k].at = "insert" /\ r \in maker[k].rows
    /\ shown' = shown \cup {r}
    /\ IF maker[k].rows = {r} THEN Ends(k) ELSE maker' = [maker EXCEPT ![k].rows = @ \ {r}]
    /\ UNCHANGED <<kind, journal, world, last, amid, cut, tries>>

\* The call dies, or a query or the model fails: what it closed stays closed.
Breaks(k) ==
    /\ maker[k].at # "idle"
    /\ cut' = (cut \/ k \in Inside)
    /\ Ends(k)
    /\ UNCHANGED <<kind, journal, world, shown, last, amid, tries>>

JournalGrows(shift) ==
    /\ kind \in {"chapters", "themes"} /\ Len(journal) < MaxJournal
    /\ journal' = Append(journal, shift)
    /\ UNCHANGED <<kind, world, shown, maker, last, amid, cut, tries>>

Learns(x) ==
    /\ kind # "chapters" /\ x \notin world /\ world' = world \cup {x}
    /\ UNCHANGED <<kind, journal, shown, maker, last, amid, cut, tries>>

SnNext ==
    \/ \E k \in Makers : \/ MakerBegins(k) \/ ClosesShown(k) \/ ReadsGraph(k) \/ Breaks(k)
                         \/ \E r \in maker[k].rows : Inserts(k, r)
    \/ \E shift \in BOOLEAN : JournalGrows(shift)
    \/ \E x \in Subjects : Learns(x)

SnSpec == SnInit /\ [][SnNext]_snVars

-------------------------------------------------------------------------------
SnTypeOK ==
    /\ kind \in Kinds /\ journal \in Seq(BOOLEAN) /\ world \subseteq Subjects
    /\ \A r \in shown : r.run \in 1..tries

\* "The active set stays a fresh, bounded snapshot" (narrative_generate): what is
\* live of a kind was written by one run, and one more for every run that was
\* amid its inserts when the latest one closed the rest.
BoundedSnapshot == Cardinality({r.run : r \in shown}) <= 1 + amid

\* Between runs the snapshot is the whole result of the latest run, although it
\* was written row by row, unless a run was cut short or overlapped.
WholeSnapshot == Inside = {} /\ amid = 0 /\ ~cut => shown = last

\* The chapters of one run divide the episodes it read: in order, without gap or
\* overlap, each starting at a shift and all but the last of the least length.
ChaptersDivide ==
    kind = "chapters" =>
    LET chapters == {r.is : r \in last}
        lengths(c) == c.end - c.first + 1
    IN  \A c \in chapters :
            /\ c.first = 1 \/ (journal[c.first] /\ \E d \in chapters : d.end = c.first - 1)
            /\ lengths(c) >= Least \/ \A d \in chapters : d.end <= c.end
            /\ \A d \in chapters : d = c \/ d.end < c.first \/ c.end < d.first

\* The chapters, themes, signals or models on show are the whole of one run, and
\* more only by overlaps and broken runs; chapters divide what was read.
SnapshotsWhole == SnTypeOK /\ BoundedSnapshot /\ WholeSnapshot /\ ChaptersDivide
===============================================================================
