------------------------------- MODULE Lessons -------------------------------
(***************************************************************************)
(* Decisions, outcomes and lessons (cognition/decision_loop, and            *)
(* goals.review_decision): a review records an outcome and may carry a      *)
(* lesson; the weekly reflection distils the surprising outcomes no lesson  *)
(* derives from yet, and lets the lessons nobody confirms fade.  Statements *)
(* are alike when they are about the same topic (cosine >= 0.85).           *)
(***************************************************************************)
EXTENDS Naturals, FiniteSets

CONSTANTS
    Topics,        \* what a lesson can be about
    Calls,         \* reviews and distillations in progress
    MaxOutcomes, MaxLessons,  \* bounds: rows
    Gaps           \* bound: weeks between two runs of the decay, of DecayFactor's domain

LessonsAssumption ==
    MaxOutcomes \in Nat /\ MaxLessons \in Nat /\ Gaps \subseteq {1, 5} /\ IsFiniteSet(Calls)

VARIABLES
    outcome,    \* outcomes: absent, or whether its Brier surprise is >= 0.25
    lesson,     \* lessons, in hundredths of confidence
    entity,     \* knowledge_entities labelled Lesson, per lesson
    at,         \* the call in progress, per caller
    twice,      \* history: lessons confirmed again by an outcome they already had
    parallel    \* history: creations that began before another one ended

lesVars == <<outcome, lesson, entity, at, twice, parallel>>

Outcomes == 1..MaxOutcomes
Ids == 1..MaxLessons
NoLesson == [status |-> "none", topic |-> "", support |-> 0, from |-> {}, conf |-> 0]
Waiting == [step |-> "idle", todo |-> {}, out |-> 0, topic |-> "", nearest |-> 0]
Known == {l \in Ids : lesson[l].status # "none"}
Retrievable == {"provisional", "validated"}

\* 0.5 ^ (7 * weeks / 30), in hundredths.
DecayFactor == [w \in {1, 5} |-> IF w = 1 THEN 85 ELSE 44]
Floor == 10
RetireBelow == 5

LesInit ==
    /\ outcome = [o \in Outcomes |-> "none"]
    /\ lesson = [l \in Ids |-> NoLesson]
    /\ entity = [l \in Ids |-> 0]
    /\ at = [c \in Calls |-> Waiting]
    /\ twice = {} /\ parallel = 0

NextOutcome(o) == outcome[o] = "none" /\ \A q \in 1..(o - 1) : outcome[q] # "none"
Reserved(o) == \E c \in Calls : at[c].step = "write" /\ at[c].out = o /\ outcome[o] = "none"

\* review_decision without a lesson: record_outcome in one transaction.
Review(o, kind) ==
    /\ NextOutcome(o) /\ ~Reserved(o)
    /\ outcome' = [outcome EXCEPT ![o] = kind]
    /\ UNCHANGED <<lesson, entity, at, twice, parallel>>

\* The row the nearest-neighbour query returns: the lesson of the topic, any of
\* them if there are several, whatever its status; 0 if none is close enough.
Nearest(topic, l) ==
    LET alike == {k \in Known : lesson[k].topic = topic}
    IN  IF alike = {} THEN l = 0 ELSE l \in alike

Writing(topic) == {c \in Calls : at[c].step = "write" /\ at[c].nearest = 0 /\ at[c].topic = topic}

\* distill_or_reinforce_lesson up to its SELECT.
Looks(c, o, topic, todo) ==
    \E l \in Ids \cup {0} :
        /\ Nearest(topic, l)
        /\ at' = [at EXCEPT ![c] = [step |-> "write", todo |-> todo, out |-> o,
                                    topic |-> topic, nearest |-> l]]
        /\ parallel' = parallel + IF l = 0 THEN Cardinality(Writing(topic)) ELSE 0

\* review_decision with a lesson: its outcome is not visible before the commit.
ReviewWithLesson(c, o, topic) ==
    /\ at[c].step = "idle" /\ NextOutcome(o) /\ ~Reserved(o)
    /\ Looks(c, o, topic, {})
    /\ UNCHANGED <<outcome, lesson, entity, twice>>

\* distill_lessons_from_outcomes: the candidates are read once.
DistillStarts(c) ==
    /\ at[c].step = "idle"
    /\ LET todo == {o \in Outcomes : outcome[o] = "surprising"
                                     /\ \A l \in Known : o \notin lesson[l].from}
       IN  /\ todo # {}
           /\ at' = [at EXCEPT ![c] = [Waiting EXCEPT !.step = "distil", !.todo = todo]]
    /\ UNCHANGED <<outcome, lesson, entity, twice, parallel>>

\* distill_lessons_from_outcomes: the model words one candidate's lesson.
DistillOne(c, o, topic) ==
    /\ at[c].step = "distil" /\ o \in at[c].todo
    /\ Looks(c, o, topic, at[c].todo \ {o})
    /\ UNCHANGED <<outcome, lesson, entity, twice>>

\* mutant: the second confirmation validates
Confirmed_Early(status, support) ==
    IF status = "provisional" /\ support + 1 >= 2 THEN "validated" ELSE status

\* The third supporting outcome validates; a retired lesson stays retired.
Confirmed(status, support) ==
    IF status = "provisional" /\ support + 1 >= 3 THEN "validated" ELSE status

MinOf2(x, y) == IF x <= y THEN x ELSE y

Reinforced(l, o) ==
    [lesson[l] EXCEPT !.support = @ + 1, !.from = @ \cup {o}, !.conf = MinOf2(100, @ + 10),
                      !.status = Confirmed(@, lesson[l].support)]

\* The lesson written: the one found, or the next new one.
Target(c) ==
    IF at[c].nearest # 0 THEN at[c].nearest
    ELSE CHOOSE l \in Ids : l \notin Known /\ \A k \in 1..(l - 1) : k \in Known

\* The rest of the transaction: reinforce or insert, then mirror_lesson_to_kg,
\* which mints the entity unless the row, locked by then, already names one.
WriteLesson(c) ==
    /\ at[c].step = "write"
    /\ Cardinality(Known) < MaxLessons \/ at[c].nearest # 0
    /\ LET l == Target(c)  o == at[c].out IN
        /\ lesson' = [lesson EXCEPT ![l] =
                IF l \in Known THEN Reinforced(l, o)
                ELSE [status |-> "provisional", topic |-> at[c].topic, support |-> 1,
                      from |-> {o}, conf |-> 50]]
        /\ twice' = IF l \in Known /\ o \in lesson[l].from THEN twice \cup {l} ELSE twice
        /\ entity' = [entity EXCEPT ![l] = IF @ = 0 THEN 1 ELSE @]
        /\ outcome' = [outcome EXCEPT ![o] = IF @ = "none" THEN "plain" ELSE @]
    /\ at' = [at EXCEPT ![c] = IF @.todo = {} THEN Waiting ELSE [Waiting EXCEPT !.step = "distil", !.todo = @]]
    /\ UNCHANGED parallel

\* decay_lesson_confidence, weeks after the last run.
Decayed(l, weeks) ==
    LET raw == lesson[l].conf * DecayFactor[weeks]
    IN  IF lesson[l].status \notin Retrievable THEN lesson[l]
        ELSE IF raw < 100 * RetireBelow THEN [lesson[l] EXCEPT !.status = "retired"]
        ELSE [lesson[l] EXCEPT !.conf = IF raw \div 100 < Floor THEN Floor ELSE raw \div 100]

Decay(weeks) ==
    /\ lesson' = [l \in Ids |-> Decayed(l, weeks)]
    /\ UNCHANGED <<outcome, entity, at, twice, parallel>>

LesNext ==
    \/ \E o \in Outcomes : \E kind \in {"plain", "surprising"} : Review(o, kind)
    \/ \E c \in Calls, o \in Outcomes, t \in Topics : ReviewWithLesson(c, o, t) \/ DistillOne(c, o, t)
    \/ \E c \in Calls : DistillStarts(c) \/ WriteLesson(c)
    \/ \E w \in Gaps : Decay(w)

LesSpec == LesInit /\ [][LesNext]_lesVars

-------------------------------------------------------------------------------
LesTypeOK ==
    /\ outcome \in [Outcomes -> {"none", "plain", "surprising"}]
    /\ \A l \in Ids : lesson[l].conf \in 0..100 /\ lesson[l].from \subseteq Outcomes
    /\ entity \in [Ids -> {0, 1}]

\* A validated lesson rests on three different outcomes, unless two overlapping
\* distillations gave it one outcome twice (support_count counts events).
ValidatedByThree ==
    \A l \in Ids \ twice : lesson[l].status = "validated" => Cardinality(lesson[l].from) >= 3

\* Lessons that say the same never exist side by side, except for one more per
\* creation that overlapped another.
NoCloneLessons ==
    \A t \in Topics : Cardinality({l \in Known : lesson[l].topic = t}) <= 1 + parallel

\* A validated lesson rests on three different outcomes, and lessons that say the
\* same come only from overlapping distillations (cognition/decision_loop).
LessonsSound == LesTypeOK /\ ValidatedByThree /\ NoCloneLessons
===============================================================================
