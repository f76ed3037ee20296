------------------------------ MODULE Reflection ------------------------------
(***************************************************************************)
(* Reflection and what it leaves on the self-model and on goals: the        *)
(* endpoints of api_server.py run cognition/reflection, which proposes what *)
(* it is sure of to identity and stores a report, and then promote the best *)
(* candidate of all reports and land the newest report's goal delta.  Daily *)
(* reports get neither; weekly and monthly ones differ in windows and       *)
(* prompts only.  One predicate and one goal; the facts and their proposals *)
(* are those of Identity.  Confidences are 1 below 0.7, 2 up to 0.75 and 3  *)
(* from there.  The goal is an active one, so every report has a delta for  *)
(* it; that a completed one sets its progress is left out, and so is the    *)
(* refresh script, which deletes the reports before it reflects.            *)
(***************************************************************************)
EXTENDS Identity

CONSTANTS
    MaxReports,  \* bound: reports
    MaxSlips     \* bound: failed calls and crashes

ReflectionAssumption ==
    {MaxReports, MaxSlips} \subseteq Nat /\ Confidences \subseteq 1..3

VARIABLES
    report,     \* reflection_reports in order: candidate's confidence (0: none), kind
    reflector,  \* the endpoint call in progress, by caller
    landed,     \* the goal's last_reflection: the report it is of (0: none)
    inferred,   \* history: facts reflection wrote
    unproposed, \* history: reports with a sure candidate the reflection did not propose
    overtaken,  \* history: a report was stored while a goal sync held an older one
    slips

reflectionVars == <<report, reflector, landed, inferred, unproposed, overtaken, slips>>
refVars == <<idVars, reflectionVars>>

Clamp == 2
Confident == 3
NoReport == [cand |-> 0, deep |-> FALSE]
NoReflection == [at |-> "idle", draft |-> NoReport, failed |-> FALSE, holds |-> 0]

RefInit ==
    /\ IdInit
    /\ report = <<>> /\ landed = 0
    /\ reflector = [p \in Proposers |-> NoReflection]
    /\ inferred = {} /\ unproposed = {} /\ overtaken = FALSE /\ slips = 0

At(p, place) == reflector[p].at = place
Goes(p, place) == reflector' = [reflector EXCEPT ![p].at = place]
Slips == slips < MaxSlips /\ slips' = slips + 1
\* An existing fact is at least as strong: propose_identity_fact changes nothing.
NoChange(conf) == \E i \in Live : conf <= fact[i].conf /\ UNCHANGED idVars

\* The window's episodes, and what the analysis makes of them.
Reflects(p, draft) ==
    /\ At(p, "idle") /\ proposal[p].at = "idle" /\ Len(report) < MaxReports
    /\ reflector' = [reflector EXCEPT ![p] =
            [NoReflection EXCEPT !.at = IF draft.deep /\ draft.cand >= Confident THEN "propose" ELSE "report",
                            !.draft = draft]]
    /\ UNCHANGED <<idVars, report, landed, inferred, unproposed, overtaken, slips>>

\* No episode in the window: no report, but the endpoint still goes on.
NothingToReflect(p) ==
    /\ At(p, "idle") /\ proposal[p].at = "idle" /\ Goes(p, "best")
    /\ UNCHANGED <<idVars, report, landed, inferred, unproposed, overtaken, slips>>

\* mutant: what reflection infers is proposed as sure as the model was
Proposed_Raw(p) == reflector[p].draft.cand

\* min(confidence, 0.7)
Proposed(p) == IF reflector[p].draft.cand < Clamp THEN reflector[p].draft.cand ELSE Clamp

\* Its own proposal, when it is sure.
Proposes(p) ==
    /\ At(p, "propose")
    /\ \/ ReadLive(p, Proposed(p)) /\ Goes(p, "write")
       \/ NoChange(Proposed(p)) /\ Goes(p, "report")
    /\ UNCHANGED <<report, landed, inferred, unproposed, overtaken, slips>>

WritesFact(p, from, to) ==
    /\ At(p, from) /\ WriteFact(p) /\ Goes(p, to)
    /\ inferred' = inferred \cup {Len(fact')}
    /\ UNCHANGED <<report, landed, unproposed, overtaken, slips>>

\* The exception is logged or counted, the call goes on without the proposal.
ProposalFails(p) ==
    /\ Slips
    /\ proposal' = [proposal EXCEPT ![p] = NoProposal]
    /\ \/ /\ reflector[p].at \in {"propose", "write"}
          /\ reflector' = [reflector EXCEPT ![p].at = "report", ![p].failed = TRUE]
       \/ reflector[p].at \in {"promote", "promoteWrite"} /\ Goes(p, "goals")
    /\ UNCHANGED <<fact, crossed, dropped, pass, adrift, report, landed, inferred, unproposed, overtaken>>

\* The report keeps the candidate as sure as the analysis was.
StoresReport(p) ==
    /\ At(p, "report") /\ Len(report) < MaxReports
    /\ LET draft == reflector[p].draft IN
        /\ report' = Append(report, draft)
        /\ reflector' = [reflector EXCEPT ![p] = [NoReflection EXCEPT !.at = IF draft.deep THEN "best" ELSE "idle"]]
        /\ unproposed' = IF draft.cand >= Confident /\ (reflector[p].failed \/ ~draft.deep)
                         THEN unproposed \cup {Len(report')} ELSE unproposed
    /\ overtaken' = (overtaken \/ \E q \in Proposers : At(q, "land"))
    /\ UNCHANGED <<idVars, landed, inferred, slips>>

-------------------------------------------------------------------------------
\* _sync_identity_from_reflection: the best candidate of all reports ...
FindsBest(p) ==
    /\ At(p, "best")
    /\ LET cands == {report[r].cand : r \in DOMAIN report} \ {0} IN
        IF cands = {} THEN Goes(p, "goals")
        ELSE \E best \in cands :
                /\ \A c \in cands : best >= c
                /\ reflector' = [reflector EXCEPT ![p].at = "check", ![p].holds = best]
    /\ UNCHANGED <<idVars, report, landed, inferred, unproposed, overtaken, slips>>

\* mutant: the best candidate is proposed whatever there is for the predicate
Vacant_Always == TRUE

\* ... for a predicate without a live fact, in a query of its own ...
Vacant == Live = {}

ChecksVacant(p) ==
    /\ At(p, "check") /\ Goes(p, IF Vacant THEN "promote" ELSE "goals")
    /\ UNCHANGED <<idVars, report, landed, inferred, unproposed, overtaken, slips>>

\* ... is proposed as it stands in its report.
Promotes(p) ==
    /\ At(p, "promote")
    /\ \/ ReadLive(p, reflector[p].holds) /\ Goes(p, "promoteWrite")
       \/ NoChange(reflector[p].holds) /\ Goes(p, "goals")
    /\ UNCHANGED <<report, landed, inferred, unproposed, overtaken, slips>>

\* mutant: the sync reads the oldest report
Newest_First == IF report = <<>> THEN 0 ELSE 1

\* ORDER BY created_at DESC LIMIT 1
Newest == Len(report)

\* _sync_goals_from_reflection: the newest report's delta ...
ReadsDelta(p) ==
    /\ At(p, "goals")
    /\ reflector' =
        IF Newest # 0
        THEN [reflector EXCEPT ![p].at = "land", ![p].holds = Newest]
        ELSE [reflector EXCEPT ![p] = NoReflection]
    /\ UNCHANGED <<idVars, report, landed, inferred, unproposed, overtaken, slips>>

\* ... becomes the goal's last_reflection (set_goal_reflection).
Lands(p) ==
    /\ At(p, "land")
    /\ landed' = reflector[p].holds
    /\ reflector' = [reflector EXCEPT ![p] = NoReflection]
    /\ UNCHANGED <<idVars, report, inferred, unproposed, overtaken, slips>>

\* The call is cut short: an exception outside the guarded parts, or a restart.
CutShort(p) ==
    /\ ~At(p, "idle") /\ Slips
    /\ proposal' = [proposal EXCEPT ![p] = NoProposal]
    /\ reflector' = [reflector EXCEPT ![p] = NoReflection]
    /\ UNCHANGED <<fact, crossed, dropped, pass, adrift, report, landed, inferred, unproposed, overtaken>>

\* Somebody invalidates a fact.
Invalidates == \E i \in DOMAIN fact : Drop(i) /\ UNCHANGED reflectionVars

Drafts == [cand : {0} \cup Confidences, deep : BOOLEAN]

RefNext ==
    \/ \E p \in Proposers :
        \/ (\E draft \in Drafts : Reflects(p, draft)) \/ NothingToReflect(p)
        \/ Proposes(p) \/ WritesFact(p, "write", "report") \/ ProposalFails(p) \/ StoresReport(p)
        \/ FindsBest(p) \/ ChecksVacant(p) \/ Promotes(p) \/ WritesFact(p, "promoteWrite", "goals")
        \/ ReadsDelta(p) \/ Lands(p) \/ CutShort(p)
    \/ Invalidates

RefSpec == RefInit /\ [][RefNext]_refVars

-------------------------------------------------------------------------------
RefTypeOK ==
    /\ \A r \in DOMAIN report : report[r] \in Drafts
    /\ landed \in 0..Len(report)
    /\ inferred \subseteq DOMAIN fact /\ unproposed \subseteq DOMAIN report

\* What reflection infers becomes canonical only out of a report whose candidate
\* it had not proposed itself (a daily one, or a proposal that failed), or after
\* somebody invalidated a fact: its own proposals are clamped, and the sync finds
\* their fact.
InferredStaysHypothesis ==
    \A i \in inferred : fact[i].conf >= Confident => unproposed # {} \/ dropped > 0

\* With no call in progress or cut short, the goal shows the newest report if that
\* one is not a daily one, unless it was stored while a sync held an older one.
GoalShowsNewest ==
    /\ \A p \in Proposers : At(p, "idle")
    /\ slips = 0 /\ ~overtaken /\ report # <<>>
    /\ report[Len(report)].deep
    => landed = Len(report)
===============================================================================
