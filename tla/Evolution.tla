------------------------------ MODULE Evolution ------------------------------
(***************************************************************************)
(* The versions of one evolvable prompt (orchestration/evolution.py):       *)
(* proposed, evaluated against the golden tasks and the active version, and *)
(* activated through the policy decision point.  Both evaluation and        *)
(* activation read in one transaction, wait (for a model, for Redis) and    *)
(* write in another that asks nothing about what was read.                  *)
(***************************************************************************)
EXTENDS PDP, FiniteSets

CONSTANTS
    Callers,      \* requests to the evolution endpoints
    NumPrompts,   \* bound: versions
    MaxEvals      \* bound: evaluations and changes of the controls

EvolutionAssumption == NumPrompts \in Nat /\ MaxEvals \in Nat /\ IsFiniteSet(Callers)

VARIABLES
    prompt,     \* prompt_versions joined with their evaluation_runs row
    approval,   \* the state of the one self_modify approval, "none" once it lapsed
    killed,     \* the kill switch
    caller,     \* the request in progress, by caller
    late,       \* history: versions an evaluation reached during or after their activation
    overlaps,   \* history: switches that began before another one ended
    spent       \* evaluations and control changes so far

evoVars == <<prompt, approval, killed, caller, late, overlaps, spent>>

Versions == 1..NumPrompts
PassThreshold == 1
Rates == 0..2
NoPrompt == [status |-> "none", decision |-> "none", rate |-> 0, against |-> 0, replaced |-> {}]
NoCall == [at |-> "idle", pmt |-> 0, rate |-> 0, against |-> 0, pass |-> FALSE, saw |-> "none",
           snap |-> {}]

ActiveNow == {p \in Versions : prompt[p].status = "active"}

EvoInit ==
    /\ prompt = [p \in Versions |-> NoPrompt]
    /\ approval = "pending" /\ killed = FALSE
    /\ caller = [c \in Callers |-> NoCall]
    /\ late = {} /\ overlaps = 0 /\ spent = 0

Spend == spent < MaxEvals /\ spent' = spent + 1

\* propose_prompt: max(version) + 1.
Propose(p) ==
    /\ prompt[p].status = "none" /\ \A q \in 1..(p - 1) : prompt[q].status # "none"
    /\ prompt' = [prompt EXCEPT ![p].status = "candidate"]
    /\ UNCHANGED <<approval, killed, caller, late, overlaps, spent>>

\* evaluate_prompt, up to the model.
EvalReads(c, p) ==
    /\ caller[c].at = "idle" /\ prompt[p].status \in {"candidate", "held"}
    /\ Spend
    /\ caller' = [caller EXCEPT ![c] = [NoCall EXCEPT !.at = "asked", !.pmt = p]]
    /\ UNCHANGED <<prompt, approval, killed, late, overlaps>>

\* mutant: a version only has to reach the threshold
Passes_AnyBaseline(rate, b) == rate >= PassThreshold

\* The verdict: the threshold, and no worse than the active version (0: none).
Passes(rate, b) == rate >= PassThreshold /\ (b # 0 => rate >= prompt[b].rate)

\* evaluate_prompt: the plans are scored, _active_pass_rate reads the baseline
\* of one active version.
EvalScores(c) ==
    /\ caller[c].at = "asked"
    /\ \E rate \in Rates, b \in ActiveNow \cup {0} :
        /\ b = 0 <=> ActiveNow = {}
        /\ caller' = [caller EXCEPT ![c] = [@ EXCEPT !.at = "scored", !.rate = rate,
                                            !.against = b, !.pass = Passes(rate, b)]]
    /\ UNCHANGED <<prompt, approval, killed, late, overlaps, spent>>

Activating(p) == \E d \in Callers : caller[d].pmt = p /\ caller[d].at \in {"gate", "retire", "commit"}

\* evaluate_prompt: the second transaction.  A pass never lifts 'held', and a
\* held verdict is written whatever the version has become.
EvalWrites(c) ==
    /\ caller[c].at = "scored"
    /\ LET p == caller[c].pmt IN
        /\ prompt' = [prompt EXCEPT ![p] = [@ EXCEPT
                !.decision = IF caller[c].pass THEN "promote" ELSE "hold",
                !.rate = caller[c].rate, !.against = caller[c].against,
                !.status = IF caller[c].pass THEN prompt[p].status ELSE "held"]]
        /\ late' = IF prompt[p].status \in {"active", "retired"} \/ Activating(p)
                   THEN late \cup {p} ELSE late
    /\ caller' = [caller EXCEPT ![c] = NoCall]
    /\ UNCHANGED <<approval, killed, overlaps, spent>>

\* activate_prompt: the version, its evaluation and the approval are read.
ActivateReads(c, p) ==
    /\ caller[c].at = "idle" /\ prompt[p].status = "candidate"
    /\ caller' = [caller EXCEPT ![c] = [NoCall EXCEPT !.at = "gate", !.pmt = p,
                    !.pass = prompt[p].decision = "promote", !.saw = approval]]
    /\ UNCHANGED <<prompt, approval, killed, late, overlaps, spent>>

ActivationRequest(call) ==
    [class |-> "self_modify", agentLevel |-> ConfirmEach, workspaceLevel |-> ConfirmEach,
     killGlobal |-> killed, killAgent |-> FALSE, killUnreadable |-> FALSE,
     covered |-> TRUE, hostAllowed |-> TRUE, budgetHard |-> FALSE,
     evalPassed |-> call.pass, dryRun |-> FALSE, bigSpend |-> FALSE,
     private |-> FALSE, approval |-> call.saw]

\* activate_prompt: read_kill and decide; anything but ALLOW is refused.
ActivateGate(c) ==
    /\ caller[c].at = "gate"
    /\ caller' = [caller EXCEPT ![c] =
            IF Decide(ActivationRequest(caller[c])).verdict = "ALLOW"
            THEN [@ EXCEPT !.at = "retire"] ELSE NoCall]
    /\ UNCHANGED <<prompt, approval, killed, late, overlaps, spent>>

\* activate_prompt: the UPDATE that retires sees the versions active when it
\* starts, and waits for their rows if another switch holds them.
ActivateRetires(c) ==
    /\ caller[c].at = "retire"
    /\ overlaps' = overlaps + Cardinality({d \in Callers : caller[d].at = "commit"})
    /\ caller' = [caller EXCEPT ![c] = [@ EXCEPT !.at = "commit", !.snap = ActiveNow]]
    /\ UNCHANGED <<prompt, approval, killed, late, spent>>

Retired(p, c) == p \in caller[c].snap /\ prompt[p].status = "active"

ActivateCommits(c) ==
    /\ caller[c].at = "commit"
    /\ prompt' = [p \in Versions |->
            IF p = caller[c].pmt
            THEN [prompt[p] EXCEPT !.status = "active", !.replaced = ActiveNow \ {p}]
            ELSE IF Retired(p, c) THEN [prompt[p] EXCEPT !.status = "retired"]
            ELSE prompt[p]]
    /\ caller' = [caller EXCEPT ![c] = NoCall]
    /\ UNCHANGED <<approval, killed, late, overlaps, spent>>

\* The approval is granted, or lapses; the panic button.
ControlsChange ==
    /\ Spend
    /\ \/ approval = "pending" /\ approval' = "granted" /\ UNCHANGED killed
       \/ approval' = "none" /\ UNCHANGED killed
       \/ killed' = ~killed /\ UNCHANGED approval
    /\ UNCHANGED <<prompt, caller, late, overlaps>>

EvoNext ==
    \/ \E p \in Versions : Propose(p) \/ \E c \in Callers : EvalReads(c, p) \/ ActivateReads(c, p)
    \/ \E c \in Callers : \/ EvalScores(c) \/ EvalWrites(c)
                          \/ ActivateGate(c) \/ ActivateRetires(c) \/ ActivateCommits(c)
    \/ ControlsChange

EvoSpec == EvoInit /\ [][EvoNext]_evoVars

-------------------------------------------------------------------------------
EvoTypeOK ==
    /\ \A p \in Versions : prompt[p].status \in {"none", "candidate", "active", "held", "retired"}
    /\ late \subseteq Versions

\* activate_prompt retires the previous active version: there is never more than
\* one, except for one more per switch that overlapped another.
OneActive == Cardinality(ActiveNow) <= 1 + overlaps

\* The gate refuses a regression: a version judged against the one it replaces
\* is not worse than it.  (One judged against an older baseline may be, and an
\* evaluation that lands during or after an activation changes the figures.)
NoRegression ==
    \A p \in ActiveNow : \A q \in prompt[p].replaced :
        prompt[p].against = q /\ {p, q} \cap late = {} => prompt[p].rate >= prompt[q].rate

\* A version is not worse than the one it replaced and was judged against, and two
\* are active only by overlapping switches (orchestration/evolution.py).
VersionsSound == EvoTypeOK /\ NoRegression /\ OneActive
===============================================================================
