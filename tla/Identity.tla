------------------------------- MODULE Identity -------------------------------
(***************************************************************************)
(* The self-model (identity/__init__.py): proposals for one predicate of    *)
(* identity_facts, each a read of the live fact and, later in the same       *)
(* transaction, an insert and the closing of the fact that was read; and     *)
(* the conflict pass of consolidation, which closes the weaker of two live   *)
(* facts, in pairs it read beforehand.  Ids are in the order of insertion.   *)
(***************************************************************************)
EXTENDS Naturals, Sequences, FiniteSets

CONSTANTS
    Proposers,   \* callers of propose_identity_fact
    Confidences, \* confidences they come with
    MaxFacts     \* bound: rows

ASSUME IdentityAssumption == Confidences \subseteq Nat /\ MaxFacts \in Nat

VARIABLES
    fact,      \* identity_facts of the predicate, in order of insertion
    proposal,  \* the transaction in progress, by proposer
    crossed,   \* history: proposals that wrote after another had since they read
    dropped,   \* invalidate_identity_fact calls so far
    pass,      \* _pass_conflict_resolve: pairs left, invalidations when it read them
    adrift     \* history: facts it closed after an invalidation since it read

idVars == <<fact, proposal, crossed, dropped, pass, adrift>>

NoProposal == [at |-> "idle", conf |-> 0, saw |-> 0, rows |-> 0]
Live == {i \in DOMAIN fact : fact[i].live}
LiveConf(f) == {f[i].conf : i \in {j \in DOMAIN f : f[j].live}}

IdInit ==
    /\ fact = <<>>
    /\ proposal = [p \in Proposers |-> NoProposal]
    /\ crossed = 0 /\ dropped = 0
    /\ pass = [pairs |-> {}, since |-> 0] /\ adrift = 0

\* propose_identity_fact: fetchone of the live facts, in no order; a proposal
\* that is no stronger changes nothing.
ReadLive(p, conf) ==
    /\ proposal[p].at = "idle"
    /\ \E saw \in IF Live = {} THEN {0} ELSE Live :
        /\ saw # 0 => conf > fact[saw].conf
        /\ proposal' = [proposal EXCEPT ![p] =
                [at |-> "write", conf |-> conf, saw |-> saw, rows |-> Len(fact)]]
    /\ UNCHANGED <<fact, crossed, dropped, pass, adrift>>

\* mutant: whatever is live for the predicate is closed
Closes_All(i, p) == fact[i].live

\* UPDATE ... WHERE id = existing AND valid_to IS NULL.
Closes(i, p) == i = proposal[p].saw /\ fact[i].live

WriteFact(p) ==
    /\ proposal[p].at = "write"
    /\ Len(fact) < MaxFacts
    /\ LET new == Len(fact) + 1 IN
        fact' = Append([i \in DOMAIN fact |->
                            IF Closes(i, p) THEN [fact[i] EXCEPT !.live = FALSE, !.by = new]
                            ELSE fact[i]],
                       [conf |-> proposal[p].conf, live |-> TRUE, by |-> 0])
    /\ crossed' = IF Len(fact) > proposal[p].rows THEN crossed + 1 ELSE crossed
    /\ proposal' = [proposal EXCEPT ![p] = NoProposal]
    /\ UNCHANGED <<dropped, pass, adrift>>

\* invalidate_identity_fact.
Drop(i) ==
    /\ fact[i].live
    /\ fact' = [fact EXCEPT ![i].live = FALSE]
    /\ dropped' = dropped + 1
    /\ UNCHANGED <<proposal, crossed, pass, adrift>>

\* Of two facts the more confident stays, of equals the one with the smaller id.
Above(i, j) == fact[i].conf > fact[j].conf \/ (fact[i].conf = fact[j].conf /\ i < j)

\* _pass_conflict_resolve: the pairs of live facts ...
ResolveReads ==
    /\ pass.pairs = {}
    /\ \E i, j \in Live : i # j
    /\ pass' = [pairs |-> {p \in Live \X Live : Above(p[2], p[1])}, since |-> dropped]
    /\ UNCHANGED <<fact, proposal, crossed, dropped, adrift>>

\* ... and for each the weaker one: UPDATE ... WHERE id = lower AND valid_to IS NULL.
Resolves(pair) ==
    /\ fact' = IF fact[pair[1]].live
               THEN [fact EXCEPT ![pair[1]].live = FALSE, ![pair[1]].by = pair[2]] ELSE fact
    /\ adrift' = IF fact[pair[1]].live /\ dropped # pass.since THEN adrift + 1 ELSE adrift
    /\ pass' = [pass EXCEPT !.pairs = @ \ {pair}]
    /\ UNCHANGED <<proposal, crossed, dropped>>

IdNext ==
    \/ ResolveReads \/ \E pair \in pass.pairs : Resolves(pair)
    \/ \E p \in Proposers : WriteFact(p) \/ \E conf \in Confidences : ReadLive(p, conf)
    \/ \E i \in DOMAIN fact : Drop(i)

IdSpec == IdInit /\ [][IdNext]_idVars

-------------------------------------------------------------------------------
IdTypeOK ==
    /\ \A i \in DOMAIN fact : fact[i].conf \in Confidences /\ fact[i].by \in 0..Len(fact)
    /\ crossed \in Nat /\ dropped \in Nat
    /\ \A p \in pass.pairs : {p[1], p[2]} \subseteq DOMAIN fact

\* propose_identity_fact leaves one live fact per predicate, and one more for
\* every proposal that was overtaken between its read and its write.
OneLiveFact == Cardinality(Live) <= 1 + crossed

\* What get_identity_context shows, the strongest live fact, is never replaced
\* by something weaker, however proposals and the conflict pass overlap: only an
\* invalidation takes it away, or the pass, when an invalidation since it read its
\* pairs has taken the fact that was to stay.
ContextNeverWeakens ==
    [][\A x \in LiveConf(fact) :
            dropped' # dropped \/ adrift' # adrift \/ \E y \in LiveConf(fact') : y >= x]_idVars
===============================================================================
