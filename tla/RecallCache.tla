----------------------------- MODULE RecallCache -----------------------------
(***************************************************************************)
(* POST /api/recall over its cache, while /api/ingest and everything else   *)
(* changes what can be recalled (api_server.py).  An entry's key carries    *)
(* the scope's generation, which ingest advances after its commit and       *)
(* before its answer; nothing else advances it.  One query of one scope,    *)
(* which every memory here matches; Redis is external and may be out of     *)
(* reach for a call or lose its keys.                                       *)
(***************************************************************************)
EXTENDS Naturals, FiniteSets

CONSTANTS
    Mems,        \* memories that are ingested
    Readers,     \* recalls in progress
    MaxTroubles  \* bound: Redis failures and restarts

RecallAssumption == IsFiniteSet(Mems) /\ MaxTroubles \in Nat

VARIABLES
    row,       \* memories: "none", "ingesting" (committed, not answered), "known", "hidden"
    gen,       \* recall:gen:{scope}
    cached,    \* cache:recall:{scope}:{gen}: the memories of the entry, {} of one none
    reader,    \* the recall in progress
    unbumped,  \* history: ingests whose bump Redis did not take
    revived,   \* history: generations written by a recall older than Redis's last restart
    troubles

rcVars == <<row, gen, cached, reader, unbumped, revived, troubles>>

Gens == 0..Cardinality(Mems)
NoEntry == {}
Entry(ms) == {ms}
Recallable == {m \in Mems : row[m] \in {"ingesting", "known"}}
Resting == [at |-> "idle", gen |-> 0, since |-> {}, got |-> {}, blind |-> FALSE, old |-> FALSE,
            missed |-> {}]

RCInit ==
    /\ row = [m \in Mems |-> "none"]
    /\ gen = 0 /\ cached = [g \in Gens |-> NoEntry]
    /\ reader = [r \in Readers |-> Resting]
    /\ unbumped = {} /\ revived = {} /\ troubles = 0

Trouble == troubles < MaxTroubles /\ troubles' = troubles + 1

\* ingest: governance.add commits the memory ...
Ingest(m) ==
    /\ row[m] = "none"
    /\ row' = [row EXCEPT ![m] = "ingesting"]
    /\ UNCHANGED <<gen, cached, reader, unbumped, revived, troubles>>

\* mutant: the generation stays
Bumped_Never(g) == g

Bumped(g) == g + 1

\* ... _bump_recall_gen advances the generation, and ingest answers.
Bump(m) ==
    /\ row[m] = "ingesting"
    /\ row' = [row EXCEPT ![m] = "known"]
    /\ \/ gen' = Bumped(gen) /\ UNCHANGED <<unbumped, troubles>>
       \/ Trouble /\ unbumped' = unbumped \cup {m} /\ UNCHANGED gen
    /\ UNCHANGED <<cached, reader, revived>>

\* invalidate_memory, a classification as hypothesis or a consolidation pass:
\* the memory is not recallable any more, and the generation stays.
Hide(m) ==
    /\ row[m] = "known"
    /\ row' = [row EXCEPT ![m] = "hidden"]
    /\ UNCHANGED <<gen, cached, reader, unbumped, revived, troubles>>

\* The answer, and what it misses: known before the recall began, still
\* recallable, and no failure of Redis to blame.
Answered(r, got, blind) ==
    [Resting EXCEPT !.missed = IF blind THEN {} ELSE (reader[r].since \cap Recallable) \ got]

\* recall: _recall_gen, "0" if Redis does not answer.
ReadsGen(r) ==
    /\ reader[r].at = "idle"
    /\ \E blind \in BOOLEAN :
        /\ IF blind THEN Trouble ELSE UNCHANGED troubles
        /\ reader' = [reader EXCEPT ![r] =
                [at |-> "lookup", gen |-> IF blind THEN 0 ELSE gen, got |-> {},
                 since |-> {m \in Mems : row[m] = "known"} \ unbumped,
                 blind |-> blind, old |-> FALSE, missed |-> {}]]
    /\ UNCHANGED <<row, gen, cached, unbumped, revived>>

\* recall: the entry, if there is one and Redis answers, is the answer.
LooksUp(r) ==
    /\ reader[r].at = "lookup"
    /\ \/ \E ms \in cached[reader[r].gen] :
          /\ reader' = [reader EXCEPT ![r] =
                Answered(r, ms, reader[r].blind \/ reader[r].gen \in revived)]
          /\ UNCHANGED troubles
       \/ /\ IF cached[reader[r].gen] = NoEntry THEN UNCHANGED troubles ELSE Trouble
          /\ reader' = [reader EXCEPT ![r].at = "dense"]
    /\ UNCHANGED <<row, gen, cached, unbumped, revived>>

\* retrieve: the dense and the sparse query run in transactions of their own;
\* a memory whose embedding is not there yet is only found by the second.
Dense(r) ==
    /\ reader[r].at = "dense"
    /\ \E found \in {{}, Recallable} :
        reader' = [reader EXCEPT ![r] = [@ EXCEPT !.at = "sparse", !.got = found]]
    /\ UNCHANGED <<row, gen, cached, unbumped, revived, troubles>>

Sparse(r) ==
    /\ reader[r].at = "sparse"
    /\ reader' = [reader EXCEPT ![r].at = "store", ![r].got = @ \cup Recallable]
    /\ UNCHANGED <<row, gen, cached, unbumped, revived, troubles>>

\* The key was built before the lookup.
KeyOf(r) == reader[r].gen

Stores(r) ==
    /\ reader[r].at = "store"
    /\ \/ /\ cached' = [cached EXCEPT ![KeyOf(r)] = Entry(reader[r].got)]
          /\ revived' = IF reader[r].old \/ reader[r].blind THEN revived \cup {KeyOf(r)} ELSE revived \ {KeyOf(r)}
          /\ UNCHANGED troubles
       \/ Trouble /\ UNCHANGED <<cached, revived>>
    /\ reader' = [reader EXCEPT ![r] = Answered(r, reader[r].got, reader[r].blind)]
    /\ UNCHANGED <<row, gen, unbumped>>

\* The TTL.
Expires(g) ==
    /\ cached[g] # NoEntry
    /\ cached' = [cached EXCEPT ![g] = NoEntry]
    /\ UNCHANGED <<row, gen, reader, unbumped, revived, troubles>>

RedisRestarts ==
    /\ Trouble
    /\ gen' = 0 /\ cached' = [g \in Gens |-> NoEntry]
    /\ reader' = [r \in Readers |-> [reader[r] EXCEPT !.old = reader[r].at # "idle"]]
    /\ revived' = {}
    /\ UNCHANGED <<row, unbumped>>

RCNext ==
    \/ \E m \in Mems : Ingest(m) \/ Bump(m) \/ Hide(m)
    \/ \E r \in Readers : ReadsGen(r) \/ LooksUp(r) \/ Dense(r) \/ Sparse(r) \/ Stores(r)
    \/ \E g \in Gens : Expires(g)
    \/ RedisRestarts

RCSpec == RCInit /\ [][RCNext]_rcVars

-------------------------------------------------------------------------------
RCTypeOK ==
    /\ row \in [Mems -> {"none", "ingesting", "known", "hidden"}]
    /\ gen \in Gens /\ unbumped \subseteq Mems /\ revived \subseteq Gens
    /\ \A r \in Readers : reader[r].gen \in Gens /\ reader[r].got \subseteq Mems

\* "Any write (ingest) invalidates every prior entry instantly": what a recall
\* answers, from the cache or not, contains everything whose ingest had answered
\* before the recall began and that is still recallable, unless Redis failed the
\* bump or this recall's read of the generation, or lost the counter under a
\* recall in progress.
NothingMissed == \A r \in Readers : reader[r].missed = {}

\* The same, with every state well typed.
RecallSeesIngest == RCTypeOK /\ NothingMissed

\* Why it holds.  Ingests that answered count the generation up to at most their
\* number; a recall in progress since Redis's last restart is Fresh.
Recalls == [at : {"idle", "lookup", "dense", "sparse", "store"}, gen : Gens, got : SUBSET Mems,
            since : SUBSET Mems, blind : BOOLEAN, old : BOOLEAN, missed : SUBSET Mems]
Answering == {m \in Mems : row[m] \in {"known", "hidden"}}
Sure == {m \in Mems : row[m] = "known"} \ unbumped
Seeing == {r \in Readers : reader[r].at # "idle" /\ ~reader[r].blind}
Fresh == {r \in Seeing : ~reader[r].old}

GensCounted ==
    /\ reader \in [Readers -> Recalls] /\ cached \in [Gens -> SUBSET SUBSET Mems]
    /\ gen <= Cardinality(Answering)
    /\ \A r \in Fresh : reader[r].gen <= gen
    /\ \A g \in Gens \ revived : g > gen => cached[g] = NoEntry

\* What a recall must answer was known when it began; fresh recalls of one
\* generation owe the same, those of the current one all that is sure by now, and
\* a recall older than the restart owes no more than the fresh ones.
OwesAgree ==
    /\ \A r \in Readers :
        /\ reader[r].since \subseteq Answering \ unbumped
        /\ reader[r].at = "store" => reader[r].since \cap Recallable \subseteq reader[r].got
    /\ \A r \in Fresh : reader[r].gen = gen => Sure \subseteq reader[r].since
    /\ \A r \in Fresh, q \in Fresh : reader[r].gen = reader[q].gen =>
            reader[r].since \cap Recallable \subseteq reader[q].since
    /\ \A r \in Seeing \ Fresh, q \in Fresh : reader[r].since \cap Recallable \subseteq reader[q].since

\* An entry no failure accounts for holds what recalls that may take it owe.
EntriesServe ==
    \A g \in Gens \ revived : \A ms \in cached[g] :
        /\ g = gen => Sure \subseteq ms
        /\ \A r \in Fresh : reader[r].gen = g => reader[r].since \cap Recallable \subseteq ms
        /\ \A r \in Seeing \ Fresh : reader[r].since \cap Recallable \subseteq ms

RecallInv == RCTypeOK /\ NothingMissed /\ GensCounted /\ OwesAgree /\ EntriesServe
===============================================================================
