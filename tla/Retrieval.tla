------------------------------ MODULE Retrieval ------------------------------
(***************************************************************************)
(* One retrieve (memory/retrieval/__init__.py) over memories that change    *)
(* while it runs: the dense, sparse and entity queries, reciprocal rank     *)
(* fusion, graph expansion, the follow-up round of the modes that have one, *)
(* and the context assembler.  What a query finds and in which order is a    *)
(* free choice among what its WHERE lets through.  Every list here is       *)
(* shorter than the LIMITs.                                                 *)
(***************************************************************************)
EXTENDS Naturals, Sequences, FiniteSets, SequencesExt

CONSTANTS
    Memories, Facts,    \* ids: memories, and identity facts the query names
    Old,            \* those old enough for the recency factor to tell
    Long, Budget,   \* the long texts; token_budget, in texts of one unit
    MaxMoves        \* bound: changes of the memories during a retrieval

\* The scores tell the ranks of 900 apart; the LIMITs are 50 and less.
RetrievalAssumption ==
    /\ IsFiniteSet(Memories \cup Facts) /\ Cardinality(Memories \cup Facts) <= 900
    /\ Memories \cap Facts = {}
    /\ Old \cup Long \subseteq Memories \cup Facts /\ Budget \in Nat /\ MaxMoves \in Nat

VARIABLES
    mem,       \* memories: "canonical", "hypothesis", "closed" (valid_to) or "none"
    mode,      \* RetrievalRequest.mode, and whether it has a follow-up round
    step,      \* where retrieve is
    pending,   \* the queries that have not answered yet
    found,     \* what each channel returned, ranked
    items,     \* the candidates in fused order
    result,    \* the assembled items
    usable,    \* history: memories this mode could see at some time since the start
    moves

retVars == <<mem, mode, step, pending, found, items, result, usable, moves>>

Findable == Memories \cup Facts
Modes == {"fast", "divergent"}
Channels == {"dense", "sparse", "entity", "graph"}

\* _epistemic_filter_for_mode; a hypothesis stands for the speculative tiers.
Admitted == IF mode = "divergent" THEN {"canonical", "hypothesis"} ELSE {"canonical"}
Visible == {m \in Memories : mem[m] \in Admitted}

RetInit ==
    /\ mem \in [Memories -> {"canonical", "hypothesis", "closed", "none"}]
    /\ mode \in Modes
    /\ step = "start" /\ pending = {"dense", "sparse", "entity"}
    /\ found = [c \in Channels |-> <<>>]
    /\ items = <<>> /\ result = <<>> /\ usable = {} /\ moves = 0

Start ==
    /\ step = "start"
    /\ usable' = Visible
    /\ step' = "channels"
    /\ UNCHANGED <<mem, mode, pending, found, items, result, moves>>

\* _dense_recall, _sparse_recall, _entity_match: side by side, each in a
\* transaction of its own.  Dense and sparse find any of the visible memories
\* (not embedded yet, not matching), the facts are subject to no status.
Query(channel) ==
    /\ step = "channels" /\ channel \in pending
    /\ pending' = pending \ {channel}
    /\ \E r \in SetToAllKPermutations(IF channel = "entity" THEN Facts ELSE Visible) :
        found' = [found EXCEPT ![channel] = r]
    /\ UNCHANGED <<mem, mode, step, items, result, usable, moves>>

-------------------------------------------------------------------------------
\* The first place of an id that is there, from 1 on.
Position(id, ranked) ==
    CHOOSE i \in DOMAIN ranked : ranked[i] = id /\ \A k \in 1..(i - 1) : ranked[k] # id

\* mutant: the constant is divided by the rank
RankScore_Inverted(id, ranked) == IF id \in ToSet(ranked) THEN 60 + Position(id, ranked) ELSE 0

\* 10^6 / (60 + rank), 0 for an item the channel did not return.
RankScore(id, ranked) == IF id \in ToSet(ranked) THEN 1000000 \div (60 + Position(id, ranked)) ELSE 0

\* 1 + 0.3 * exp(-0.01 * days), in hundredths; divergent inverts it.
Recency(id) == IF (id \in Old) = (mode = "divergent") THEN 130 ELSE 105

\* _rrf_fuse: there is no graph term, so what only the graph reached scores 0.
FusedScore(id, f) ==
    (RankScore(id, f["dense"]) + RankScore(id, f["sparse"]) + RankScore(id, f["entity"])) * Recency(id)

\* sorted(by_id.values(), ...): stable over the order the channels came in.
Fused(f) ==
    LET cands == f["dense"] \o f["sparse"] \o f["entity"] \o f["graph"]
        Before(a, b) == \/ FusedScore(a, f) > FusedScore(b, f)
                        \/ /\ FusedScore(a, f) = FusedScore(b, f)
                           /\ Position(a, cands) < Position(b, cands)
    IN  CHOOSE order \in SetToSeqs(ToSet(cands)) :
            \A i, j \in DOMAIN order : i < j => Before(order[i], order[j])

Fuse ==
    /\ step = "channels" /\ pending = {}
    /\ items' = Fused(found)
    /\ step' = "expand"
    /\ UNCHANGED <<mem, mode, pending, found, result, usable, moves>>

\* _graph_expand: memories of the episodes whose entities the walk reaches.
Reachable == Visible

\* An expansion that finds nothing, or fails, leaves the candidates alone.
Expand ==
    /\ step = "expand"
    /\ \E S \in SUBSET Reachable :
        /\ items = <<>> => S = {}
        /\ found' = [found EXCEPT !["graph"] = SetToSeq(S)]
        /\ items' = Fused(found')
    /\ step' = "follow"
    /\ UNCHANGED <<mem, mode, pending, result, usable, moves>>

\* The follow-up round adds what it finds and the first one did not, in the
\* order of its own fused scores; or there is none, or no gap.
FollowUp ==
    /\ step = "follow"
    /\ \E S \in SUBSET (Visible \ ToSet(items)) :
        items' \in {seq \in SetToSeqs(ToSet(items) \cup S) :
                        \A i, j \in DOMAIN items :
                            i < j => Position(items[i], seq) < Position(items[j], seq)}
    /\ step' = "assemble"
    /\ UNCHANGED <<mem, mode, pending, found, result, usable, moves>>

-------------------------------------------------------------------------------
\* What a set of items costs, in units, and what those of a tier do.
Used(S) == Cardinality(S) + Cardinality(S \cap Long)
Tier(id) == IF id \in Facts THEN "identity" ELSE "fact"
UsedBy(S, tier) == Used({id \in S : Tier(id) = tier})

\* The kinds a memory really has (fact, procedure, preference) and "identity"
\* are in no budget table: each gets semantic's 40 percent.
TierShare == (Budget * 4) \div 10

\* _assemble_context up to the reordering: an item whose tier is spent is
\* skipped, one that exceeds the whole budget ends the loop.
Packed(seq) ==
    LET Pack[i \in 0..Len(seq)] ==
            IF i = 0 THEN [chosen |-> <<>>, full |-> FALSE]
            ELSE LET acc == Pack[i - 1]
                     more == ToSet(acc.chosen) \cup {seq[i]}
                 IN  IF acc.full \/ UsedBy(more, Tier(seq[i])) > TierShare THEN acc
                     ELSE IF Used(more) > Budget THEN [acc EXCEPT !.full = TRUE]
                     ELSE [acc EXCEPT !.chosen = Append(@, seq[i])]
    IN Pack[Len(seq)].chosen

\* More than two are sorted by score again, and the second best goes to the end.
Edged(seq) ==
    IF Len(seq) <= 2 THEN seq
    ELSE LET sorted == CHOOSE order \in SetToSeqs(ToSet(seq)) :
                           \A i, j \in DOMAIN order :
                               i < j => Position(order[i], items) < Position(order[j], items)
         IN  <<sorted[1]>> \o SubSeq(sorted, 3, Len(seq)) \o <<sorted[2]>>

\* _mmr_diversify keeps the first and permutes the rest.
Diversified ==
    IF mode # "divergent" \/ items = <<>> THEN {items}
    ELSE {<<items[1]>> \o p : p \in SetToSeqs(ToSet(items) \ {items[1]})}

Assemble ==
    /\ step = "assemble"
    /\ \E seq \in Diversified : result' = Edged(Packed(seq))
    /\ step' = "done"
    /\ UNCHANGED <<mem, mode, pending, found, items, usable, moves>>

\* Meanwhile a memory is added, closed, or classified.
Moves(m) ==
    /\ step \notin {"start", "done"} /\ moves < MaxMoves
    /\ \E s \in {"canonical", "hypothesis", "closed"} :
        /\ <<mem[m], s>> \in {<<"none", "canonical">>, <<"canonical", "hypothesis">>,
                              <<"canonical", "closed">>, <<"hypothesis", "closed">>}
        /\ mem' = [mem EXCEPT ![m] = s]
        /\ usable' = IF s \in Admitted THEN usable \cup {m} ELSE usable
    /\ moves' = moves + 1
    /\ UNCHANGED <<mode, step, pending, found, items, result>>

RetNext ==
    \/ Start \/ (\E c \in {"dense", "sparse", "entity"} : Query(c)) \/ Fuse \/ Expand \/ FollowUp \/ Assemble
    \/ \E m \in Memories : Moves(m)

RetSpec == RetInit /\ [][RetNext]_retVars

-------------------------------------------------------------------------------
\* What is at hand was findable, and each of it is there once.
Distinct(seq) == \A i, j \in DOMAIN seq : seq[i] = seq[j] => i = j
RetTypeOK ==
    /\ items \in Seq(Findable) /\ Distinct(items)
    /\ result \in Seq(Findable) /\ Distinct(result)

\* No stage brings back what the mode must not show: a memory in the result was
\* valid and admitted at some time since the retrieval began.
NothingForbidden == ToSet(result) \cap Memories \subseteq usable

Rank(id, c) == IF id \in ToSet(found[c]) THEN Position(id, found[c]) ELSE Cardinality(Findable) + 1
Dominates(a, b) ==
    /\ \A c \in {"dense", "sparse", "entity"} : Rank(a, c) <= Rank(b, c)
    /\ \E c \in {"dense", "sparse", "entity"} : Rank(a, c) < Rank(b, c)
    /\ Recency(a) >= Recency(b)

\* Fusion agrees with its channels: an item no channel ranks below another, and
\* that recency does not put at a disadvantage, is not placed below it.
FusionAgrees ==
    step \in {"expand", "follow"} =>
        \A i, j \in DOMAIN items : Dominates(items[i], items[j]) => i < j

\* The assembled context fits its budget, and no tier takes more than its share.
WithinBudget ==
    /\ Used(ToSet(result)) <= Budget
    /\ \A t \in {"identity", "fact"} : UsedBy(ToSet(result), t) <= TierShare

\* Fusion agrees with its channels, no stage brings back a memory the mode must
\* not show, and the context keeps to its budget (memory/retrieval).
RetrievalSound == RetTypeOK /\ FusionAgrees /\ NothingForbidden /\ WithinBudget
===============================================================================
