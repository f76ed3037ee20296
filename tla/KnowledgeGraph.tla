---------------------------- MODULE KnowledgeGraph ----------------------------
(***************************************************************************)
(* What ingested episodes leave in the knowledge graph: the background task  *)
(* of each runs extract_and_project (knowledge/graph, /extraction,           *)
(* /resolution; _process_episode_bg), which resolves the two ends of every   *)
(* triple to a node, by normalised name and then by embedding, mints the     *)
(* ones it does not find and writes the edges, each in a transaction of its  *)
(* own.  Tasks of different episodes interleave, and one that fails starts   *)
(* over, three times at most.  Nothing in the program calls                  *)
(* invalidate_entity: nodes are only added.                                  *)
(***************************************************************************)
EXTENDS Naturals, Sequences, FiniteSets

CONSTANTS
    Episodes,
    Names,        \* normalised names the episodes mention
    Texts,        \* the sequences of triples the model may find in an episode
    MaxNodes,     \* bound: knowledge_entities
    MaxErrors     \* bound: failed queries and embeddings

\* A mention: its normalised name, and whether it is written with inner runs of spaces.
Mentions == [name : Names, loose : BOOLEAN]

GraphAssumption ==
    /\ Texts \subseteq Seq(Mentions \X Mentions)
    /\ MaxNodes \in Nat /\ MaxErrors \in Nat

VARIABLES
    node,      \* knowledge_entities: the name, whether lower(name) is normalised, embedded
    edge,      \* knowledge_edges, in order of creation
    work,      \* _process_episode_bg, by episode
    minted,    \* history: per name, nodes minted by a task that had looked before another minted
    blind,     \* history: per name, nodes minted after a lookup failed, or without an embedding
    errors

kgVars == <<node, edge, work, minted, blind, errors>>

Attempts == 3
NoWork == [at |-> "new", triples |-> <<>>, seen |-> [n \in Names |-> 0], mention |-> {},
           failed |-> FALSE, rows |-> 0, tries |-> 0]

KGInit ==
    /\ node = <<>> /\ edge = <<>>
    /\ work = [e \in Episodes |-> NoWork]
    /\ minted = [n \in Names |-> 0] /\ blind = [n \in Names |-> 0] /\ errors = 0

Error == errors < MaxErrors /\ errors' = errors + 1

\* extract_with_llm: no triples when the model fails.  A triple with an end too
\* short to be a name has no effect but its other end's.
Extract(e) ==
    /\ work[e].at \in {"new", "again"}
    /\ \E triples \in Texts \cup {<<>>} :
        work' = [work EXCEPT ![e] = [NoWork EXCEPT !.at = "triple", !.triples = triples,
                                                   !.tries = work[e].tries + 1]]
    /\ UNCHANGED <<node, edge, minted, blind, errors>>

\* The next mention of the first triple that is not in the episode's cache.
Unseen(e) == {i \in {1, 2} : work[e].seen[work[e].triples[1][i].name] = 0}
Resolving(e) == work[e].at = "triple" /\ work[e].triples # <<>> /\ Unseen(e) # {}
NextMention(e) == work[e].triples[1][CHOOSE i \in Unseen(e) : \A j \in Unseen(e) : i <= j]

\* lower(name) = normalize_mention(mention)
SameName(i, m) == node[i].name = m.name /\ node[i].tidy

Matches(m) == {i \in DOMAIN node : SameName(i, m)}

\* The mention's node goes into the episode's cache.
Found(e, i) == [work[e] EXCEPT !.at = "triple", !.mention = {}, !.failed = FALSE, !.seen[NextMention(e).name] = i]

\* resolve_entity, the exact match: the oldest; an error is a miss.
Exact(e) ==
    /\ Resolving(e)
    /\ LET m == NextMention(e) IN
        \/ /\ Matches(m) # {}
           /\ work' = [work EXCEPT ![e] = Found(e, CHOOSE i \in Matches(m) : \A j \in Matches(m) : i <= j)]
           /\ UNCHANGED errors
        \/ /\ Matches(m) = {}
           /\ work' = [work EXCEPT ![e] = [@ EXCEPT !.at = "near", !.mention = {m}, !.rows = Len(node)]]
           /\ UNCHANGED errors
        \/ /\ Error
           /\ work' = [work EXCEPT ![e] = [@ EXCEPT !.at = "near", !.mention = {m}, !.rows = Len(node),
                                                    !.failed = TRUE]]
    /\ UNCHANGED <<node, edge, minted, blind>>

\* mutant: the distance is compared with the threshold
CloseTo_Never(i, m) == FALSE

CloseTo(i, m) == node[i].vec /\ node[i].name = m.name

\* resolve_entity, the nearest embedded node if it is close enough: one of the
\* same name is, one of another may be.
Near(e) ==
    /\ work[e].at = "near"
    /\ LET m == CHOOSE x \in work[e].mention : TRUE
           same == {i \in DOMAIN node : CloseTo(i, m)} IN
        \/ /\ \E i \in DOMAIN node : /\ node[i].vec /\ (same # {} => i \in same)
                                     /\ work' = [work EXCEPT ![e] = Found(e, i)]
           /\ UNCHANGED errors
        \/ /\ same = {}
           /\ work' = [work EXCEPT ![e].at = "mint"]
           /\ UNCHANGED errors
        \/ /\ Error
           /\ work' = [work EXCEPT ![e].at = "mint", ![e].failed = TRUE]
    /\ UNCHANGED <<node, edge, minted, blind>>

\* create_entity stores mention.strip(): inner spaces stay, and nothing matches
\* such a name again but its embedding, which may be missing.
Mint(e) ==
    /\ work[e].at = "mint" /\ Len(node) < MaxNodes
    /\ \E vec \in BOOLEAN :
        LET m == CHOOSE x \in work[e].mention : TRUE
            late == \E i \in DOMAIN node : i > work[e].rows /\ node[i].name = m.name
        IN  /\ IF vec THEN UNCHANGED errors ELSE Error
            /\ node' = Append(node, [name |-> m.name, tidy |-> ~m.loose, vec |-> vec])
            /\ minted' = [minted EXCEPT ![m.name] = IF late THEN @ + 1 ELSE @]
            /\ blind' = [blind EXCEPT ![m.name] = IF work[e].failed \/ ~vec THEN @ + 1 ELSE @]
            /\ work' = [work EXCEPT ![e] = Found(e, Len(node) + 1)]
    /\ UNCHANGED edge

\* create_edge, unless both ends are one node; then the next triple.
Link(e) ==
    /\ work[e].at = "triple" /\ work[e].triples # <<>> /\ ~Resolving(e)
    /\ LET t == Head(work[e].triples)
           s == work[e].seen[t[1].name]
           o == work[e].seen[t[2].name]
       IN  edge' = IF s = o THEN edge ELSE Append(edge, [ep |-> e, src |-> s, dst |-> o])
    /\ work' = [work EXCEPT ![e].triples = Tail(@)]
    /\ UNCHANGED <<node, minted, blind, errors>>

Done(e) ==
    /\ work[e].at = "triple" /\ work[e].triples = <<>>
    /\ work' = [work EXCEPT ![e] = [NoWork EXCEPT !.at = "done"]]
    /\ UNCHANGED <<node, edge, minted, blind, errors>>

\* create_entity or create_edge raises: the extraction starts over.
Fails(e) ==
    /\ work[e].at = "mint" \/ (work[e].at = "triple" /\ work[e].triples # <<>> /\ ~Resolving(e))
    /\ Error
    /\ work' = [work EXCEPT ![e] = [NoWork EXCEPT !.at = IF work[e].tries < Attempts THEN "again" ELSE "done",
                                                  !.tries = work[e].tries]]
    /\ UNCHANGED <<node, edge, minted, blind>>

KGNext == \E e \in Episodes : Extract(e) \/ Exact(e) \/ Near(e) \/ Mint(e) \/ Link(e) \/ Done(e) \/ Fails(e)

KGSpec == KGInit /\ [][KGNext]_kgVars

-------------------------------------------------------------------------------
KGTypeOK ==
    /\ \A i \in DOMAIN node : node[i].name \in Names
    /\ \A i \in DOMAIN edge : {edge[i].src, edge[i].dst} \subseteq DOMAIN node

\* "Repeated resolution converges on a single canonical node": the nodes of one
\* name are one, and one more for every mint that had looked before another mint
\* and for every lookup or embedding that failed.
OneNodePerName ==
    \A n \in Names : Cardinality({i \in DOMAIN node : node[i].name = n}) <= 1 + minted[n] + blind[n]

GraphSound == KGTypeOK /\ OneNodePerName
===============================================================================
