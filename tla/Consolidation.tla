---------------------------- MODULE Consolidation ----------------------------
(***************************************************************************)
(* The consolidation passes of memory/consolidation: run_consolidation goes *)
(* through its passes in order, each pass one transaction that reads its    *)
(* candidates first and writes row by row.  Nothing keeps two calls apart   *)
(* (the scheduler's fast and deep jobs and the manual endpoint), so what    *)
(* meets is row locks and guarded UPDATEs.  Projection is in Memory.        *)
(* Memory ids are numbers, in the order of the ids.                         *)
(***************************************************************************)
EXTENDS Naturals, Sequences, FiniteSets

CONSTANTS
    Calls,       \* run_consolidation calls that can be in progress together
    MaxMems,     \* bound: memories
    Keys,        \* statement keys
    Alike,       \* unordered pairs of keys the embedder finds near-identical
    Stored,      \* memories there are at first: their key, tier and creation time
    MaxEpisodes, \* bound: episodes
    Pending,     \* episodes nothing was distilled from at first
    MaxRuns,     \* bound: calls made
    DistilLimit  \* _DISTILL_EPISODE_LIMIT

ConsolidationAssumption ==
    /\ {MaxMems, MaxEpisodes, Pending, MaxRuns, DistilLimit} \subseteq Nat
    /\ Stored \in Seq([key : Keys, tier : {"working", "semantic"}, made : Nat])
    /\ Len(Stored) <= MaxMems /\ \A m \in DOMAIN Stored : Stored[m].made <= Len(Stored)
    /\ Pending <= MaxEpisodes
    /\ Alike \subseteq SUBSET Keys

VARIABLES
    mem,       \* memories, committed
    episodes,  \* episodes, committed
    call,      \* calls in progress: passes left, candidates left, uncommitted writes
    runs,      \* calls made
    now,       \* start times of the transactions that make memories
    others,    \* history: memories closed by a user or by decay, for no heir
    copies,    \* history: committed distillations of each episode and
               \* episodes written for each promoted memory
    doubled    \* history: what two passes had in hand at the same time

conVars == <<mem, episodes, call, runs, now, others, copies, doubled>>

Mems == 1..MaxMems
Episodes == 1..MaxEpisodes
Fast == <<"summarize", "dedup", "conflict_resolve">>
Deep == <<"dedup", "merge_promote", "conflict_resolve", "summarize", "decay", "recombine_incubate">>

NoMem == [state |-> "none", key |-> "none", tier |-> "semantic", made |-> 0, by |-> 0,
          epi |-> 0, vec |-> FALSE]
\* todo: candidates; close: <<memory, heir>>; store: new memories by id;
\* promote: <<memory, episode>>; begun: the transaction's now()
NoWork == [in |-> FALSE, todo |-> {}, close |-> {}, store |-> {}, promote |-> {}, begun |-> 0]
NoCall == [plan |-> <<>>, work |-> NoWork]

ConInit ==
    /\ mem = [m \in Mems |-> IF m <= Len(Stored)
                THEN [NoMem EXCEPT !.state = "open", !.key = Stored[m].key,
                                   !.tier = Stored[m].tier, !.made = Stored[m].made]
                ELSE NoMem]
    /\ episodes = 1..Pending
    /\ call = [c \in Calls |-> NoCall]
    /\ runs = 0
    /\ now = Len(Stored) + 1
    /\ others = {} /\ doubled = {}
    /\ copies = [x \in {"episode"} \X Episodes \cup {"memory"} \X Mems |-> 0]

-------------------------------------------------------------------------------
(* One call: projection, then its passes in order.                          *)

IsOpen(m) == mem[m].state = "open"
Near(a, b) == mem[a].key = mem[b].key \/ {mem[a].key, mem[b].key} \in Alike
Pairs(S) == {p \in S \X S : p[1] < p[2]}
Underived == {e \in episodes : \A m \in Mems : mem[m].epi # e}
FirstOf(S, n) == {e \in S : Cardinality({d \in S : d < e}) < n}

\* project_scope embeds what is stored, unless another projection has the lock.
StartCall(c) ==
    /\ call[c].plan = <<>>
    /\ runs < MaxRuns
    /\ runs' = runs + 1
    /\ \E plan \in {Fast, Deep} : call' = [call EXCEPT ![c].plan = plan]
    /\ \/ mem' = [m \in Mems |-> [mem[m] EXCEPT !.vec = IsOpen(m)]]
       \/ UNCHANGED mem
    /\ UNCHANGED <<episodes, now, others, copies, doubled>>

\* What a pass SELECTs when it begins.
Candidates(pass) ==
    CASE pass = "dedup" -> {p \in Pairs({m \in Mems : IsOpen(m) /\ mem[m].vec}) : Near(p[1], p[2])}
      [] pass = "conflict_resolve" ->
            {p \in Pairs({m \in Mems : IsOpen(m)}) : mem[p[1]].key = mem[p[2]].key}
      [] pass = "merge_promote" -> {<<m>> : m \in {n \in Mems : IsOpen(n) /\ mem[n].tier = "working"}}
      [] pass = "summarize" -> {<<e>> : e \in FirstOf(Underived, DistilLimit)}
      [] OTHER -> {}

\* Items two calls hold at once, tagged like copies.
Tagged(pass, todo) ==
    CASE pass = "summarize" -> {<<"episode", t[1]>> : t \in todo}
      [] pass = "merge_promote" -> {<<"memory", t[1]>> : t \in todo}
      [] OTHER -> {}
InHand(c) == IF ~call[c].work.in THEN {}
             ELSE Tagged(Head(call[c].plan), call[c].work.todo)
                  \cup {<<"episode", s.epi>> : s \in call[c].work.store}
                  \cup {<<"memory", p[1]>> : p \in call[c].work.promote}

BeginPass(c) ==
    /\ call[c].plan # <<>> /\ ~call[c].work.in
    /\ LET todo == Candidates(Head(call[c].plan)) IN
        /\ call' = [call EXCEPT ![c].work = [NoWork EXCEPT !.in = TRUE, !.todo = todo, !.begun = now]]
        /\ doubled' = doubled \cup (Tagged(Head(call[c].plan), todo)
                                     \cap UNION {InHand(d) : d \in Calls \ {c}})
    /\ now' = IF Head(call[c].plan) = "summarize" THEN now + 1 ELSE now
    /\ UNCHANGED <<mem, episodes, runs, others, copies>>

Doing(c, pass) == call[c].work.in /\ Head(call[c].plan) = pass
Does(c, work) == /\ call' = [call EXCEPT ![c].work = work]
                 /\ UNCHANGED <<mem, episodes, runs, now, others, copies, doubled>>

\* A row another transaction has updated makes an UPDATE wait.
Writing(c) == {x[1] : x \in call[c].work.close \cup call[c].work.promote}
RowFree(c, m) == \A d \in Calls \ {c} : m \notin Writing(d)

\* UPDATE ... SET valid_to, superseded_by WHERE id = old AND valid_to IS NULL.
Supersede(c, pair, old, new) ==
    /\ RowFree(c, old)
    /\ Does(c, [call[c].work EXCEPT
            !.todo = @ \ {pair},
            !.close = IF IsOpen(old) /\ old \notin Writing(c) THEN @ \cup {<<old, new>>} ELSE @])

\* _pass_dedup: two rows ORDER BY created_at; a tie comes in any order.
Dedup(c) ==
    /\ Doing(c, "dedup")
    /\ \E p \in call[c].work.todo :
        \/ mem[p[1]].made <= mem[p[2]].made /\ Supersede(c, p, p[1], p[2])
        \/ mem[p[2]].made <= mem[p[1]].made /\ Supersede(c, p, p[2], p[1])

\* mutant: the newer of the two is closed
ConflictResolve_KeepsOlder(c) ==
    /\ Doing(c, "conflict_resolve")
    /\ \E p \in call[c].work.todo :
        IF mem[p[1]].made <= mem[p[2]].made THEN Supersede(c, p, p[2], p[1])
                                            ELSE Supersede(c, p, p[1], p[2])

\* _pass_conflict_resolve: on a tie the smaller id is the older one.
ConflictResolve(c) ==
    /\ Doing(c, "conflict_resolve")
    /\ \E p \in call[c].work.todo :
        IF mem[p[1]].made <= mem[p[2]].made THEN Supersede(c, p, p[1], p[2])
                                            ELSE Supersede(c, p, p[2], p[1])

FreshEpisodes == Episodes \ (episodes \cup UNION {{p[2] : p \in call[d].work.promote} : d \in Calls})
FreshMems == {m \in Mems : mem[m].state = "none"}
                 \ UNION {{s.id : s \in call[d].work.store} : d \in Calls}
Least(S) == CHOOSE x \in S : \A y \in S : x <= y

\* _pass_merge_promote: a new episode, whatever the guarded UPDATE then finds.
MergePromote(c) ==
    /\ Doing(c, "merge_promote")
    /\ FreshEpisodes # {}
    /\ \E t \in call[c].work.todo :
        /\ RowFree(c, t[1])
        /\ Does(c, [call[c].work EXCEPT !.todo = @ \ {t},
                                        !.promote = @ \cup {<<t[1], Least(FreshEpisodes)>>}])

\* _pass_summarize: no language model, or a call that fails, leaves the rest of
\* the episodes for the next pass; an omitted one waits too.
Defers(c) ==
    /\ Doing(c, "summarize") /\ call[c].work.todo # {}
    /\ \/ Does(c, [call[c].work EXCEPT !.todo = {}])
       \/ \E t \in call[c].work.todo : Does(c, [call[c].work EXCEPT !.todo = @ \ {t}])

\* A fact, or the closed marker of a turn that holds none.
Distils(c) ==
    /\ Doing(c, "summarize")
    /\ FreshMems # {}
    /\ \E t \in call[c].work.todo, key \in Keys \cup {"none"} :
        Does(c, [call[c].work EXCEPT
            !.todo = @ \ {t},
            !.store = @ \cup {[id |-> Least(FreshMems), key |-> key, epi |-> t[1]]}])

\* _pass_decay: whatever is old enough, in one UPDATE, for no heir.
Decay(c) ==
    /\ Doing(c, "decay")
    /\ \E m \in {n \in Mems : IsOpen(n) /\ mem[n].tier = "working"} :
        /\ RowFree(c, m) /\ m \notin Writing(c)
        /\ Does(c, [call[c].work EXCEPT !.close = @ \cup {<<m, 0>>}])

\* COMMIT at the end of the pass.
Heir(w, m) == CHOOSE x \in w.close : x[1] = m
CommitPass(c) ==
    LET w == call[c].work IN
    /\ w.in /\ w.todo = {}
    /\ mem' = [m \in Mems |->
            IF \E s \in w.store : s.id = m
            THEN LET s == CHOOSE s \in w.store : s.id = m IN
                 [state |-> IF s.key = "none" THEN "marker" ELSE "open", key |-> s.key,
                  tier |-> "semantic", made |-> w.begun, by |-> 0, epi |-> s.epi, vec |-> FALSE]
            ELSE IF \E x \in w.close : x[1] = m
            THEN [mem[m] EXCEPT !.state = "closed", !.by = Heir(w, m)[2]]
            ELSE IF \E p \in w.promote : p[1] = m THEN [mem[m] EXCEPT !.tier = "semantic"]
            ELSE mem[m]]
    /\ episodes' = episodes \cup {p[2] : p \in w.promote}
    /\ others' = others \cup {x[1] : x \in {y \in w.close : y[2] = 0}}
    /\ copies' = [x \in DOMAIN copies |->
            IF (x[1] = "episode" /\ \E s \in w.store : s.epi = x[2])
                \/ (x[1] = "memory" /\ \E p \in w.promote : p[1] = x[2])
            THEN copies[x] + 1 ELSE copies[x]]
    /\ call' = [call EXCEPT ![c] = [plan |-> Tail(@.plan), work |-> NoWork]]
    /\ UNCHANGED <<runs, now, doubled>>

\* The pass's transaction is gone, the next pass begins: two passes wait for
\* rows of each other, or recombine_incubate names a memory as its
\* source_episode_id, which the foreign key refuses.
LosesPass(c) ==
    /\ \/ Doing(c, "recombine_incubate")
       \/ /\ call[c].work.in
          /\ \E d \in Calls \ {c}, t \in call[c].work.todo :
              /\ {t[i] : i \in DOMAIN t} \cap Writing(d) # {}
              /\ call[d].work.in
              /\ \E u \in call[d].work.todo : {u[i] : i \in DOMAIN u} \cap Writing(c) # {}
    /\ call' = [call EXCEPT ![c] = [plan |-> Tail(@.plan), work |-> NoWork]]
    /\ UNCHANGED <<mem, episodes, runs, now, others, copies, doubled>>

\* The process ends in the middle of a call.
CallCrashes(c) ==
    /\ call[c].plan # <<>>
    /\ call' = [call EXCEPT ![c] = NoCall]
    /\ UNCHANGED <<mem, episodes, runs, now, others, copies, doubled>>

\* governance.invalidate.
UserCloses(m) ==
    /\ IsOpen(m) /\ \A c \in Calls : m \notin Writing(c)
    /\ mem' = [mem EXCEPT ![m].state = "closed"]
    /\ others' = others \cup {m}
    /\ UNCHANGED <<episodes, call, runs, now, copies, doubled>>

ConNext ==
    \/ \E c \in Calls :
        \/ StartCall(c) \/ BeginPass(c) \/ Dedup(c) \/ ConflictResolve(c) \/ MergePromote(c)
        \/ Defers(c) \/ Distils(c) \/ Decay(c) \/ CommitPass(c) \/ LosesPass(c) \/ CallCrashes(c)
    \/ \E m \in Mems : UserCloses(m)

ConSpec == ConInit /\ [][ConNext]_conVars

-------------------------------------------------------------------------------
ConTypeOK ==
    /\ mem \in [Mems -> [state : {"none", "open", "closed", "marker"}, key : Keys \cup {"none"},
                         tier : {"working", "semantic"}, made : 0..now, by : 0..MaxMems,
                         epi : 0..MaxEpisodes, vec : BOOLEAN]]
    /\ episodes \subseteq Episodes

\* m, its heirs, and theirs: the least set with m that has the heir of each.
HeirsOf(m) ==
    {n \in Mems : \A S \in SUBSET Mems :
        m \in S /\ {mem[x].by : x \in S} \subseteq S \cup {0} => n \in S}

\* What a pass closes lives on: at the end of its line of heirs is a memory that
\* is open, or that a user or decay closed for its own sake.  Only memories made
\* at the same instant may close one another (Merge: keep newer, invalidate
\* older; a tie has no newer).
SurvivorKept ==
    \A m \in Mems : mem[m].state = "closed" =>
        \/ \E n \in HeirsOf(m) : IsOpen(n) \/ n \in others
        \/ \E n, k \in HeirsOf(m) : n # k /\ mem[n].made = mem[k].made

\* An episode is distilled at most once and a working memory promoted at most
\* once, unless two passes had it in hand together.
WorkDoneOnce == \A x \in DOMAIN copies : copies[x] <= 1 \/ x \in doubled

\* A memory that passes close has an open heir at the end of its line, or one
\* closed for its own sake, ties aside (_pass_dedup, _pass_conflict_resolve), and
\* what a pass derives is derived once, but for passes that overlap
\* (_pass_summarize, _pass_merge_promote).
PassesSound == ConTypeOK /\ SurvivorKept /\ WorkDoneOnce
===============================================================================
