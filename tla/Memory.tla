-------------------------------- MODULE Memory --------------------------------
(***************************************************************************)
(* Memory governance (memory/governance), the event log it stages into and  *)
(* the projection of that log into the read model (project_scope of         *)
(* memory/consolidation): the vectors kept beside the rows and the Redis    *)
(* hash of current statements.                                              *)
(*                                                                         *)
(* A client is a governance call in its own database transaction: what it   *)
(* writes, its event included, is visible to others at its commit, but the  *)
(* event's sequence number is drawn when it is staged.  A worker is one      *)
(* project_scope call.  Every await that lets another process in is the end *)
(* of a step.  One scope.                                                   *)
(***************************************************************************)
EXTENDS Naturals, Sequences, FiniteSets, SequencesExt

CONSTANTS
    Mems,        \* memory ids
    Recorded,    \* those recorded, and projected, before the model starts
    Approvals,   \* granted memory_forget_hard approvals
    Clients,     \* governance calls that can be in progress together
    Workers,     \* project_scope calls that can be in progress together
    MaxSeq,      \* bound: events staged
    MaxAccidents \* bound: aborts, failures, crashes, restarts, replays asked
                 \* for and lock expiries under a live holder

ASSUME MemoryAssumption ==
    /\ {MaxSeq, MaxAccidents} \subseteq Nat
    /\ Recorded \subseteq Mems /\ IsFiniteSet(Mems)
    /\ "none" \notin Mems /\ "none" \notin Approvals /\ "none" \notin Workers

VARIABLES
    row,       \* memories, committed: statement and whether valid_to is NULL
    vector,    \* memories.embedding, committed: the text it was computed from
    approval,  \* approvals.state, expiry folded in
    log,       \* events by seq
    tx,        \* the governance calls in progress
    lock,      \* the Redis key lock:consol:<scope>: whose token, or "none"
    worker,    \* the project_scope calls in progress, with their locals
    mark,      \* projection_watermarks: the two rows always agree
    current,   \* the Redis hash mem:current:<scope>: ids it holds a statement of
    background,\* the text a background embedding is about to store
    covered,   \* history: seqs projected since the last replay
    late,      \* history: seqs still uncommitted when a projection read past them
    astray,    \* history: memories a named accident may have left out of step
    accidents

govVars == <<row, approval, log, tx>>
readVars == <<vector, mark, current>>
historyVars == <<covered, late, astray>>
vars == <<govVars, lock, worker, readVars, background, historyVars, accidents>>

Texts == {"none", "said", "redacted"}
Seqs == 1..Len(log)
Visible == {s \in Seqs : log[s].state = "visible"}

NoTx == [op |-> "none", at |-> "idle", mem |-> "none", approval |-> "none", seq |-> 0]
Resting == [at |-> "idle", replay |-> FALSE, todo |-> {}, done |-> {}, blind |-> {},
            got |-> [text |-> "none", open |-> FALSE],
            vec |-> [m \in Mems |-> "keep"], ops |-> <<>>]

MemoryInit ==
    /\ row = [m \in Mems |-> IF m \in Recorded THEN [text |-> "said", open |-> TRUE]
                                               ELSE [text |-> "none", open |-> FALSE]]
    /\ vector = [m \in Mems |-> IF m \in Recorded THEN "said" ELSE "null"]
    /\ approval = [a \in Approvals |-> "granted"]
    /\ log = [i \in 1..Cardinality(Recorded) |->
                [kind |-> "stored", mem |-> SetToSeq(Recorded)[i],
                 approval |-> "none", state |-> "visible"]]
    /\ tx = [c \in Clients |-> NoTx]
    /\ lock = "none"
    /\ worker = [w \in Workers |-> Resting]
    /\ mark = Len(log)
    /\ current = Recorded
    /\ background = [m \in Mems |-> "none"]
    /\ covered = 1..Len(log) /\ late = {} /\ astray = {}
    /\ accidents = 0

-------------------------------------------------------------------------------
(* Row locks: an UPDATE waits for the transaction that updated the row       *)
(* before it, and then looks at the row again.                               *)

HeldByClient(m) == \E c \in Clients : tx[c].at = "staged" /\ tx[c].mem = m
HeldByWorker(m) == \E w \in Workers : worker[w].vec[m] # "keep"
Unlocked(m) == ~HeldByClient(m) /\ ~HeldByWorker(m)

\* INSERT INTO events ... RETURNING seq, inside the caller's transaction.
Stage(kind, m, a) ==
    /\ Len(log) < MaxSeq
    /\ log' = Append(log, [kind |-> kind, mem |-> m, approval |-> a, state |-> "open"])

\* governance.add: the row and its event in one transaction.
Add(c, m) ==
    /\ tx[c].at = "idle"
    /\ row[m].text = "none" /\ \A d \in Clients : tx[d].mem # m
    /\ Stage("stored", m, "none")
    /\ tx' = [tx EXCEPT ![c] = [op |-> "add", at |-> "staged", mem |-> m,
                                approval |-> "none", seq |-> Len(log')]]
    /\ UNCHANGED <<row, approval, lock, worker, readVars, background, historyVars, accidents>>

\* governance.invalidate: the check, the guarded UPDATE and the event.
Invalidate(c, m) ==
    /\ tx[c].at = "idle"
    /\ row[m].open /\ Unlocked(m)
    /\ Stage("invalidated", m, "none")
    /\ tx' = [tx EXCEPT ![c] = [op |-> "invalidate", at |-> "staged", mem |-> m,
                                approval |-> "none", seq |-> Len(log')]]
    /\ UNCHANGED <<row, approval, lock, worker, readVars, background, historyVars, accidents>>

\* mutant: no advisory lock, only the look at the log
AdvisoryFree_Always(a) == TRUE

\* pg_advisory_xact_lock on the approval: held until the transaction ends.
AdvisoryFree(a) == \A c \in Clients : tx[c].approval # a
\* Gate 2: no committed event names the approval.
Unused(a) == \A s \in Visible : log[s].approval # a

\* governance.forget up to its two gates.
ForgetGates(c, m, a) ==
    /\ tx[c].at = "idle"
    /\ AdvisoryFree(a)
    /\ approval[a] = "granted"
    /\ Unused(a)
    /\ row[m].text # "none"
    /\ tx' = [tx EXCEPT ![c] = [op |-> "forget", at |-> "gated", mem |-> m,
                                approval |-> a, seq |-> 0]]
    /\ UNCHANGED <<row, approval, log, lock, worker, readVars, background, historyVars, accidents>>

\* The guarded UPDATE and the event; AlreadyForgotten rolls the call back.
ForgetRedact(c) ==
    /\ tx[c].at = "gated"
    /\ Unlocked(tx[c].mem)
    /\ IF row[tx[c].mem].text = "redacted"
       THEN tx' = [tx EXCEPT ![c] = NoTx] /\ UNCHANGED log
       ELSE /\ Stage("invalidated", tx[c].mem, tx[c].approval)
            /\ tx' = [tx EXCEPT ![c].at = "staged", ![c].seq = Len(log')]
    /\ UNCHANGED <<row, approval, lock, worker, readVars, background, historyVars, accidents>>

\* What the transaction's UPDATE or INSERT leaves in the row.
Written(t) ==
    CASE t.op = "add" -> [text |-> "said", open |-> TRUE]
      [] t.op = "invalidate" -> [row[t.mem] EXCEPT !.open = FALSE]
      [] t.op = "forget" -> [text |-> "redacted", open |-> FALSE]

\* COMMIT.  An ingest then hands the text to a background embedding.
Commit(c) ==
    /\ tx[c].at = "staged"
    /\ row' = [row EXCEPT ![tx[c].mem] = Written(tx[c])]
    /\ log' = [log EXCEPT ![tx[c].seq].state = "visible"]
    /\ background' = IF tx[c].op = "add"
                     THEN [background EXCEPT ![tx[c].mem] = "said"] ELSE background
    /\ tx' = [tx EXCEPT ![c] = NoTx]
    /\ UNCHANGED <<approval, lock, worker, readVars, historyVars, accidents>>

\* A transaction lost to a crash or a dropped connection: its seq is a gap.
Abort(c) ==
    /\ tx[c].at # "idle" /\ accidents < MaxAccidents
    /\ accidents' = accidents + 1
    /\ log' = IF tx[c].at = "staged" THEN [log EXCEPT ![tx[c].seq].state = "aborted"] ELSE log
    /\ tx' = [tx EXCEPT ![c] = NoTx]
    /\ UNCHANGED <<row, approval, lock, worker, readVars, background, historyVars>>

\* expires_at passes.
ApprovalExpires(a) ==
    /\ approval[a] = "granted"
    /\ approval' = [approval EXCEPT ![a] = "expired"]
    /\ UNCHANGED <<row, log, tx, lock, worker, readVars, background, historyVars, accidents>>

\* POST /api/memories/{id}/invalidate and the decay pass close a row and stage
\* no event.
CloseUnlogged(m) ==
    /\ row[m].open /\ Unlocked(m)
    /\ row' = [row EXCEPT ![m].open = FALSE]
    /\ astray' = astray \cup {m}
    /\ UNCHANGED <<approval, log, tx, lock, worker, readVars, background, covered, late, accidents>>

Governance ==
    \/ \E c \in Clients :
        \/ \E m \in Mems : Add(c, m) \/ Invalidate(c, m)
        \/ \E m \in Mems, a \in Approvals : ForgetGates(c, m, a)
        \/ ForgetRedact(c) \/ Commit(c) \/ Abort(c)
    \/ \E a \in Approvals : ApprovalExpires(a)
    \/ \E m \in Mems : CloseUnlogged(m)

-------------------------------------------------------------------------------
(* project_scope.                                                           *)

\* _acquire: SET NX PX.  A locked scope is skipped.
Acquire(w) ==
    /\ worker[w].at = "idle" /\ lock = "none"
    /\ \E again \in BOOLEAN :
        /\ again => accidents < MaxAccidents
        /\ accidents' = IF again THEN accidents + 1 ELSE accidents
        /\ worker' = [worker EXCEPT ![w] = [Resting EXCEPT !.at = "read", !.replay = again]]
    /\ lock' = w
    /\ UNCHANGED <<govVars, readVars, background, historyVars>>

MarkHeld(w) ==
    \E v \in Workers \ {w} : worker[v].at \in {"fetch", "write", "commit"}
                              /\ (worker[v].done # {} \/ worker[v].replay)

\* SELECT ... WHERE seq > last ORDER BY seq: the rows are then taken least seq
\* first.  A replay has first put every vector and the watermark of the scope
\* back to nothing.
Read(w) ==
    /\ worker[w].at = "read"
    /\ worker[w].replay => ~MarkHeld(w) /\ \A m \in Mems : Unlocked(m)
    /\ LET last == IF worker[w].replay THEN 0 ELSE mark
           found == {s \in Visible : s > last}
       IN worker' = [worker EXCEPT ![w] =
            [@ EXCEPT !.at = IF found = {} THEN "commit" ELSE "fetch",
                      !.todo = found,
                      !.blind = {s \in Seqs : log[s].state = "open" /\ \E t \in found : s < t},
                      !.vec = [m \in Mems |->
                          IF worker[w].replay /\ row[m].text # "none" THEN "null" ELSE "keep"],
                      !.ops = IF worker[w].replay THEN <<<<"flush", "none">>>> ELSE <<>>]]
    /\ UNCHANGED <<govVars, lock, readVars, background, historyVars, accidents>>

\* The projector reads the row and, for a statement, awaits the embedder.
Fetch(w) ==
    /\ worker[w].at = "fetch"
    /\ worker' = [worker EXCEPT ![w].at = "write",
                                ![w].got = row[log[Min(worker[w].todo)].mem]]
    /\ UNCHANGED <<govVars, lock, readVars, background, historyVars, accidents>>

\* mutant: a redacted row keeps its vector
VectorOf_KeepsRedacted(kind, got, old) ==
    IF got.text = "said" /\ kind = "stored" THEN "said" ELSE old

\* project_fact_stored and project_fact_invalidated: what an event does to the
\* vector, given the row as it was read.
VectorOf(kind, got, old) ==
    CASE got.text = "redacted" -> "null"
      [] got.text = "said" /\ kind = "stored" -> "said"
      [] OTHER -> old

\* ... and the Redis operation it defers.
OpsOf(kind, got, m) ==
    CASE got.text = "none" /\ kind = "stored" -> <<>>
      [] got.text = "said" /\ kind = "stored" -> IF got.open THEN <<<<"hset", m>>>> ELSE <<>>
      [] OTHER -> <<<<"hdel", m>>>>

\* The UPDATE of the vector and of the watermark, uncommitted.
Write(w) ==
    LET s == Min(worker[w].todo)
        kind == log[s].kind
        m == log[s].mem
        got == worker[w].got
    IN /\ worker[w].at = "write"
       /\ ~HeldByClient(m) /\ \A v \in Workers \ {w} : worker[v].vec[m] = "keep"
       /\ ~MarkHeld(w)
       /\ worker' = [worker EXCEPT
            ![w].vec[m] = VectorOf(kind, got, @),
            ![w].ops = @ \o OpsOf(kind, got, m),
            ![w].done = @ \cup {s},
            ![w].todo = @ \ {s},
            ![w].at = IF worker[w].todo = {s} THEN "commit" ELSE "fetch"]
       /\ UNCHANGED <<govVars, lock, readVars, background, historyVars, accidents>>

\* mutant: the watermark at the end of the log
MarkAfter_EndOfLog(w) == Len(log)

\* _advance_watermark wrote the last seq unconditionally, for both projections.
MarkAfter(w) ==
    CASE worker[w].done # {} -> Max(worker[w].done)
      [] worker[w].replay /\ worker[w].done = {} -> 0
      [] OTHER -> mark

CommitProjection(w) ==
    /\ worker[w].at = "commit"
    /\ vector' = [m \in Mems |-> IF worker[w].vec[m] = "keep" THEN vector[m] ELSE worker[w].vec[m]]
    /\ mark' = MarkAfter(w)
    /\ covered' = IF worker[w].replay THEN worker[w].done ELSE covered \cup worker[w].done
    /\ late' = late \cup worker[w].blind
    /\ astray' = IF worker[w].replay /\ lock = w /\ \A v \in Workers \ {w} : worker[v].at = "idle"
                 THEN {} ELSE astray
    /\ worker' = [worker EXCEPT ![w].at = "apply", ![w].vec = Resting.vec]
    /\ UNCHANGED <<govVars, lock, current, background, accidents>>

\* _apply_redis_ops, one operation at a time, after the commit.
ApplyOp(w) ==
    /\ worker[w].at = "apply" /\ worker[w].ops # <<>>
    /\ LET op == Head(worker[w].ops) IN
        current' = CASE op[1] = "flush" -> {}
                     [] op[1] = "hset" -> current \cup {op[2]}
                     [] op[1] = "hdel" -> current \ {op[2]}
    /\ worker' = [worker EXCEPT ![w].ops = Tail(@)]
    /\ UNCHANGED <<govVars, lock, vector, mark, background, historyVars, accidents>>

\* _release reads the key ...
ReleaseCheck(w) ==
    /\ \/ worker[w].at = "apply" /\ worker[w].ops = <<>>
       \/ worker[w].at = "failed"
    /\ worker' = [worker EXCEPT ![w] =
                    [Resting EXCEPT !.at = IF lock = w THEN "release" ELSE "idle"]]
    /\ UNCHANGED <<govVars, lock, readVars, background, historyVars, accidents>>

\* ... and deletes it in a second round trip, whoever owns it by then.
ReleaseDelete(w) ==
    /\ worker[w].at = "release"
    /\ lock' = "none"
    /\ worker' = [worker EXCEPT ![w] = Resting]
    /\ UNCHANGED <<govVars, readVars, background, historyVars, accidents>>

\* Memories whose Redis operations are still owed by w.
Owed(w) == {worker[w].ops[i][2] : i \in DOMAIN worker[w].ops} \ {"none"}
OwedNow(w) == IF worker[w].at # "apply" THEN {}
              ELSE IF \E i \in DOMAIN worker[w].ops : worker[w].ops[i][1] = "flush"
                   THEN Mems ELSE Owed(w)

\* The embedder, the database or Redis raises: before the commit everything
\* rolls back, after it the operations not yet applied are gone for good.  A
\* process that dies releases nothing.
Falls(w, place) ==
    /\ worker[w].at \in {"read", "fetch", "write", "commit", "apply"}
    /\ accidents < MaxAccidents
    /\ accidents' = accidents + 1
    /\ astray' = astray \cup OwedNow(w)
    /\ worker' = [worker EXCEPT ![w] = [Resting EXCEPT !.at = place]]
    /\ UNCHANGED <<govVars, lock, readVars, background, covered, late>>

Fail(w) == Falls(w, "failed")
Crash(w) == Falls(w, "idle")

\* mutant: a key without a TTL
LockExpires_NoTTL == FALSE /\ UNCHANGED vars

\* The 30 s TTL.  Under a live holder it lets a second projection in; whatever
\* either of them then applies may be out of order.
Working(w) == worker[w].at # "idle"

LockExpires ==
    /\ lock # "none"
    /\ lock' = "none"
    /\ IF Working(lock)
       THEN /\ accidents < MaxAccidents
            /\ accidents' = accidents + 1
            /\ astray' = Mems
       ELSE UNCHANGED <<accidents, astray>>
    /\ UNCHANGED <<govVars, worker, readVars, background, covered, late>>

WorkerStep(w) ==
    Read(w) \/ Fetch(w) \/ Write(w) \/ CommitProjection(w) \/ ApplyOp(w)
        \/ ReleaseCheck(w) \/ ReleaseDelete(w)

-------------------------------------------------------------------------------
(* Embeddings outside the projection.                                       *)

\* _process_episode_bg stores the vector of the text the request carried,
\* whatever has become of the row.
StoreBackground(m) ==
    /\ background[m] # "none" /\ Unlocked(m)
    /\ vector' = [vector EXCEPT ![m] = background[m]]
    /\ background' = [background EXCEPT ![m] = "none"]
    /\ astray' = IF row[m].text # background[m] THEN astray \cup {m} ELSE astray
    /\ UNCHANGED <<govVars, lock, worker, mark, current, covered, late, accidents>>

\* A restart loses the background tasks; _sweep_unembedded then reads the rows
\* that have no vector.
Restart ==
    /\ accidents < MaxAccidents
    /\ accidents' = accidents + 1
    /\ background' = [m \in Mems |->
            IF vector[m] = "null" /\ row[m].text # "none" THEN row[m].text ELSE "none"]
    /\ UNCHANGED <<govVars, lock, worker, readVars, historyVars>>

MemoryNext ==
    \/ Governance
    \/ \E w \in Workers : Acquire(w) \/ WorkerStep(w) \/ Fail(w) \/ Crash(w)
    \/ LockExpires
    \/ \E m \in Mems : StoreBackground(m)
    \/ Restart

MemorySpec == MemoryInit /\ [][MemoryNext]_vars

\* Transactions end, the scheduler keeps calling project_scope, a call that
\* started goes on, and the key of a dead holder times out.
FairMemorySpec ==
    /\ MemorySpec
    /\ \A c \in Clients : WF_vars(ForgetRedact(c)) /\ WF_vars(Commit(c))
    /\ WF_vars(\E w \in Workers : Acquire(w))
    /\ \A w \in Workers : WF_vars(WorkerStep(w))
    /\ WF_vars(lock # "none" /\ ~Working(lock) /\ LockExpires)

-------------------------------------------------------------------------------
TypeOK ==
    /\ row \in [Mems -> [text : Texts, open : BOOLEAN]]
    /\ vector \in [Mems -> {"null", "said", "redacted"}]
    /\ approval \in [Approvals -> {"granted", "expired"}]
    /\ log \in Seq([kind : {"stored", "invalidated"}, mem : Mems,
                    approval : Approvals \cup {"none"},
                    state : {"open", "visible", "aborted"}])
    /\ tx \in [Clients -> [op : {"none", "add", "invalidate", "forget"},
                           at : {"idle", "gated", "staged"},
                           mem : Mems \cup {"none"},
                           approval : Approvals \cup {"none"}, seq : Nat]]
    /\ lock \in Workers \cup {"none"}
    /\ mark \in 0..Len(log) /\ covered \subseteq Seqs
    /\ current \subseteq Mems /\ astray \subseteq Mems

\* The rows and the log keep the ledger's promises.
Ledger == INSTANCE MemoryLedger WITH
    life <- [m \in Mems |->
                CASE row[m].text = "none" -> "none"
                  [] row[m].text = "redacted" -> "forgotten"
                  [] row[m].open -> "live"
                  [] OTHER -> "closed"],
    spent <- {log[s].approval : s \in {t \in Visible : log[t].approval # "none"}}

LedgerHolds == Ledger!LedgerSpec

\* Nothing below the watermark was skipped, except what was still uncommitted
\* when a projection read past it (_read_watermark, the SELECT by seq).
NothingSkipped ==
    \A s \in Visible : s <= mark => s \in covered \cup late

EventsOf(m) == {s \in Visible : log[s].mem = m}
AtRest == /\ \A w \in Workers : worker[w].at = "idle"
          /\ \A c \in Clients : tx[c].at = "idle"
          /\ \A s \in Visible : s <= mark

\* With nothing in progress and the log projected, the read model is what the
\* rows say: Redis holds the open statements, the vectors are those of the
\* statements and nothing keeps a forgotten text, unless an accident named in
\* this module touched that memory.
ReadModelTrue ==
    AtRest => \A m \in Mems \ astray :
        EventsOf(m) \subseteq covered =>
            /\ m \in current <=> row[m].open
            /\ row[m].text = "said" => vector[m] = "said"
            /\ row[m].text = "redacted" => vector[m] # "said"

\* What a forget staged and committed is below the watermark only once Redis
\* no longer holds the statement, or a worker is about to take it out.
ForgottenLeavesRedis ==
    \A m \in Mems :
        /\ row[m].text = "redacted"
        /\ EventsOf(m) \subseteq covered
        /\ \A w \in Workers : worker[w].at = "idle"
        => m \notin current

\* Every committed event is projected sooner or later.
LogDrains ==
    \A s \in 1..MaxSeq : (s \in Visible) ~> (mark >= s)
===============================================================================
