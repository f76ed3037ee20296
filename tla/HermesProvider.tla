---------------------------- MODULE HermesProvider ----------------------------
(***************************************************************************)
(* The memory provider Hermes loads (hermes_integration/plugin.py), over the *)
(* API: the mirror of the built-in memory tool (on_memory_write), and the    *)
(* recall a turn's end starts in a thread for the next turn (queue_prefetch, *)
(* prefetch).  Every call of the API may fail; none is repeated.             *)
(***************************************************************************)
EXTENDS Naturals, Sequences, FiniteSets

CONSTANTS
    Contents,     \* what the built-in memory may hold
    Includes,     \* pairs <<a, b>>: the text a contains the first 80 characters of b
    MaxWrites,    \* bound: writes of the built-in memory
    MaxTurns,     \* bound: turns
    MaxApiErrors  \* bound: calls that fail

HermesAssumption ==
    /\ Includes \subseteq Contents \X Contents /\ \A c \in Contents : <<c, c>> \in Includes
    /\ {MaxWrites, MaxTurns, MaxApiErrors} \subseteq Nat

VARIABLES
    builtin,   \* the built-in memory's entries, per target (external)
    live,      \* memories with valid_to null, per statement
    write,     \* on_memory_write in progress: the calls left, and what they are about
    lost,      \* history: contents whose ingest failed
    astray,    \* history: contents whose memory was invalidated though "memory" held them
    turn,      \* turns so far
    recalls,   \* curlyos-prefetch threads, by the turn that started them
    slot,      \* _prefetch_result: the turn whose recall it holds, 0 for ""
    asked,     \* history: the last turn that started a recall
    unordered, \* history: the last recall began while another was running
    toolWrites, apiErrors

hermesVars == <<builtin, live, write, lost, astray, turn, recalls, slot, asked, unordered,
               toolWrites, apiErrors>>

Targets == {"memory", "user"}
NoWrite == [plan |-> <<>>, old |-> "", new |-> "", hit |-> ""]

HermesInit ==
    /\ builtin = [t \in Targets |-> {}] /\ live = [c \in Contents |-> 0]
    /\ write = NoWrite /\ lost = {} /\ astray = {}
    /\ turn = 0 /\ recalls = {} /\ slot = 0 /\ asked = 0 /\ unordered = FALSE
    /\ toolWrites = 0 /\ apiErrors = 0

ApiFails == apiErrors < MaxApiErrors /\ apiErrors' = apiErrors + 1
MirrorSame == UNCHANGED <<builtin, live, write, lost, astray, toolWrites>>
PrefetchSame == UNCHANGED <<turn, recalls, slot, asked, unordered>>

-------------------------------------------------------------------------------
\* mutant: the new content is stored first
Plan_NewFirst(action, target, known) ==
    CASE action = "add" -> IF target = "user" THEN <<"identity">> ELSE <<"ingest">>
      [] action = "replace" -> IF known THEN <<"ingest", "find", "invalidate">> ELSE <<"ingest">>
      [] OTHER -> <<"find", "invalidate">>

\* The calls of the three actions, in order.  Only an add asks which target it is,
\* and a replace may not be told the content it replaces.
Plan(action, target, known) ==
    CASE action = "add" -> IF target = "user" THEN <<"identity">> ELSE <<"ingest">>
      [] action = "replace" -> IF known THEN <<"find", "invalidate", "ingest">> ELSE <<"ingest">>
      [] OTHER -> <<"find", "invalidate">>

\* The tool has written its entry, one it did not hold, or removed one, and calls
\* on_memory_write on the same thread.
ToolWrites(action, target, old, new, known) ==
    /\ write = NoWrite /\ toolWrites < MaxWrites
    /\ IF action = "add" THEN old = new ELSE old \in builtin[target]
    /\ IF action = "remove" THEN old = new ELSE new \notin builtin[target]
    /\ builtin' = [builtin EXCEPT ![target] =
            CASE action = "add" -> @ \cup {new}
              [] action = "replace" -> (@ \ {old}) \cup {new}
              [] OTHER -> @ \ {old}]
    /\ write' = [plan |-> Plan(action, target, known), old |-> old, new |-> new, hit |-> ""]
    /\ toolWrites' = toolWrites + 1
    /\ UNCHANGED <<live, lost, astray, apiErrors>> /\ PrefetchSame

\* The write goes on with the calls after the first n.
GoOn(n, hit) ==
    LET rest == SubSeq(write.plan, n + 1, Len(write.plan))
    IN  write' = IF rest = <<>> THEN NoWrite ELSE [write EXCEPT !.plan = rest, !.hit = hit]

Doing(call) == write # NoWrite /\ Head(write.plan) = call

\* _invalidate_by_content: GET /api/search, and the first of at most five live
\* memories that contains the old content.  Ranking decides which, and a search
\* may match none; then, or after an error, there is nothing to invalidate.
Finds ==
    /\ Doing("find")
    /\ \/ \E c \in Contents : live[c] > 0 /\ <<c, write.old>> \in Includes /\ GoOn(1, c) /\ UNCHANGED apiErrors
       \/ GoOn(2, "") /\ UNCHANGED apiErrors
       \/ ApiFails /\ GoOn(2, "")
    /\ UNCHANGED <<builtin, live, lost, astray, toolWrites>> /\ PrefetchSame

\* ... POST /api/memories/{id}/invalidate.  The memory may be that of an entry the
\* tool still holds: a longer text, or the same one under the other target.  What
\* a replace is about to ingest does not matter.
InvalidatesHit ==
    /\ Doing("invalidate")
    /\ \/ /\ live' = [live EXCEPT ![write.hit] = @ - 1]
          /\ astray' = astray \cup {c \in {write.hit} \cap builtin["memory"] :
                                     write.old = write.new \/ c # write.new}
          /\ UNCHANGED apiErrors
       \/ ApiFails /\ UNCHANGED <<live, astray>>
    /\ GoOn(1, "")
    /\ UNCHANGED <<builtin, lost, toolWrites>> /\ PrefetchSame

\* _ingest; an error in its answer is not looked at.
Ingests ==
    /\ Doing("ingest")
    /\ \/ /\ live' = [live EXCEPT ![write.new] = @ + 1]
          /\ lost' = lost \ {write.new} /\ astray' = astray \ {write.new}
          /\ UNCHANGED apiErrors
       \/ ApiFails /\ lost' = lost \cup {write.new} /\ UNCHANGED <<live, astray>>
    /\ GoOn(1, "")
    /\ UNCHANGED <<builtin, toolWrites>> /\ PrefetchSame

\* POST /api/identity for an entry about the user: a fact of the identity, and no memory.
PostsIdentity ==
    /\ Doing("identity")
    /\ ApiFails \/ UNCHANGED apiErrors
    /\ GoOn(1, "")
    /\ UNCHANGED <<builtin, live, lost, astray, toolWrites>> /\ PrefetchSame

-------------------------------------------------------------------------------
\* queue_prefetch at the end of a turn: a thread of its own, whatever still runs,
\* or nothing at all if the turn's query is blank.
TurnEnds ==
    /\ turn < MaxTurns
    /\ turn' = turn + 1
    /\ \/ recalls' = recalls \cup {turn'} /\ unordered' = (recalls # {}) /\ asked' = turn'
       \/ UNCHANGED <<recalls, unordered, asked>>
    /\ UNCHANGED <<slot, apiErrors>> /\ MirrorSame

AfterFailure == 0

\* _background_recall: a block, or "" if there are no results or the call failed.
RecallEnds(t) ==
    /\ t \in recalls /\ recalls' = recalls \ {t}
    /\ \/ slot' \in {t, 0} /\ UNCHANGED apiErrors
       \/ ApiFails /\ slot' = AfterFailure
    /\ UNCHANGED <<turn, asked, unordered>> /\ MirrorSame

HermesNext ==
    \/ \E a \in {"add", "replace", "remove"}, t \in Targets, old, new \in Contents, known \in BOOLEAN :
            ToolWrites(a, t, old, new, known)
    \/ Finds \/ InvalidatesHit \/ Ingests \/ PostsIdentity
    \/ TurnEnds \/ \E t \in recalls : RecallEnds(t)

HermesSpec == HermesInit /\ [][HermesNext]_hermesVars

-------------------------------------------------------------------------------
HermesTypeOK ==
    /\ live \in [Contents -> Nat]
    /\ slot \in 0..turn /\ asked \in 0..turn /\ recalls \subseteq 1..turn

\* What the built-in memory holds of the agent's notes (not of the user) can be
\* recalled: it has a live memory once its write is mirrored, unless the ingest
\* failed, or the search of another write hit it: one for a text it contains, or
\* for the same text under the other target.
MirrorKeeps == write = NoWrite => \A c \in builtin["memory"] \ (lost \cup astray) : live[c] > 0

\* When no recall is running and the last one ran alone, the block prefetch injects
\* as authoritative is that of the last turn that asked for one, or there is none:
\* a turn with a blank query leaves the block as it is, for the turns after it.
PrefetchIsLast == recalls = {} /\ ~unordered => slot \in {0, asked}

\* The notes in the built-in memory of Hermes stay mirrored, and the block it is
\* given is never of a turn before the last one that asked (hermes_integration).
HermesKeepsUp == HermesTypeOK /\ MirrorKeeps /\ PrefetchIsLast
===============================================================================
