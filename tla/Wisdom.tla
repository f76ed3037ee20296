-------------------------------- MODULE Wisdom --------------------------------
(***************************************************************************)
(* From decisions to principles to recallable memories: run_decision_audit,  *)
(* distill_principles (cognition/meta) and _sync_principles_to_memory, in    *)
(* the order the endpoints /api/meta/audit and /api/meta/distill and the     *)
(* refresh script call them.  Each looks for a text among its rows and then  *)
(* inserts it; no table has a unique key on the text.                        *)
(***************************************************************************)
EXTENDS Naturals, FiniteSets

CONSTANTS
    Thinkers,   \* requests, or the refresh script
    Sayings,    \* decisions, and statements of principles
    MaxMade,    \* bound: rows ever inserted of one text in one table
    MaxUpsets   \* bound: failures and refreshes

WisdomAssumption == MaxMade \in Nat /\ MaxUpsets \in Nat /\ "" \notin Sayings

VARIABLES
    held,      \* live rows by table and text
    bare,      \* mirrored memories without an embedding: text and copy
    thinker,   \* the call in progress
    made,      \* history: rows ever inserted
    crossings, \* history: inserts after another's of the text since the check
    failed,    \* history: texts whose mirroring or embedding failed or was cut short
    upsets

wisVars == <<held, bare, thinker, made, crossings, failed, upsets>>

WisTables == {"audits", "principles", "memories"}
Away == [at |-> "idle", todo |-> {}, read |-> {}, text |-> "", saw |-> 0, fell |-> FALSE]
None == [t \in WisTables |-> [x \in Sayings |-> 0]]
HeldIn(table) == {x \in Sayings : held[table][x] > 0}
Upset == upsets < MaxUpsets /\ upsets' = upsets + 1

WisInit ==
    /\ held = None /\ made = None /\ crossings = None
    /\ bare = {} /\ failed = {} /\ upsets = 0
    /\ thinker = [k \in Thinkers |-> Away]

Turns(k, table, texts) ==
    thinker' = [thinker EXCEPT ![k] = [Away EXCEPT !.at = table, !.todo = texts, !.read = texts]]

\* run_decision_audit: the model's decisions, or the expressions' without a model.
Audits(k) ==
    /\ thinker[k].at = "idle"
    /\ \E texts \in SUBSET Sayings, fell \in BOOLEAN :
        thinker' = [thinker EXCEPT ![k] =
            [Away EXCEPT !.at = "audits", !.todo = texts, !.read = texts, !.fell = fell]]
    /\ UNCHANGED <<held, bare, made, crossings, failed, upsets>>

\* An insert or the event fails amid the model's decisions: what is recorded
\* stays and the expressions' decisions come on top.
FallsBack(k) ==
    /\ thinker[k].at = "audits" /\ ~thinker[k].fell /\ Upset
    /\ \E texts \in SUBSET Sayings :
        thinker' = [thinker EXCEPT ![k] =
            [Away EXCEPT !.at = "audits", !.todo = texts, !.read = texts, !.fell = TRUE]]
    /\ UNCHANGED <<held, bare, made, crossings, failed>>

\* Any other error, or the end of the process, ends the call.
Stops(k) ==
    /\ thinker[k].at # "idle" /\ Upset
    /\ failed' = IF thinker[k].at = "embeds" THEN failed \cup {thinker[k].text} ELSE failed
    /\ thinker' = [thinker EXCEPT ![k] = Away]
    /\ UNCHANGED <<held, bare, made, crossings>>

Idles(k, at) == thinker[k].at = at /\ thinker[k].todo = {} /\ thinker[k].text = ""

\* distill_principles, after the audit or alone: nothing without a decision or
\* when the model fails, else the statements it is confident of.
Distills(k) ==
    /\ thinker[k].at = "idle" \/ Idles(k, "audits")
    /\ \E texts \in IF HeldIn("audits") = {} THEN {{}} ELSE SUBSET Sayings : Turns(k, "principles", texts)
    /\ UNCHANGED <<held, bare, made, crossings, failed, upsets>>

\* _sync_principles_to_memory: every live principle.
Mirrors(k) ==
    /\ Idles(k, "principles")
    /\ Turns(k, "memories", HeldIn("principles"))
    /\ UNCHANGED <<held, bare, made, crossings, failed, upsets>>

\* mutant: a text is looked for in the table it comes from
Present_Other(table, x) == held["audits"][x] > 0

\* SELECT 1 ... WHERE statement = text (and valid_to IS NULL).
Present(table, x) == held[table][x] > 0

LooksFor(k, x) ==
    /\ x \in thinker[k].todo /\ thinker[k].text = ""
    /\ LET table == thinker[k].at IN
        thinker' = [thinker EXCEPT ![k].todo = @ \ {x},
                                   ![k].text = IF Present(table, x) THEN "" ELSE x,
                                   ![k].saw = made[table][x]]
    /\ UNCHANGED <<held, bare, made, crossings, failed, upsets>>

\* INSERT, or governance's add followed by the embedding of the row.
Records(k) ==
    LET x == thinker[k].text
        table == thinker[k].at
    IN
    /\ x # "" /\ table \in WisTables /\ made[table][x] < MaxMade
    /\ held' = [held EXCEPT ![table][x] = @ + 1]
    /\ made' = [made EXCEPT ![table][x] = @ + 1]
    /\ crossings' = IF made[table][x] > thinker[k].saw THEN [crossings EXCEPT ![table][x] = @ + 1] ELSE crossings
    /\ IF table = "memories"
       THEN /\ bare' = bare \cup {<<x, made'[table][x]>>}
            /\ thinker' = [thinker EXCEPT ![k].at = "embeds", ![k].saw = made'[table][x]]
       ELSE UNCHANGED bare /\ thinker' = [thinker EXCEPT ![k].text = ""]
    /\ UNCHANGED <<failed, upsets>>

Embeds(k) ==
    /\ thinker[k].at = "embeds"
    /\ bare' = bare \ {<<thinker[k].text, thinker[k].saw>>}
    /\ thinker' = [thinker EXCEPT ![k].at = "memories", ![k].text = ""]
    /\ UNCHANGED <<held, made, crossings, failed, upsets>>

\* add raises, and the principle is skipped; or its embedding fails, which _embed_row
\* swallows: the principle counts as added, and its memory stays bare.
Skips(k) ==
    /\ thinker[k].at \in {"memories", "embeds"} /\ thinker[k].text # "" /\ Upset
    /\ failed' = failed \cup {thinker[k].text}
    /\ thinker' = [thinker EXCEPT ![k].at = "memories", ![k].text = ""]
    /\ UNCHANGED <<held, bare, made, crossings>>

\* The answer of the endpoint.
Replies(k) ==
    /\ Idles(k, "memories")
    /\ thinker' = [thinker EXCEPT ![k] = Away]
    /\ UNCHANGED <<held, bare, made, crossings, failed, upsets>>

\* The refresh script deletes the decisions and closes the principles; the
\* memories stay.
Refreshes ==
    /\ Upset
    /\ held' = [held EXCEPT !["audits"] = None["audits"], !["principles"] = None["principles"]]
    /\ UNCHANGED <<bare, thinker, made, crossings, failed>>

WisNext ==
    \/ Refreshes
    \/ \E k \in Thinkers : \/ Audits(k) \/ FallsBack(k) \/ Stops(k) \/ Distills(k) \/ Mirrors(k) \/ Records(k)
                           \/ Embeds(k) \/ Skips(k) \/ Replies(k)
                           \/ \E x \in thinker[k].todo : LooksFor(k, x)

WisSpec == WisInit /\ [][WisNext]_wisVars

-------------------------------------------------------------------------------
WisTypeOK ==
    /\ held \in [WisTables -> [Sayings -> Nat]] /\ failed \subseteq Sayings
    /\ bare \subseteq Sayings \X (1..MaxMade)
    /\ \A k \in Thinkers : thinker[k].todo \subseteq Sayings

\* A decision, a principle and its memory are recorded once ("Dedup"), though the
\* model's path may fail half-way and start over with the expressions, and once
\* more only for an insert that another call's insert preceded since the check.
SaidOnce == \A t \in WisTables, x \in Sayings : held[t][x] <= 1 + crossings[t][x]

\* A sync leaves every principle it read mirrored, unless that principle failed;
\* a mirror that stays without embedding, which no later sync gives it, is one
\* whose embedding failed.
MirrorsComplete ==
    /\ \A k \in Thinkers : thinker[k].at \in {"memories", "embeds"} =>
        thinker[k].read \ (thinker[k].todo \cup {thinker[k].text}) \subseteq HeldIn("memories") \cup failed
    /\ \A b \in bare : \/ b[1] \in failed
                      \/ \E k \in Thinkers : /\ thinker[k].at = "embeds"
                                            /\ <<thinker[k].text, thinker[k].saw>> = b
===============================================================================
