----------------------------- MODULE MemoryLedger -----------------------------
(***************************************************************************)
(* What memory governance promises about the statements it keeps: a         *)
(* statement is recorded once, may be closed, may be forgotten, never comes *)
(* back from either, and every hard forget spends an approval of its own.   *)
(* Memory implements this with transactions, an advisory lock and the event *)
(* log.                                                                     *)
(***************************************************************************)
CONSTANTS Mems, Approvals

VARIABLES
    life,   \* what became of each statement
    spent   \* approvals that paid for a forget

Lives == {"none", "live", "closed", "forgotten"}

LedgerInit ==
    /\ life \in [Mems -> {"none", "live"}]
    /\ spent = {}

Record(m) ==
    /\ life[m] = "none"
    /\ life' = [life EXCEPT ![m] = "live"]
    /\ UNCHANGED spent

Close(m) ==
    /\ life[m] = "live"
    /\ life' = [life EXCEPT ![m] = "closed"]
    /\ UNCHANGED spent

Forget(m, a) ==
    /\ life[m] \in {"live", "closed"}
    /\ a \notin spent
    /\ life' = [life EXCEPT ![m] = "forgotten"]
    /\ spent' = spent \cup {a}

LedgerNext ==
    \E m \in Mems : Record(m) \/ Close(m) \/ \E a \in Approvals : Forget(m, a)

LedgerSpec == LedgerInit /\ [][LedgerNext]_<<life, spent>>
===============================================================================
