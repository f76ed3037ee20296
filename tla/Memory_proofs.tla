----------------------------- MODULE Memory_proofs -----------------------------
(***************************************************************************)
(* Three results about Memory, for any number of statements, approvals,      *)
(* calls and workers.                                                        *)
(*                                                                         *)
(* Governance implements MemoryLedger (GovInv): a statement's life changes   *)
(* only at a commit, the row a transaction updates is its own until then,    *)
(* and an approval a forget holds is held by it alone and named by no event  *)
(* that others can see.                                                      *)
(*                                                                         *)
(* The projection reads every event (ReadInv, PassInv): one call at a time   *)
(* holds the watermark's row, and all that lies below the end of a pass was  *)
(* found by it, was open when it looked, or was below the watermark.         *)
(*                                                                         *)
(* The read model follows the rows (HistInv, ModelInv): what the rows say is *)
(* what the committed events say, and event by event the vectors and the     *)
(* Redis operations of a pass agree with the rows; at a memory no accident   *)
(* has touched, one call at a time projects.                                 *)
(***************************************************************************)
EXTENDS Memory, FiniteSetTheorems, WellFoundedInduction, TLAPS

\* The two state functions the ledger is read from.
LifeOf(r) == CASE r.text = "none" -> "none"
               [] r.text = "redacted" -> "forgotten"
               [] r.open -> "live"
               [] OTHER -> "closed"
Life == [m \in Mems |-> LifeOf(row[m])]
Spent == {log[s].approval : s \in {t \in Visible : log[t].approval # "none"}}

Row == [text : Texts, open : BOOLEAN]
RowInv == row \in [Mems -> Row] /\ \A m \in Mems : row[m].open => row[m].text = "said"

\* What the log can hold.
Event == [kind : {"stored", "invalidated"}, mem : Mems, approval : Approvals \cup {"none"},
          state : {"open", "visible", "aborted"}]
LogInv == log \in Seq(Event)

Call == [op : {"none", "add", "invalidate", "forget"}, at : {"idle", "gated", "staged"},
         mem : Mems \cup {"none"}, approval : Approvals \cup {"none"}, seq : Nat]

\* What a call in progress may count on: its row is as it found it, its event is
\* staged, and the approval of a forget is in no visible event.
Sound(c) ==
    /\ tx[c].mem \in Mems /\ tx[c].op # "none"
    /\ tx[c].op # "forget" => tx[c].at = "staged" /\ tx[c].approval = "none"
    /\ tx[c].op = "forget" => /\ tx[c].approval \in Approvals /\ Unused(tx[c].approval)
                              /\ row[tx[c].mem].text # "none"
Staged(c) ==
    /\ tx[c].seq \in Seqs
    /\ log[tx[c].seq].state = "open" /\ log[tx[c].seq].approval = tx[c].approval
    /\ tx[c].op = "add" => row[tx[c].mem].text = "none"
    /\ tx[c].op = "invalidate" => row[tx[c].mem].open
    /\ tx[c].op = "forget" => row[tx[c].mem].text = "said"

\* Two calls update different rows, stage different events, hold different approvals.
Apart(c, d) ==
    /\ tx[c].at = "staged" /\ tx[d].at = "staged" => tx[c].mem # tx[d].mem /\ tx[c].seq # tx[d].seq
    /\ tx[c].at # "idle" /\ tx[d].at # "idle" =>
            tx[c].approval = "none" \/ tx[c].approval # tx[d].approval

TxInv ==
    /\ tx \in [Clients -> Call]
    /\ \A c \in Clients : /\ tx[c].at # "idle" => Sound(c)
                          /\ tx[c].at = "staged" => Staged(c)
    /\ \A c \in Clients, d \in Clients : c # d => Apart(c, d)

GovInv == RowInv /\ LogInv /\ TxInv

-------------------------------------------------------------------------------
\* The ledger's actions, in terms of Life and Spent.
LEMMA RecordIs ==
    ASSUME NEW m \in Mems, Life[m] = "none", Life' = [Life EXCEPT ![m] = "live"], Spent' = Spent
    PROVE  Ledger!LedgerNext
  <1>1. Ledger!Record(m)
    BY DEF Ledger!Record, Life, LifeOf, Spent
  <1>. QED
    BY <1>1 DEF Ledger!LedgerNext

LEMMA CloseIs ==
    ASSUME NEW m \in Mems, Life[m] = "live", Life' = [Life EXCEPT ![m] = "closed"], Spent' = Spent
    PROVE  Ledger!LedgerNext
  <1>1. Ledger!Close(m)
    BY DEF Ledger!Close, Life, LifeOf, Spent
  <1>. QED
    BY <1>1 DEF Ledger!LedgerNext

LEMMA ForgetIs ==
    ASSUME NEW m \in Mems, NEW a \in Approvals, Life[m] \in {"live", "closed"},
           Life' = [Life EXCEPT ![m] = "forgotten"], a \notin Spent, Spent' = Spent \cup {a}
    PROVE  Ledger!LedgerNext
  <1>1. Ledger!Forget(m, a)
    BY DEF Ledger!Forget, Life, LifeOf, Spent
  <1>. QED
    BY <1>1 DEF Ledger!LedgerNext

\* One row written is one life changed.
LEMMA LifeMoves ==
    ASSUME RowInv, NEW m \in Mems, NEW r \in Row, row' = [row EXCEPT ![m] = r],
           r.open => r.text = "said"
    PROVE  RowInv' /\ Life' = [Life EXCEPT ![m] = LifeOf(r)] /\ row'[m] = r
           /\ \A n \in Mems \ {m} : row'[n] = row[n]
  <1>1. row'[m] = r /\ \A n \in Mems \ {m} : row'[n] = row[n]
    BY DEF RowInv
  <1>2. row' \in [Mems -> Row]
    BY DEF RowInv
  <1>3. RowInv'
    BY <1>1, <1>2 DEF RowInv
  <1>4. Life' = [Life EXCEPT ![m] = LifeOf(r)]
    <2>1. Life = [n \in Mems |-> LifeOf(row[n])] /\ Life' = [n \in Mems |-> LifeOf(row'[n])]
      BY DEF Life
    <2>2. \A n \in Mems : LifeOf(row'[n]) = IF n = m THEN LifeOf(r) ELSE LifeOf(row[n])
      BY <1>1
    <2>. QED
      BY <2>1, <2>2
  <1>. QED
    BY <1>1, <1>3, <1>4

\* An event staged is one nobody else sees.
LEMMA StageEffect ==
    ASSUME LogInv, NEW kind \in {"stored", "invalidated"}, NEW m \in Mems,
           NEW a \in Approvals \cup {"none"}, Stage(kind, m, a)
    PROVE  /\ LogInv' /\ Len(log) \in Nat /\ Len(log') = Len(log) + 1
           /\ Seqs' = Seqs \cup {Len(log')} /\ Len(log') \notin Seqs
           /\ \A s \in Seqs : log'[s] = log[s]
           /\ log'[Len(log')].state = "open" /\ log'[Len(log')].approval = a
           /\ Visible' = Visible
  <1>. DEFINE e == [kind |-> kind, mem |-> m, approval |-> a, state |-> "open"]
  <1>1. e \in Event /\ e.state = "open" /\ e.approval = a
    BY DEF Event
  <1>2. log' = Append(log, e)
    BY DEF Stage
  <1>. HIDE DEF e
  <1>3. /\ log' \in Seq(Event) /\ Len(log) \in Nat /\ Len(log') = Len(log) + 1
        /\ log'[Len(log) + 1] = e /\ \A s \in 1..Len(log) : log'[s] = log[s]
    BY <1>1, <1>2 DEF LogInv
  <1>4. Seqs' = Seqs \cup {Len(log')} /\ Len(log') \notin Seqs
    BY <1>3 DEF Seqs
  <1>5. Visible' = Visible
    BY <1>1, <1>3, <1>4 DEF Visible, Seqs
  <1>. QED
    BY <1>1, <1>3, <1>4, <1>5 DEF LogInv, Seqs

\* An event whose transaction ends keeps its place and its approval.
LEMMA SettleEffect ==
    ASSUME LogInv, NEW s \in Seqs, NEW state \in {"visible", "aborted"},
           log' = [log EXCEPT ![s].state = state]
    PROVE  /\ LogInv' /\ Seqs' = Seqs
           /\ log'[s].state = state /\ log'[s].approval = log[s].approval
           /\ \A t \in Seqs \ {s} : log'[t] = log[t]
           /\ Visible' = IF state = "visible" THEN Visible \cup {s} ELSE Visible \ {s}
  <1>. DEFINE e == [log[s] EXCEPT !.state = state]
  <1>1. Len(log) \in Nat /\ log \in [1..Len(log) -> Event] /\ Seqs = 1..Len(log)
    BY DEF LogInv, Seqs
  <1>2. e \in Event /\ e.state = state /\ e.approval = log[s].approval
    <2>1. log[s] \in Event
      BY <1>1
    <2>. QED
      BY <2>1 DEF Event
  <1>3. log' = [log EXCEPT ![s] = e]
    OBVIOUS
  <1>. HIDE DEF e
  <1>4. log' \in [1..Len(log) -> Event] /\ log'[s] = e /\ \A t \in Seqs \ {s} : log'[t] = log[t]
    BY <1>1, <1>2, <1>3
  <1>5. log' \in Seq(Event) /\ Len(log') = Len(log)
    BY <1>1, <1>4
  <1>6. Seqs' = Seqs
    BY <1>5 DEF Seqs
  <1>7. Visible' = IF state = "visible" THEN Visible \cup {s} ELSE Visible \ {s}
    BY <1>2, <1>4, <1>6 DEF Visible
  <1>. QED
    BY <1>2, <1>4, <1>5, <1>6, <1>7 DEF LogInv

\* Visible' and Spent' when the visible events are the same.
LEMMA SameSpent ==
    ASSUME Visible' = Visible, \A s \in Visible : log'[s].approval = log[s].approval
    PROVE  Spent' = Spent /\ \A a : Unused(a)' <=> Unused(a)
  BY DEF Spent, Unused

\* Nothing of the ledger moves unless a row or the visible events do.
LEMMA Stutter ==
    ASSUME row' = row, Spent' = Spent
    PROVE  UNCHANGED <<Life, Spent>>
  BY DEF Life

\* The log begins with one event for every statement recorded.
LEMMA RecordedListed ==
    /\ Cardinality(Recorded) \in Nat
    /\ SetToSeq(Recorded) \in [1..Cardinality(Recorded) -> Recorded]
    /\ \A m \in Recorded : \E i \in 1..Cardinality(Recorded) : SetToSeq(Recorded)[i] = m
  <1>1. IsFiniteSet(Recorded) /\ Cardinality(Recorded) \in Nat
    BY MemoryAssumption, FS_Subset, FS_CardinalityType DEF MemoryAssumption
  <1>. DEFINE D == 1..Cardinality(Recorded)
  <1>2. IsFiniteSet(D) /\ Cardinality(D) = Cardinality(Recorded)
    <2>1. IsFiniteSet(1..Cardinality(Recorded))
          /\ Cardinality(1..Cardinality(Recorded)) =
                IF 1 > Cardinality(Recorded) THEN 0 ELSE Cardinality(Recorded) - 1 + 1
      BY <1>1, FS_Interval
    <2>. QED
      BY <1>1, <2>1
  <1>3. ExistsBijection(D, Recorded)
    BY <1>1, FS_CardinalityType
  <1>4. \E f \in [D -> Recorded] : IsInjective(f)
    BY <1>3 DEF ExistsBijection, Bijection, Injection
  <1>5. SetToSeq(Recorded) \in Injection(D, Recorded)
    BY <1>4 DEF SetToSeq, Injection
  <1>6. SetToSeq(Recorded) \in Surjection(D, Recorded)
    BY <1>1, <1>2, <1>5, FS_Injection
  <1>. QED
    BY <1>1, <1>6 DEF Surjection

LEMMA InitGov == MemoryInit => GovInv /\ Ledger!LedgerInit
  <1>. SUFFICES ASSUME MemoryInit PROVE GovInv /\ Ledger!LedgerInit
    OBVIOUS
  <1>1. RowInv /\ \A m \in Mems : Life[m] \in {"none", "live"}
    BY DEF MemoryInit, RowInv, Row, Texts, Life, LifeOf
  <1>2. Cardinality(Recorded) \in Nat
    BY RecordedListed
  <1>3. /\ log \in [1..Cardinality(Recorded) -> Event]
        /\ \A i \in 1..Cardinality(Recorded) : log[i].approval = "none"
    <2>1. \A i \in 1..Cardinality(Recorded) : log[i] \in Event /\ log[i].approval = "none"
      <3>1. \A i \in 1..Cardinality(Recorded) : SetToSeq(Recorded)[i] \in Mems
        BY RecordedListed, MemoryAssumption DEF MemoryAssumption
      <3>. QED
        BY <3>1 DEF MemoryInit, Event
    <2>2. DOMAIN log = 1..Cardinality(Recorded) /\ log = [i \in 1..Cardinality(Recorded) |-> log[i]]
      BY DEF MemoryInit
    <2>. QED
      BY <2>1, <2>2
  <1>4. LogInv /\ Seqs = 1..Cardinality(Recorded)
    BY <1>2, <1>3 DEF LogInv, Seqs
  <1>5. Spent = {}
    BY <1>3, <1>4 DEF Spent, Visible
  <1>6. NoTx \in Call /\ NoTx.at = "idle" /\ \A c \in Clients : tx[c] = NoTx
    BY DEF NoTx, Call, MemoryInit
  <1>7. TxInv
    BY <1>6 DEF TxInv, Apart, MemoryInit
  <1>8. Ledger!LedgerInit
    <2>1. Life \in [Mems -> {"none", "live"}]
      BY <1>1 DEF Life
    <2>. QED
      BY <1>5, <2>1 DEF Ledger!LedgerInit, Life, LifeOf, Spent
  <1>. QED
    BY <1>1, <1>4, <1>7, <1>8 DEF GovInv

\* A call that stages its event: what it and the others may count on.
LEMMA Stages ==
    ASSUME GovInv, NEW c \in Clients, NEW kind \in {"stored", "invalidated"}, NEW call \in Call,
           call.mem \in Mems, call.at = "staged", call.seq = Len(log'), call.op # "none",
           Stage(kind, call.mem, call.approval), tx' = [tx EXCEPT ![c] = call],
           row' = row, approval' = approval,
           tx[c].at # "staged", \A d \in Clients : tx[d].at = "staged" => tx[d].mem # call.mem,
           call.op # "forget" => call.approval = "none",
           call.op = "forget" => tx[c].at = "gated" /\ call.approval = tx[c].approval /\ call.mem = tx[c].mem
                                 /\ tx[c].op = "forget",
           call.op = "add" => row[call.mem].text = "none",
           call.op = "invalidate" => row[call.mem].open,
           call.op = "forget" => row[call.mem].text # "redacted"
    PROVE  GovInv' /\ UNCHANGED <<Life, Spent>>
  <1>1. call.approval \in Approvals \cup {"none"}
    BY DEF Call
  <1>2. /\ LogInv' /\ Len(log) \in Nat /\ Len(log') = Len(log) + 1
        /\ Seqs' = Seqs \cup {Len(log')} /\ Len(log') \notin Seqs
        /\ \A s \in Seqs : log'[s] = log[s]
        /\ log'[Len(log')].state = "open" /\ log'[Len(log')].approval = call.approval
        /\ Visible' = Visible
    BY <1>1, StageEffect DEF GovInv
  <1>3. Visible \subseteq Seqs
    BY DEF Visible
  <1>4. Spent' = Spent /\ \A a : Unused(a)' <=> Unused(a)
    BY <1>2, <1>3, SameSpent
  <1>5. tx' \in [Clients -> Call] /\ tx'[c] = call /\ \A d \in Clients \ {c} : tx'[d] = tx[d]
    BY DEF GovInv, TxInv
  <1>6. /\ \A d \in Clients : (tx[d].at # "idle" => Sound(d)) /\ (tx[d].at = "staged" => Staged(d))
        /\ \A d, e \in Clients : d # e => Apart(d, e)
    BY DEF GovInv, TxInv
  <1>7. \A d \in Clients \ {c} : (tx'[d].at # "idle" => Sound(d)') /\ (tx'[d].at = "staged" => Staged(d)')
    BY <1>2, <1>4, <1>5, <1>6 DEF Sound, Staged
  <1>8. call.op = "forget" => Sound(c) /\ call.approval \in Approvals /\ Unused(call.approval)
                              /\ row[call.mem].text = "said"
    <2>1. row[call.mem].text \in Texts
      BY DEF GovInv, RowInv, Row
    <2>. QED
      BY <1>6, <2>1 DEF Sound, Texts
  <1>9. Sound(c)' /\ Staged(c)'
    BY <1>2, <1>4, <1>5, <1>8 DEF Sound, Staged
  <1>10. \A d \in Clients \ {c} : Apart(c, d)' /\ Apart(d, c)'
    <2>. SUFFICES ASSUME NEW d \in Clients \ {c} PROVE Apart(c, d)' /\ Apart(d, c)'
      OBVIOUS
    <2>1. tx[d].at = "staged" => tx[d].seq \in Seqs /\ tx[d].seq # call.seq /\ tx[d].mem # call.mem
      BY <1>2, <1>6 DEF Staged
    <2>2. tx[d].at # "idle" => call.approval = "none" \/ call.approval # tx[d].approval
      BY <1>6 DEF Apart
    <2>. QED
      BY <1>1, <1>5, <2>1, <2>2 DEF Apart
  <1>11. \A d, e \in Clients \ {c} : d # e => Apart(d, e)'
    BY <1>5, <1>6 DEF Apart
  <1>12. TxInv'
    BY <1>5, <1>7, <1>9, <1>10, <1>11 DEF TxInv
  <1>13. RowInv'
    BY DEF GovInv, RowInv
  <1>. QED
    BY <1>2, <1>4, <1>12, <1>13, Stutter DEF GovInv

\* A call that ends without a trace: the log's visible events and the rows stay.
LEMMA Ends ==
    ASSUME GovInv, NEW c \in Clients, tx' = [tx EXCEPT ![c] = NoTx], row' = row,
           LogInv', Seqs' = Seqs, Visible' = Visible,
           \A s \in Visible : log'[s] = log[s],
           \A s \in Seqs : log'[s] = log[s] \/ (tx[c].at = "staged" /\ s = tx[c].seq)
    PROVE  GovInv' /\ UNCHANGED <<Life, Spent>>
  <1>1. NoTx \in Call /\ NoTx.at = "idle"
    BY DEF NoTx, Call
  <1>2. tx' \in [Clients -> Call] /\ tx'[c] = NoTx /\ \A d \in Clients \ {c} : tx'[d] = tx[d]
    BY <1>1 DEF GovInv, TxInv
  <1>3. Spent' = Spent /\ \A a : Unused(a)' <=> Unused(a)
    BY SameSpent
  <1>4. /\ \A d \in Clients : (tx[d].at # "idle" => Sound(d)) /\ (tx[d].at = "staged" => Staged(d))
        /\ \A d, e \in Clients : d # e => Apart(d, e)
    BY DEF GovInv, TxInv
  <1>5. \A d \in Clients \ {c} : tx[d].at = "staged" => log'[tx[d].seq] = log[tx[d].seq]
    BY <1>4 DEF Apart, Staged
  <1>6. \A d \in Clients \ {c} : (tx'[d].at # "idle" => Sound(d)') /\ (tx'[d].at = "staged" => Staged(d)')
    BY <1>2, <1>3, <1>4, <1>5 DEF Sound, Staged
  <1>7. \A d, e \in Clients : d # e => Apart(d, e)'
    BY <1>1, <1>2, <1>4 DEF Apart
  <1>8. TxInv'
    BY <1>1, <1>2, <1>6, <1>7 DEF TxInv
  <1>9. RowInv'
    BY DEF GovInv, RowInv
  <1>. QED
    BY <1>3, <1>8, <1>9, Stutter DEF GovInv

\* COMMIT: one statement's life moves, as the ledger allows.
LEMMA CommitIs ==
    ASSUME GovInv, NEW c \in Clients, Commit(c)
    PROVE  GovInv' /\ Ledger!LedgerNext
  <1>. DEFINE m == tx[c].mem
              r == Written(tx[c])
              s == tx[c].seq
  <1>1. /\ tx[c].at = "staged" /\ row' = [row EXCEPT ![m] = r]
        /\ log' = [log EXCEPT ![s].state = "visible"] /\ tx' = [tx EXCEPT ![c] = NoTx]
    BY DEF Commit
  <1>2. /\ \A d \in Clients : (tx[d].at # "idle" => Sound(d)) /\ (tx[d].at = "staged" => Staged(d))
        /\ \A d, e \in Clients : d # e => Apart(d, e)
    BY DEF GovInv, TxInv
  <1>3. /\ m \in Mems /\ s \in Seqs /\ log[s].approval = tx[c].approval /\ log[s].state = "open"
        /\ tx[c].op \in {"add", "invalidate", "forget"}
    <2>1. tx[c] \in Call /\ Sound(c) /\ Staged(c)
      BY <1>1, <1>2 DEF GovInv, TxInv
    <2>2. tx[c].op \in {"none", "add", "invalidate", "forget"}
      BY <2>1 DEF Call
    <2>. QED
      BY <2>1, <2>2 DEF Sound, Staged
  <1>4. row[m] \in Row
    BY <1>3 DEF GovInv, RowInv
  <1>5. /\ tx[c].op = "add" => /\ r = [text |-> "said", open |-> TRUE] /\ row[m].text = "none"
                               /\ tx[c].approval = "none"
        /\ tx[c].op = "invalidate" => /\ r = [row[m] EXCEPT !.open = FALSE] /\ row[m].open
                                      /\ tx[c].approval = "none"
        /\ tx[c].op = "forget" => /\ r = [text |-> "redacted", open |-> FALSE]
                                  /\ row[m].text = "said" /\ tx[c].approval \in Approvals
                                  /\ Unused(tx[c].approval)
    <2>1. Sound(c) /\ Staged(c)
      BY <1>1, <1>2
    <2>. QED
      BY <2>1 DEF Written, Sound, Staged
  <1>6. row[m].open => row[m].text = "said"
    BY <1>3 DEF GovInv, RowInv
  <1>7. r \in Row /\ (r.open => r.text = "said")
    <2>1. [text |-> "said", open |-> TRUE] \in Row /\ [text |-> "redacted", open |-> FALSE] \in Row
      BY DEF Row, Texts
    <2>2. CASE tx[c].op = "add"
      BY <1>5, <2>1, <2>2
    <2>3. CASE tx[c].op = "invalidate"
      BY <1>4, <1>5, <2>3 DEF Row
    <2>4. CASE tx[c].op = "forget"
      BY <1>5, <2>1, <2>4
    <2>. QED
      BY <1>3, <2>2, <2>3, <2>4
  <1>. HIDE DEF r, s, m
  <1>8. /\ RowInv' /\ Life' = [Life EXCEPT ![m] = LifeOf(r)]
        /\ \A n \in Mems \ {m} : row'[n] = row[n]
    BY <1>1, <1>3, <1>7, LifeMoves DEF GovInv
  <1>9. /\ LogInv' /\ Seqs' = Seqs /\ log'[s].approval = log[s].approval
        /\ \A t \in Seqs \ {s} : log'[t] = log[t]
        /\ Visible' = Visible \cup {s}
    BY <1>1, <1>3, SettleEffect DEF GovInv
  <1>10. s \notin Visible /\ Visible \subseteq Seqs
    BY <1>3 DEF Visible
  <1>11. Spent' = IF tx[c].approval = "none" THEN Spent ELSE Spent \cup {tx[c].approval}
    BY <1>3, <1>9, <1>10 DEF Spent
  <1>12. NoTx \in Call /\ NoTx.at = "idle"
    BY DEF NoTx, Call
  <1>13. tx' \in [Clients -> Call] /\ tx'[c] = NoTx /\ \A d \in Clients \ {c} : tx'[d] = tx[d]
    BY <1>1, <1>12 DEF GovInv, TxInv
  <1>14. ASSUME NEW d \in Clients \ {c}, tx[d].at # "idle"
         PROVE  Sound(d)'
    <2>1. Sound(d) /\ tx'[d] = tx[d]
      BY <1>2, <1>13, <1>14
    <2>2. tx[d].op = "forget" => Unused(tx[d].approval)'
      <3>. SUFFICES ASSUME tx[d].op = "forget" PROVE Unused(tx[d].approval)'
        OBVIOUS
      <3>1. tx[c].approval # tx[d].approval
        <4>1. tx[d].approval \in Approvals
          BY <2>1 DEF Sound
        <4>2. tx[d].approval # "none"
          BY <4>1, MemoryAssumption DEF MemoryAssumption
        <4>. QED
          BY <1>1, <1>2, <1>14, <4>2 DEF Apart
      <3>2. Unused(tx[d].approval)
        BY <2>1 DEF Sound
      <3>. QED
        BY <1>3, <1>9, <1>10, <2>1, <3>1, <3>2 DEF Unused
    <2>3. row[tx[d].mem].text # "none" => row'[tx[d].mem].text # "none"
      <3>1. r.text # "none"
        BY <1>3, <1>4, <1>5, <1>6 DEF Row
      <3>2. row'[m] = r
        BY <1>1, <1>3 DEF GovInv, RowInv
      <3>. QED
        BY <1>8, <2>1, <3>1, <3>2 DEF Sound
    <2>. QED
      BY <2>1, <2>2, <2>3 DEF Sound
  <1>15. ASSUME NEW d \in Clients \ {c}, tx[d].at = "staged"
         PROVE  Staged(d)'
    <2>1. Staged(d) /\ Sound(d) /\ tx'[d] = tx[d] /\ tx[d].mem # m /\ tx[d].seq # s
      BY <1>1, <1>2, <1>13, <1>15 DEF Apart, m, s
    <2>. QED
      BY <1>8, <1>9, <2>1 DEF Staged, Sound
  <1>16. \A d, e \in Clients : d # e => Apart(d, e)'
    BY <1>2, <1>12, <1>13 DEF Apart
  <1>17. TxInv'
    BY <1>12, <1>13, <1>14, <1>15, <1>16 DEF TxInv
  <1>18. Life[m] = LifeOf(row[m])
    BY <1>3 DEF Life
  <1>19. Ledger!LedgerNext
    <2>1. CASE tx[c].op = "add"
      <3>1. LifeOf(r) = "live" /\ Life[m] = "none" /\ Spent' = Spent
        <4>1. r = [text |-> "said", open |-> TRUE]
          BY <1>5, <2>1
        <4>2. LifeOf(r) = "live"
          BY <4>1 DEF LifeOf
        <4>3. Life[m] = "none" /\ Spent' = Spent
          <5>1. row[m].text = "none" /\ tx[c].approval = "none"
            BY <1>5, <2>1
          <5>2. LifeOf(row[m]) = "none"
            BY <1>6, <5>1 DEF LifeOf
          <5>. QED
            BY <1>11, <1>18, <5>1, <5>2
        <4>. QED
          BY <4>2, <4>3
      <3>. QED
        BY <1>3, <1>8, <3>1, RecordIs
    <2>2. CASE tx[c].op = "invalidate"
      <3>1. LifeOf(r) = "closed" /\ Life[m] = "live" /\ Spent' = Spent
        BY <1>4, <1>5, <1>6, <1>11, <1>18, <2>2 DEF LifeOf, Row
      <3>. QED
        BY <1>3, <1>8, <3>1, CloseIs
    <2>3. CASE tx[c].op = "forget"
      <3>1. LifeOf(r) = "forgotten" /\ Life[m] \in {"live", "closed"}
        BY <1>5, <1>18, <2>3 DEF LifeOf
      <3>2. tx[c].approval \in Approvals /\ tx[c].approval # "none"
        BY <1>5, <2>3, MemoryAssumption DEF MemoryAssumption
      <3>3. tx[c].approval \notin Spent
        BY <1>5, <2>3 DEF Spent, Unused
      <3>. QED
        BY <1>3, <1>8, <1>11, <3>1, <3>2, <3>3, ForgetIs
    <2>. QED
      BY <1>3, <2>1, <2>2, <2>3
  <1>. QED
    BY <1>8, <1>9, <1>17, <1>19 DEF GovInv

\* A row closed outside governance: its life moves as by an invalidation.
LEMMA CloseUnloggedIs ==
    ASSUME GovInv, NEW m \in Mems, CloseUnlogged(m)
    PROVE  GovInv' /\ Ledger!LedgerNext
  <1>. DEFINE r == [row[m] EXCEPT !.open = FALSE]
  <1>1. row[m].open /\ Unlocked(m) /\ row' = [row EXCEPT ![m] = r] /\ UNCHANGED <<approval, log, tx>>
    BY DEF CloseUnlogged
  <1>2. row[m] \in Row /\ row[m].text = "said"
    BY <1>1 DEF GovInv, RowInv
  <1>3. r \in Row /\ r.text = "said" /\ ~r.open
    BY <1>2 DEF Row
  <1>. HIDE DEF r
  <1>4. /\ RowInv' /\ Life' = [Life EXCEPT ![m] = LifeOf(r)] /\ row'[m] = r
        /\ \A n \in Mems \ {m} : row'[n] = row[n]
    BY <1>1, <1>3, LifeMoves DEF GovInv
  <1>5. LifeOf(r) = "closed" /\ Life[m] = "live"
    BY <1>1, <1>2, <1>3 DEF Life, LifeOf
  <1>6. Seqs' = Seqs /\ Visible' = Visible /\ LogInv'
    BY <1>1 DEF Seqs, Visible, GovInv, LogInv
  <1>7. Spent' = Spent /\ \A a : Unused(a)' <=> Unused(a)
    BY <1>1, <1>6, SameSpent
  <1>8. \A c \in Clients : tx[c].at = "staged" => tx[c].mem # m
    BY <1>1 DEF Unlocked, HeldByClient
  <1>9. \A c \in Clients : (tx[c].at # "idle" => Sound(c)) /\ (tx[c].at = "staged" => Staged(c))
    BY DEF GovInv, TxInv
  <1>10. \A c \in Clients : tx[c].at # "idle" => Sound(c)'
    BY <1>1, <1>2, <1>3, <1>4, <1>7, <1>9 DEF Sound
  <1>11. \A c \in Clients : tx[c].at = "staged" => Staged(c)'
    BY <1>1, <1>4, <1>6, <1>8, <1>9 DEF Staged, Sound
  <1>12. TxInv'
    BY <1>1, <1>10, <1>11 DEF GovInv, TxInv, Apart
  <1>. QED
    BY <1>4, <1>5, <1>6, <1>7, <1>12, CloseIs DEF GovInv

\* What is not governance leaves the rows, the log and the transactions alone.
LEMMA ReadSideOnly ==
    ASSUME [MemoryNext]_vars, ~Governance
    PROVE  UNCHANGED <<row, log, tx>>
  <1>1. ASSUME NEW w \in Workers, WorkerStep(w) PROVE UNCHANGED <<row, log, tx>>
    BY <1>1 DEF WorkerStep, Read, Fetch, Write, CommitProjection, ApplyOp, ReleaseCheck,
                ReleaseDelete, govVars
  <1>2. ASSUME NEW w \in Workers, Acquire(w) \/ Fail(w) \/ Crash(w) PROVE UNCHANGED <<row, log, tx>>
    BY <1>2 DEF Acquire, Fail, Crash, Falls, govVars
  <1>3. ASSUME LockExpires PROVE UNCHANGED <<row, log, tx>>
    BY <1>3 DEF LockExpires, govVars
  <1>4. ASSUME NEW m \in Mems, StoreBackground(m) PROVE UNCHANGED <<row, log, tx>>
    BY <1>4 DEF StoreBackground, govVars
  <1>5. ASSUME Restart PROVE UNCHANGED <<row, log, tx>>
    BY <1>5 DEF Restart, govVars
  <1>6. ASSUME UNCHANGED vars PROVE UNCHANGED <<row, log, tx>>
    BY <1>6 DEF vars, govVars
  <1>. QED
    BY <1>1, <1>2, <1>3, <1>4, <1>5, <1>6 DEF MemoryNext

\* Every step is a step of the ledger or leaves it alone.
LEMMA NextGov ==
    ASSUME GovInv, [MemoryNext]_vars
    PROVE  GovInv' /\ (Ledger!LedgerNext \/ UNCHANGED <<Life, Spent>>)
  <1>0. ASSUME UNCHANGED <<row, log, tx>> PROVE GovInv' /\ UNCHANGED <<Life, Spent>>
    <2>1. Seqs' = Seqs /\ Visible' = Visible /\ RowInv' /\ LogInv'
      BY <1>0 DEF Seqs, Visible, GovInv, RowInv, LogInv
    <2>2. Spent' = Spent /\ \A a : Unused(a)' <=> Unused(a)
      BY <1>0, <2>1, SameSpent
    <2>3. TxInv'
      BY <1>0, <2>1, <2>2 DEF GovInv, TxInv, Sound, Staged, Apart
    <2>. QED
      BY <1>0, <2>1, <2>2, <2>3, Stutter DEF GovInv
  <1>1. ASSUME NEW c \in Clients, NEW m \in Mems, Add(c, m)
        PROVE  GovInv' /\ UNCHANGED <<Life, Spent>>
    <2>. DEFINE call == [op |-> "add", at |-> "staged", mem |-> m, approval |-> "none",
                         seq |-> Len(log')]
    <2>1. /\ tx[c].at = "idle" /\ row[m].text = "none" /\ \A d \in Clients : tx[d].mem # m
          /\ Stage("stored", m, "none") /\ tx' = [tx EXCEPT ![c] = call]
          /\ UNCHANGED <<row, approval>>
      BY <1>1 DEF Add
    <2>2. Len(log') \in Nat
      BY <2>1, StageEffect DEF GovInv
    <2>3. /\ call \in Call /\ call.mem = m /\ call.at = "staged" /\ call.seq = Len(log')
          /\ call.op = "add" /\ call.approval = "none"
      BY <2>2 DEF Call
    <2>. HIDE DEF call
    <2>. QED
      BY <2>1, <2>3, Stages
  <1>2. ASSUME NEW c \in Clients, NEW m \in Mems, Invalidate(c, m)
        PROVE  GovInv' /\ UNCHANGED <<Life, Spent>>
    <2>. DEFINE call == [op |-> "invalidate", at |-> "staged", mem |-> m, approval |-> "none",
                         seq |-> Len(log')]
    <2>1. /\ tx[c].at = "idle" /\ row[m].open
          /\ \A d \in Clients : tx[d].at = "staged" => tx[d].mem # m
          /\ Stage("invalidated", m, "none") /\ tx' = [tx EXCEPT ![c] = call]
          /\ UNCHANGED <<row, approval>>
      BY <1>2 DEF Invalidate, Unlocked, HeldByClient
    <2>2. Len(log') \in Nat
      BY <2>1, StageEffect DEF GovInv
    <2>3. /\ call \in Call /\ call.mem = m /\ call.at = "staged" /\ call.seq = Len(log')
          /\ call.op = "invalidate" /\ call.approval = "none"
      BY <2>2 DEF Call
    <2>. HIDE DEF call
    <2>. QED
      BY <2>1, <2>3, Stages
  <1>3. ASSUME NEW c \in Clients, NEW m \in Mems, NEW a \in Approvals, ForgetGates(c, m, a)
        PROVE  GovInv' /\ UNCHANGED <<Life, Spent>>
    <2>. DEFINE call == [op |-> "forget", at |-> "gated", mem |-> m, approval |-> a, seq |-> 0]
    <2>1. /\ tx[c].at = "idle" /\ Unused(a) /\ row[m].text # "none"
          /\ \A d \in Clients : tx[d].approval # a
          /\ tx' = [tx EXCEPT ![c] = call] /\ UNCHANGED <<row, log>>
      BY <1>3 DEF ForgetGates, AdvisoryFree
    <2>2. /\ call \in Call /\ call.mem = m /\ call.at = "gated" /\ call.approval = a
          /\ call.op = "forget"
      BY DEF Call
    <2>. HIDE DEF call
    <2>3. tx' \in [Clients -> Call] /\ tx'[c] = call /\ \A d \in Clients \ {c} : tx'[d] = tx[d]
      BY <2>1, <2>2 DEF GovInv, TxInv
    <2>4. Seqs' = Seqs /\ Visible' = Visible /\ RowInv' /\ LogInv'
      BY <2>1 DEF Seqs, Visible, GovInv, RowInv, LogInv
    <2>5. Spent' = Spent /\ \A b : Unused(b)' <=> Unused(b)
      BY <2>1, <2>4, SameSpent
    <2>6. /\ \A d \in Clients : (tx[d].at # "idle" => Sound(d)) /\ (tx[d].at = "staged" => Staged(d))
          /\ \A d, e \in Clients : d # e => Apart(d, e)
      BY DEF GovInv, TxInv
    <2>7. Sound(c)'
      BY <2>1, <2>2, <2>3, <2>5 DEF Sound
    <2>8. \A d \in Clients \ {c} : /\ tx'[d].at # "idle" => Sound(d)'
                                   /\ tx'[d].at = "staged" => Staged(d)'
      BY <2>1, <2>3, <2>4, <2>5, <2>6 DEF Sound, Staged
    <2>9. \A d, e \in Clients : d # e => Apart(d, e)'
      BY <2>1, <2>2, <2>3, <2>6 DEF Apart
    <2>10. TxInv'
      BY <2>2, <2>3, <2>7, <2>8, <2>9 DEF TxInv
    <2>. QED
      BY <2>1, <2>4, <2>5, <2>10, Stutter DEF GovInv
  <1>4. ASSUME NEW c \in Clients, ForgetRedact(c)
        PROVE  GovInv' /\ UNCHANGED <<Life, Spent>>
    <2>0. tx[c] \in Call /\ tx[c].at = "gated" /\ Sound(c) /\ tx[c].op = "forget"
      BY <1>4 DEF ForgetRedact, GovInv, TxInv, Sound
    <2>1. CASE row[tx[c].mem].text = "redacted"
      <3>1. tx' = [tx EXCEPT ![c] = NoTx] /\ UNCHANGED <<row, log>>
        BY <1>4, <2>1 DEF ForgetRedact
      <3>2. Seqs' = Seqs /\ Visible' = Visible /\ LogInv'
        BY <3>1 DEF Seqs, Visible, GovInv, LogInv
      <3>. QED
        BY <3>1, <3>2, Ends
    <2>2. CASE row[tx[c].mem].text # "redacted"
      <3>. DEFINE call == [tx[c] EXCEPT !.at = "staged", !.seq = Len(log')]
      <3>1. /\ Stage("invalidated", tx[c].mem, tx[c].approval) /\ tx' = [tx EXCEPT ![c] = call]
            /\ UNCHANGED <<row, approval>>
            /\ \A d \in Clients : tx[d].at = "staged" => tx[d].mem # tx[c].mem
        BY <1>4, <2>2 DEF ForgetRedact, Unlocked, HeldByClient
      <3>2. tx[c].mem \in Mems /\ tx[c].approval \in Approvals \cup {"none"}
        BY <2>0 DEF Sound
      <3>3. Len(log') \in Nat
        BY <3>1, <3>2, StageEffect DEF GovInv
      <3>4. /\ call \in Call /\ call.mem = tx[c].mem /\ call.at = "staged" /\ call.seq = Len(log')
            /\ call.op = "forget" /\ call.approval = tx[c].approval
        BY <2>0, <3>3 DEF Call
      <3>. HIDE DEF call
      <3>. QED
        BY ZenonT(60), <2>0, <2>2, <3>1, <3>2, <3>4, Stages
    <2>. QED
      BY <2>1, <2>2
  <1>5. ASSUME NEW c \in Clients, Abort(c)
        PROVE  GovInv' /\ UNCHANGED <<Life, Spent>>
    <2>1. tx' = [tx EXCEPT ![c] = NoTx] /\ row' = row
      BY <1>5 DEF Abort
    <2>2. CASE tx[c].at = "staged"
      <3>1. log' = [log EXCEPT ![tx[c].seq].state = "aborted"]
        BY <1>5, <2>2 DEF Abort
      <3>2. tx[c].seq \in Seqs /\ log[tx[c].seq].state = "open"
        BY <2>2 DEF GovInv, TxInv, Staged
      <3>3. /\ LogInv' /\ Seqs' = Seqs
            /\ \A t \in Seqs \ {tx[c].seq} : log'[t] = log[t]
            /\ Visible' = Visible \ {tx[c].seq}
        BY <3>1, <3>2, SettleEffect DEF GovInv
      <3>4. Visible \subseteq Seqs /\ tx[c].seq \notin Visible
        BY <3>2 DEF Visible
      <3>. QED
        BY <2>1, <2>2, <3>3, <3>4, Ends
    <2>3. CASE tx[c].at # "staged"
      <3>1. log' = log
        BY <1>5, <2>3 DEF Abort
      <3>2. Seqs' = Seqs /\ Visible' = Visible /\ LogInv'
        BY <3>1 DEF Seqs, Visible, GovInv, LogInv
      <3>. QED
        BY <2>1, <3>1, <3>2, Ends
    <2>. QED
      BY <2>2, <2>3
  <1>6. CASE Governance
    <2>1. ASSUME NEW a \in Approvals, ApprovalExpires(a) PROVE UNCHANGED <<row, log, tx>>
      BY <2>1 DEF ApprovalExpires
    <2>. QED
      BY <1>0, <1>1, <1>2, <1>3, <1>4, <1>5, <1>6, <2>1, CommitIs, CloseUnloggedIs DEF Governance
  <1>7. CASE ~Governance
    BY <1>0, <1>7, ReadSideOnly
  <1>. QED
    BY <1>6, <1>7

\* Governance keeps the ledger's promises with transactions, row locks, one
\* advisory lock and a look at the event log: a statement is recorded once, never
\* comes back from a closing or a forget, and every hard forget spends an approval
\* of its own, whatever calls overlap, abort or find the process dead.
THEOREM GovernanceImplements == MemorySpec => LedgerHolds
  <1>1. GovInv /\ [MemoryNext]_vars => GovInv' /\ [Ledger!LedgerNext]_<<Life, Spent>>
    BY NextGov
  <1>. QED
    BY <1>1, InitGov, PTL DEF MemorySpec, LedgerHolds, Ledger!LedgerSpec, Life, LifeOf, Spent

-------------------------------------------------------------------------------
(* The least and the greatest of the sequence numbers in hand.              *)

LEMMA LeastIs ==
    ASSUME NEW S, S \subseteq Nat, S # {}
    PROVE  Min(S) \in S /\ \A y \in S : Min(S) =< y
  <1>. DEFINE R == OpToRel(<, Nat)
  <1>1. \A a, b \in Nat : a < b => <<a, b>> \in R
    BY DEF OpToRel
  <1>2. IsWellFoundedOn(R, Nat)
    BY NatLessThanWellFounded
  <1>. HIDE DEF R
  <1>3. PICK m \in S : \A y \in S : ~(<<y, m>> \in R)
    BY <1>2, WFMin
  <1>4. \A y \in S : m =< y
    <2>. SUFFICES ASSUME NEW y \in S PROVE m =< y
      OBVIOUS
    <2>1. m \in Nat /\ y \in Nat /\ ~(y < m)
      BY <1>1, <1>3
    <2>. QED
      BY <2>1
  <1>. QED
    BY <1>4 DEF Min

LEMMA GreatestIs ==
    ASSUME NEW n \in Nat, NEW S, S \subseteq 0..n, S # {}
    PROVE  Max(S) \in S /\ \A y \in S : y <= Max(S)
  <1>. DEFINE T == {k \in Nat : \E s \in S : k = n - s}
  <1>1. T \subseteq Nat /\ T # {}
    <2>1. PICK s \in S : TRUE
      OBVIOUS
    <2>2. n - s \in Nat
      BY <2>1
    <2>. QED
      BY <2>2
  <1>2. PICK k \in T : \A j \in T : k =< j
    BY <1>1, LeastIs
  <1>3. PICK s \in S : k = n - s
    OBVIOUS
  <1>4. \A y \in S : s >= y
    <2>. SUFFICES ASSUME NEW y \in S PROVE s >= y
      OBVIOUS
    <2>1. s \in Nat /\ y \in Nat /\ n - y \in T
      OBVIOUS
    <2>. HIDE DEF T
    <2>2. k =< n - y
      BY <1>2, <2>1
    <2>. QED
      BY <1>3, <2>1, <2>2
  <1>5. Max(S) \in S /\ \A y \in S : Max(S) >= y
    BY <1>4 DEF Max
  <1>. QED
    BY <1>5

-------------------------------------------------------------------------------
(* The projection reads a log that only grows.                              *)

\* Aborted events never count.
Live == {s \in Seqs : log[s].state # "aborted"}
UpTo(S) == {s \in Live : \E t \in S : s <= t}

\* One step of anybody: new events are open and last, settled ones stay.
Grows ==
    /\ Len(log) \in Nat /\ Seqs = 1..Len(log) /\ Seqs \subseteq Seqs' /\ Len(log) <= Len(log')
    /\ Len(log') \in Nat /\ Seqs' = 1..Len(log')
    /\ \A s \in Seqs : /\ log'[s].mem = log[s].mem /\ log'[s].kind = log[s].kind
                       /\ log'[s].approval = log[s].approval
                       /\ log[s].state # "open" => log'[s].state = log[s].state
    /\ \A s \in Seqs' \ Seqs : s > Len(log) /\ log'[s].state = "open"

LEMMA SameGrows == ASSUME LogInv, log' = log PROVE Grows
  BY DEF LogInv, Grows, Seqs

LEMMA StageGrows ==
    ASSUME LogInv, NEW kind \in {"stored", "invalidated"}, NEW m \in Mems,
           NEW a \in Approvals \cup {"none"}, Stage(kind, m, a)
    PROVE  /\ Grows /\ Visible' = Visible /\ Seqs' = Seqs \cup {Len(log')}
           /\ \A s \in Seqs : log'[s] = log[s]
           /\ log'[Len(log')] = [kind |-> kind, mem |-> m, approval |-> a, state |-> "open"]
           /\ Len(log') \notin Seqs
  <1>. DEFINE e == [kind |-> kind, mem |-> m, approval |-> a, state |-> "open"]
  <1>1. e \in Event /\ e.state = "open"
    BY DEF Event
  <1>2. log' = Append(log, e)
    BY DEF Stage
  <1>. HIDE DEF e
  <1>3. /\ log' \in Seq(Event) /\ Len(log) \in Nat /\ Len(log') = Len(log) + 1
        /\ log'[Len(log) + 1] = e /\ \A s \in 1..Len(log) : log'[s] = log[s]
    BY <1>1, <1>2 DEF LogInv
  <1>4. Seqs = 1..Len(log) /\ Seqs' = 1..(Len(log) + 1)
    BY <1>3 DEF Seqs
  <1>5. \A s \in Seqs' \ Seqs : s > Len(log) /\ log'[s].state = "open"
    BY <1>1, <1>3, <1>4
  <1>6. Grows
    BY <1>3, <1>4, <1>5 DEF Grows
  <1>. QED
    BY <1>3, <1>4, <1>6, StageEffect DEF e

LEMMA SettleGrows ==
    ASSUME LogInv, NEW s \in Seqs, NEW state \in {"visible", "aborted"}, log[s].state = "open",
           log' = [log EXCEPT ![s].state = state]
    PROVE  /\ Grows /\ Seqs' = Seqs
           /\ Visible' = IF state = "visible" THEN Visible \cup {s} ELSE Visible
  <1>. DEFINE e == [log[s] EXCEPT !.state = state]
  <1>1. Len(log) \in Nat /\ log \in [1..Len(log) -> Event] /\ Seqs = 1..Len(log)
    BY DEF LogInv, Seqs
  <1>2. log[s] \in Event
    BY <1>1
  <1>3. /\ e \in Event /\ e.state = state /\ e.approval = log[s].approval
        /\ e.mem = log[s].mem /\ e.kind = log[s].kind
    BY <1>2 DEF Event
  <1>4. log' = [log EXCEPT ![s] = e]
    OBVIOUS
  <1>. HIDE DEF e
  <1>5. log' \in [1..Len(log) -> Event] /\ log'[s] = e /\ \A t \in Seqs \ {s} : log'[t] = log[t]
    BY <1>1, <1>3, <1>4
  <1>6. Len(log') = Len(log)
    BY <1>1, <1>5
  <1>7. Seqs' = Seqs
    BY <1>6 DEF Seqs
  <1>8. Visible' = IF state = "visible" THEN Visible \cup {s} ELSE Visible \ {s}
    BY SettleEffect
  <1>9. s \notin Visible
    BY DEF Visible
  <1>10. \A t \in Seqs : /\ log'[t].mem = log[t].mem /\ log'[t].kind = log[t].kind
                         /\ log'[t].approval = log[t].approval
                         /\ log[t].state # "open" => log'[t].state = log[t].state
    BY <1>3, <1>5
  <1>11. Grows
    BY <1>1, <1>6, <1>7, <1>10 DEF Grows
  <1>. QED
    BY <1>7, <1>8, <1>9, <1>11

\* What has been passed stays passed.
LEMMA GrowsKeeps ==
    ASSUME Grows
    PROVE  /\ Visible \subseteq Visible'
           /\ \A S : S \subseteq 0..Len(log) => UpTo(S)' \subseteq UpTo(S)
  <1>1. Visible \subseteq Visible'
    BY DEF Grows, Visible
  <1>2. ASSUME NEW S, S \subseteq 0..Len(log), NEW s \in UpTo(S)'
        PROVE  s \in UpTo(S)
    <2>1. PICK t \in S : s <= t
      BY <1>2 DEF UpTo
    <2>2. s \in Seqs' /\ log'[s].state # "aborted"
      BY <1>2 DEF UpTo, Live
    <2>3. s \in Seqs
      BY <1>2, <2>1, <2>2 DEF Grows
    <2>4. log[s].state # "aborted"
      BY <2>2, <2>3 DEF Grows
    <2>. QED
      BY <2>1, <2>3, <2>4 DEF UpTo, Live
  <1>. QED
    BY <1>1, <1>2

\* Every step of the system only lets the log grow.
LEMMA NextGrows ==
    ASSUME GovInv, [MemoryNext]_vars
    PROVE  Grows
  <1>0. ASSUME UNCHANGED log PROVE Grows
    BY <1>0, SameGrows DEF GovInv
  <1>1. ASSUME NEW c \in Clients, NEW m \in Mems, Add(c, m) \/ Invalidate(c, m) PROVE Grows
    BY <1>1, StageGrows DEF GovInv, Add, Invalidate
  <1>2. ASSUME NEW c \in Clients, NEW m \in Mems, NEW a \in Approvals, ForgetGates(c, m, a)
        PROVE Grows
    BY <1>0, <1>2 DEF ForgetGates
  <1>3. ASSUME NEW c \in Clients, ForgetRedact(c) PROVE Grows
    <2>1. tx[c].mem \in Mems /\ tx[c].approval \in Approvals \cup {"none"}
      BY <1>3 DEF GovInv, TxInv, Sound, ForgetRedact, Call
    <2>. QED
      BY <1>0, <1>3, <2>1, StageGrows DEF GovInv, ForgetRedact
  <1>4. ASSUME NEW c \in Clients, Commit(c) PROVE Grows
    <2>1. tx[c].seq \in Seqs /\ log[tx[c].seq].state = "open"
      BY <1>4 DEF GovInv, TxInv, Staged, Commit
    <2>. QED
      BY <1>4, <2>1, SettleGrows DEF GovInv, Commit
  <1>5. ASSUME NEW c \in Clients, Abort(c) PROVE Grows
    <2>1. tx[c].at = "staged" => tx[c].seq \in Seqs /\ log[tx[c].seq].state = "open"
      BY DEF GovInv, TxInv, Staged
    <2>2. CASE tx[c].at = "staged"
      <3>1. log' = [log EXCEPT ![tx[c].seq].state = "aborted"]
        BY <1>5, <2>2 DEF Abort
      <3>. QED
        BY <2>1, <2>2, <3>1, SettleGrows DEF GovInv
    <2>3. CASE tx[c].at # "staged"
      BY <1>0, <1>5, <2>3 DEF Abort
    <2>. QED
      BY <2>2, <2>3
  <1>6. ASSUME NEW a \in Approvals, ApprovalExpires(a) PROVE Grows
    BY <1>0, <1>6 DEF ApprovalExpires
  <1>7. ASSUME NEW m \in Mems, CloseUnlogged(m) \/ StoreBackground(m) PROVE Grows
    BY <1>0, <1>7 DEF CloseUnlogged, StoreBackground, govVars
  <1>8. ASSUME NEW w \in Workers, Acquire(w) \/ WorkerStep(w) \/ Fail(w) \/ Crash(w) PROVE Grows
    BY <1>0, <1>8 DEF Acquire, WorkerStep, Read, Fetch, Write, CommitProjection, ApplyOp,
                      ReleaseCheck, ReleaseDelete, Fail, Crash, Falls, govVars
  <1>9. ASSUME LockExpires \/ Restart \/ UNCHANGED vars PROVE Grows
    BY <1>0, <1>9 DEF LockExpires, Restart, vars, govVars
  <1>. QED
    BY <1>1, <1>2, <1>3, <1>4, <1>5, <1>6, <1>7, <1>8, <1>9 DEF MemoryNext, Governance

-------------------------------------------------------------------------------
\* The locals of a project_scope call.
Places == {"idle", "read", "fetch", "write", "commit", "apply", "release", "failed"}
Ops == {"flush", "hset", "hdel"} \X (Mems \cup {"none"})
Locals == [at : Places, replay : BOOLEAN, todo : SUBSET Nat, done : SUBSET Nat,
           blind : SUBSET Nat, got : Row, vec : [Mems -> {"keep", "null", "said"}],
           ops : Seq(Ops)]

\* The events of a call's pass, whether it holds the watermark's row lock, and
\* all that it has dealt with or knowingly read past.
Found(w) == worker[w].done \cup worker[w].todo
Projecting(w) == worker[w].at \in {"fetch", "write", "commit"}
Replaying(w) == Projecting(w) /\ worker[w].replay
HoldsMark(w) == Projecting(w) /\ (worker[w].done # {} \/ worker[w].replay)
Passed(w) == late \cup Found(w) \cup worker[w].blind

Batch(w) ==
    /\ Found(w) \subseteq Visible
    /\ worker[w].at \in {"fetch", "write"} => worker[w].todo # {}
    /\ worker[w].at = "commit" => worker[w].todo = {}
    /\ worker[w].at = "read" => worker[w].done = {}
ReadInv ==
    /\ worker \in [Workers -> Locals]
    /\ mark \in 0..Len(log) /\ covered \subseteq Visible
    /\ \A w \in Workers : Batch(w)
    /\ \A v, w \in Workers : v # w => ~(HoldsMark(v) /\ HoldsMark(w))

\* Up to the watermark, up to the end of any pass, and with a replay in progress
\* for what the replay alone will vouch for, nothing has been skipped.
MarkPassed == UpTo({mark}) \subseteq covered \cup late
BatchPassed(w) ==
    Projecting(w) => UpTo(Found(w)) \subseteq Passed(w) \cup (IF worker[w].replay THEN {} ELSE covered)
ReplayPassed(r) ==
    Replaying(r) =>
        /\ UpTo({mark}) \subseteq late \cup Found(r)
        /\ \A w \in Workers : Projecting(w) /\ ~worker[w].replay =>
                                UpTo(Found(w)) \subseteq Passed(w) \cup Found(r)
PassInv == MarkPassed /\ \A w \in Workers : BatchPassed(w) /\ ReplayPassed(w)

\* A step of one call.
LEMMA WorkerIs ==
    ASSUME ReadInv, NEW w \in Workers, NEW l \in Locals, worker' = [worker EXCEPT ![w] = l]
    PROVE  /\ worker' \in [Workers -> Locals] /\ worker'[w] = l
           /\ \A v \in Workers \ {w} : worker'[v] = worker[v]
  BY DEF ReadInv

\* The locals of a call that has found nothing yet.
LEMMA RestingIs ==
    /\ Resting \in Locals /\ Resting.done = {} /\ Resting.todo = {}
    /\ \A at \in Places, again \in BOOLEAN :
            LET l == [Resting EXCEPT !.at = at, !.replay = again] IN
            l \in Locals /\ l.at = at /\ l.replay = again /\ l.done = {} /\ l.todo = {}
    /\ \A at \in Places :
            LET r == [Resting EXCEPT !.at = at] IN
            r \in Locals /\ r.at = at /\ r.done = {} /\ r.todo = {}
  <1>1. <<>> \in Seq(Ops) /\ [text |-> "none", open |-> FALSE] \in Row
        /\ [m \in Mems |-> "keep"] \in [Mems -> {"keep", "null", "said"}] /\ "idle" \in Places
    BY DEF Row, Texts, Places
  <1>2. Resting \in Locals
    BY <1>1 DEF Resting, Locals
  <1>3. Resting.done = {} /\ Resting.todo = {}
    BY DEF Resting
  <1>. QED
    BY <1>2, <1>3 DEF Locals

LEMMA InitRead == MemoryInit => ReadInv /\ PassInv
  <1>. SUFFICES ASSUME MemoryInit PROVE ReadInv /\ PassInv
    OBVIOUS
  <1>1. \A w \in Workers : worker[w] = Resting
    BY DEF MemoryInit
  <1>2. Resting.at = "idle"
    BY DEF Resting
  <1>3. LogInv /\ Len(log) \in Nat
    BY InitGov DEF GovInv, LogInv
  <1>4. Seqs = 1..Len(log) /\ Visible = Seqs
    <2>1. Cardinality(Recorded) \in Nat
      BY RecordedListed
    <2>2. Len(log) = Cardinality(Recorded) /\ \A i \in 1..Cardinality(Recorded) : log[i].state = "visible"
      BY <2>1 DEF MemoryInit
    <2>. QED
      BY <2>2 DEF Seqs, Visible
  <1>5. mark = Len(log) /\ covered = 1..Len(log)
    BY DEF MemoryInit
  <1>6. \A w \in Workers : ~Projecting(w) /\ Found(w) = {} /\ worker[w].at = "idle"
    BY <1>1, <1>2, RestingIs DEF Projecting, Found
  <1>7. worker \in [Workers -> Locals]
    BY RestingIs DEF MemoryInit
  <1>8. \A w \in Workers : Batch(w)
    BY <1>6 DEF Batch
  <1>9. ReadInv
    BY <1>3, <1>4, <1>5, <1>6, <1>7, <1>8 DEF ReadInv, HoldsMark
  <1>10. UpTo({mark}) \subseteq covered \cup late
    BY <1>4, <1>5 DEF UpTo, Live
  <1>. QED
    BY <1>6, <1>9, <1>10 DEF PassInv, MarkPassed, BatchPassed, ReplayPassed, Replaying

\* Whoever else acts, a pass in progress stays accounted for.
LEMMA GrowsPass ==
    ASSUME ReadInv, PassInv, Grows, UNCHANGED <<worker, mark, covered, late>>
    PROVE  ReadInv' /\ PassInv'
  <1>1. /\ Visible \subseteq Visible'
        /\ \A S : S \subseteq 0..Len(log) => UpTo(S)' \subseteq UpTo(S)
    BY GrowsKeeps
  <1>2. Visible \subseteq 0..Len(log)
    BY DEF Visible, Grows
  <1>3. mark \in 0..Len(log)' /\ {mark} \subseteq 0..Len(log)
    BY DEF ReadInv, Grows
  <1>4. \A w \in Workers : Found(w) \subseteq 0..Len(log) /\ Found(w)' = Found(w)
    BY <1>2 DEF ReadInv, Batch, Found
  <1>5. \A w \in Workers : UpTo(Found(w))' \subseteq UpTo(Found(w))
    BY <1>1, <1>4 DEF UpTo
  <1>6. UpTo({mark})' \subseteq UpTo({mark})
    BY <1>1, <1>3 DEF UpTo
  <1>7. ReadInv'
    BY <1>1, <1>3, <1>4 DEF ReadInv, Batch, HoldsMark, Projecting
  <1>8. \A w \in Workers : (Projecting(w)' <=> Projecting(w)) /\ Passed(w)' = Passed(w)
    BY <1>4 DEF Projecting, Passed
  <1>9. PassInv'
    BY <1>4, <1>5, <1>6, <1>8 DEF PassInv, MarkPassed, BatchPassed, ReplayPassed, Replaying
  <1>. QED
    BY <1>7, <1>9

\* A log that does not move.
LEMMA SameLog ==
    ASSUME log' = log
    PROVE  Seqs' = Seqs /\ Visible' = Visible /\ \A S : UpTo(S)' = UpTo(S)
  BY DEF Seqs, Visible, UpTo, Live

\* A call that gives up, or whose pass is over, leaves the others as they were.
LEMMA Rests ==
    ASSUME ReadInv, PassInv, UNCHANGED <<log, mark, covered, late>>, NEW w \in Workers,
           NEW l \in Locals, worker' = [worker EXCEPT ![w] = l],
           l.at \notin {"fetch", "write", "commit"}, l.done \subseteq Visible,
           l.todo \subseteq Visible, l.at = "read" => l.done = {}
    PROVE  ReadInv' /\ PassInv'
  <1>1. /\ worker' \in [Workers -> Locals] /\ worker'[w] = l
        /\ \A v \in Workers \ {w} : worker'[v] = worker[v]
    BY WorkerIs
  <1>2. Seqs' = Seqs /\ Visible' = Visible /\ \A S : UpTo(S)' = UpTo(S)
    BY SameLog
  <1>3. ~Projecting(w)' /\ \A v \in Workers \ {w} : /\ Projecting(v)' <=> Projecting(v)
                                                    /\ Found(v)' = Found(v) /\ Passed(v)' = Passed(v)
    BY <1>1 DEF Projecting, Found, Passed
  <1>4. Batch(w)'
    BY <1>1, <1>2 DEF Batch, Found
  <1>5. \A v \in Workers \ {w} : Batch(v)'
    BY <1>1, <1>2, <1>3 DEF Batch, ReadInv
  <1>6. ReadInv'
    BY <1>1, <1>2, <1>3, <1>4, <1>5 DEF ReadInv, HoldsMark
  <1>7. MarkPassed'
    BY <1>2 DEF PassInv, MarkPassed
  <1>8. BatchPassed(w)' /\ ReplayPassed(w)'
    BY <1>3 DEF BatchPassed, ReplayPassed, Replaying
  <1>9. ASSUME NEW v \in Workers \ {w} PROVE BatchPassed(v)' /\ ReplayPassed(v)'
    <2>1. BatchPassed(v) /\ ReplayPassed(v)
      BY DEF PassInv
    <2>2. UpTo(Found(v))' = UpTo(Found(v)) /\ \A u \in Workers \ {w} : UpTo(Found(u))' = UpTo(Found(u))
      BY <1>2, <1>3 DEF UpTo
    <2>3. BatchPassed(v)'
      BY <1>1, <1>3, <2>1, <2>2 DEF BatchPassed
    <2>4. UpTo({mark})' = UpTo({mark})
      BY <1>2 DEF UpTo
    <2>5. ReplayPassed(v)'
      BY <1>1, <1>3, <2>1, <2>2, <2>4 DEF ReplayPassed, Replaying
    <2>. QED
      BY <2>3, <2>5
  <1>. QED
    BY <1>6, <1>7, <1>8, <1>9 DEF PassInv

\* A call in its pass moves on in it: what it found and read past is the same.
LEMMA MovesOn ==
    ASSUME ReadInv, PassInv, UNCHANGED <<log, mark, covered, late>>, NEW w \in Workers,
           NEW l \in Locals, worker' = [worker EXCEPT ![w] = l],
           Projecting(w), l.at \in {"fetch", "write", "commit"},
           l.done \cup l.todo = Found(w), l.blind = worker[w].blind, l.replay = worker[w].replay,
           l.at \in {"fetch", "write"} => l.todo # {}, l.at = "commit" => l.todo = {},
           l.done # worker[w].done => \A v \in Workers \ {w} : ~HoldsMark(v)
    PROVE  ReadInv' /\ PassInv'
  <1>1. /\ worker' \in [Workers -> Locals] /\ worker'[w] = l
        /\ \A v \in Workers \ {w} : worker'[v] = worker[v]
    BY WorkerIs
  <1>2. Seqs' = Seqs /\ Visible' = Visible /\ \A S : UpTo(S)' = UpTo(S)
    BY SameLog
  <1>3. \A v \in Workers : /\ Projecting(v)' <=> Projecting(v)
                           /\ Replaying(v)' <=> Replaying(v)
                           /\ Found(v)' = Found(v) /\ Passed(v)' = Passed(v)
                           /\ worker'[v].replay = worker[v].replay
    BY <1>1 DEF Projecting, Replaying, Found, Passed
  <1>4. \A v \in Workers \ {w} : HoldsMark(v)' <=> HoldsMark(v)
    BY <1>1 DEF HoldsMark, Projecting
  <1>5. HoldsMark(w)' => HoldsMark(w) \/ \A v \in Workers \ {w} : ~HoldsMark(v)
    BY <1>1 DEF HoldsMark
  <1>6. \A v \in Workers : Batch(v)'
    <2>1. Batch(w)'
      BY <1>1, <1>2, <1>3 DEF Batch, ReadInv
    <2>. QED
      BY <1>1, <1>2, <1>3, <2>1 DEF Batch, ReadInv
  <1>7. \A u, v \in Workers : u # v => ~(HoldsMark(u)' /\ HoldsMark(v)')
    BY <1>4, <1>5 DEF ReadInv
  <1>8. ReadInv'
    BY <1>1, <1>2, <1>6, <1>7 DEF ReadInv
  <1>9. /\ \A v \in Workers : UpTo(Found(v))' = UpTo(Found(v))
        /\ UpTo({mark})' = UpTo({mark})
    BY <1>2, <1>3 DEF UpTo
  <1>10. PassInv'
    BY <1>3, <1>9 DEF PassInv, MarkPassed, BatchPassed, ReplayPassed
  <1>. QED
    BY <1>8, <1>10

LEMMA FetchPass ==
    ASSUME GovInv, ReadInv, PassInv, NEW w \in Workers, Fetch(w),
           row[log[Min(worker[w].todo)].mem] \in Row
    PROVE  ReadInv' /\ PassInv'
  <1>. DEFINE l == [worker[w] EXCEPT !.at = "write", !.got = row[log[Min(worker[w].todo)].mem]]
  <1>1. worker[w] \in Locals /\ worker[w].at = "fetch" /\ worker[w].todo # {}
    BY DEF ReadInv, Batch, Fetch
  <1>2. /\ l \in Locals /\ l.at = "write" /\ l.done = worker[w].done /\ l.todo = worker[w].todo
        /\ l.blind = worker[w].blind /\ l.replay = worker[w].replay
    BY <1>1 DEF Locals, Places
  <1>3. worker' = [worker EXCEPT ![w] = l] /\ UNCHANGED <<log, mark, covered, late>>
    BY DEF Fetch, govVars, readVars, historyVars
  <1>. HIDE DEF l
  <1>4. Projecting(w) /\ l.done \cup l.todo = Found(w)
    BY <1>1, <1>2 DEF Projecting, Found
  <1>. QED
    BY <1>1, <1>2, <1>3, <1>4, MovesOn

\* What a Write leaves in the locals of the call.
WriteLocals(w) ==
    LET s == Min(worker[w].todo)
        m == log[s].mem
        kind == log[s].kind
        got == worker[w].got
    IN [worker[w] EXCEPT !.vec[m] = VectorOf(kind, got, @), !.ops = @ \o OpsOf(kind, got, m),
                         !.done = @ \cup {s}, !.todo = @ \ {s},
                         !.at = IF worker[w].todo = {s} THEN "commit" ELSE "fetch"]

LEMMA WriteEffect ==
    ASSUME LogInv, ReadInv, NEW w \in Workers, Write(w)
    PROVE  LET s == Min(worker[w].todo)
               m == log[s].mem
               l == WriteLocals(w)
           IN /\ worker[w] \in Locals /\ worker[w].at = "write"
              /\ s \in worker[w].todo /\ s \in Visible /\ m \in Mems
              /\ l \in Locals /\ worker' = [worker EXCEPT ![w] = l]
              /\ l.vec = [worker[w].vec EXCEPT ![m] = VectorOf(log[s].kind, worker[w].got, worker[w].vec[m])]
              /\ l.ops = worker[w].ops \o OpsOf(log[s].kind, worker[w].got, m)
              /\ l.done = worker[w].done \cup {s} /\ l.todo = worker[w].todo \ {s}
              /\ l.at = (IF worker[w].todo = {s} THEN "commit" ELSE "fetch")
              /\ l.blind = worker[w].blind /\ l.replay = worker[w].replay
              /\ ~MarkHeld(w)
              /\ \A v \in Workers \ {w} : worker[v].vec[m] = "keep"
              /\ UNCHANGED <<govVars, lock, readVars, background, historyVars, accidents>>
  <1>. DEFINE s == Min(worker[w].todo)
              m == log[s].mem
              kind == log[s].kind
              got == worker[w].got
              vec == [worker[w].vec EXCEPT ![m] = VectorOf(kind, got, @)]
              ops == worker[w].ops \o OpsOf(kind, got, m)
              l == WriteLocals(w)
  <1>1. worker[w] \in Locals /\ worker[w].at = "write" /\ worker[w].todo # {} /\ worker[w].todo \subseteq Visible
    BY DEF ReadInv, Batch, Found, Write
  <1>2. worker[w].todo \subseteq Nat
    BY <1>1 DEF Locals
  <1>3. s \in worker[w].todo /\ s \in Visible /\ s \in Nat
    BY <1>1, <1>2, LeastIs
  <1>4. log[s] \in Event
    BY <1>3 DEF LogInv, Visible, Seqs
  <1>5. m \in Mems /\ kind \in {"stored", "invalidated"}
    BY <1>4 DEF Event
  <1>6. got \in Row /\ worker[w].vec \in [Mems -> {"keep", "null", "said"}] /\ worker[w].ops \in Seq(Ops)
    BY <1>1 DEF Locals
  <1>7. VectorOf(kind, got, worker[w].vec[m]) \in {"keep", "null", "said"}
    BY <1>5, <1>6 DEF VectorOf
  <1>8. OpsOf(kind, got, m) \in Seq(Ops)
    <2>1. <<"hset", m>> \in Ops /\ <<"hdel", m>> \in Ops
      BY <1>5 DEF Ops
    <2>2. <<>> \in Seq(Ops) /\ <<<<"hset", m>>>> \in Seq(Ops) /\ <<<<"hdel", m>>>> \in Seq(Ops)
      BY <2>1
    <2>. QED
      BY <2>2 DEF OpsOf
  <1>9. vec \in [Mems -> {"keep", "null", "said"}] /\ ops \in Seq(Ops)
    BY <1>5, <1>6, <1>7, <1>8
  <1>10. l = [worker[w] EXCEPT !.vec = vec, !.ops = ops, !.done = @ \cup {s}, !.todo = @ \ {s},
                               !.at = IF worker[w].todo = {s} THEN "commit" ELSE "fetch"]
    BY <1>1 DEF WriteLocals, Locals
  <1>11. /\ l \in Locals /\ l.vec = vec /\ l.ops = ops
         /\ l.done = worker[w].done \cup {s} /\ l.todo = worker[w].todo \ {s}
         /\ l.at = (IF worker[w].todo = {s} THEN "commit" ELSE "fetch")
         /\ l.blind = worker[w].blind /\ l.replay = worker[w].replay
    <2>. HIDE DEF vec, ops, l, s
    <2>. QED
      BY <1>1, <1>3, <1>9, <1>10 DEF Locals, Places
  <1>12. worker' = [worker EXCEPT ![w] = l]
    BY DEF Write, WriteLocals
  <1>13. /\ ~MarkHeld(w) /\ \A v \in Workers \ {w} : worker[v].vec[m] = "keep"
         /\ UNCHANGED <<govVars, lock, readVars, background, historyVars, accidents>>
    BY DEF Write
  <1>. QED
    BY <1>1, <1>3, <1>5, <1>11, <1>12, <1>13

LEMMA WritePass ==
    ASSUME LogInv, ReadInv, PassInv, NEW w \in Workers, Write(w)
    PROVE  ReadInv' /\ PassInv'
  <1>. DEFINE s == Min(worker[w].todo)
              l == WriteLocals(w)
  <1>1. /\ worker[w] \in Locals /\ worker[w].at = "write" /\ s \in worker[w].todo
        /\ l \in Locals /\ worker' = [worker EXCEPT ![w] = l]
        /\ l.done = worker[w].done \cup {s} /\ l.todo = worker[w].todo \ {s}
        /\ l.at = (IF worker[w].todo = {s} THEN "commit" ELSE "fetch")
        /\ l.blind = worker[w].blind /\ l.replay = worker[w].replay
        /\ ~MarkHeld(w) /\ UNCHANGED <<govVars, lock, readVars, background, historyVars, accidents>>
    BY WriteEffect
  <1>. HIDE DEF l, s
  <1>2. UNCHANGED <<log, mark, covered, late>>
    BY <1>1 DEF govVars, readVars, historyVars
  <1>3. Projecting(w) /\ l.done \cup l.todo = Found(w) /\ l.at \in {"fetch", "write", "commit"}
    BY <1>1 DEF Projecting, Found
  <1>4. \A v \in Workers \ {w} : ~HoldsMark(v)
    BY <1>1 DEF MarkHeld, HoldsMark, Projecting
  <1>5. (l.at \in {"fetch", "write"} => l.todo # {}) /\ (l.at = "commit" => l.todo = {})
    BY <1>1
  <1>. QED
    BY <1>1, <1>2, <1>3, <1>4, <1>5, MovesOn

\* What a Read leaves in the locals of the call.
LEMMA ReadEffect ==
    ASSUME ReadInv, NEW w \in Workers, Read(w)
    PROVE  \E l \in Locals :
              /\ worker[w] \in Locals /\ worker[w].at = "read"
              /\ worker' = [worker EXCEPT ![w] = l]
              /\ l.todo = {s \in Visible : s > (IF worker[w].replay THEN 0 ELSE mark)}
              /\ l.at = (IF l.todo = {} THEN "commit" ELSE "fetch")
              /\ l.blind = {s \in Seqs : log[s].state = "open" /\ \E t \in l.todo : s < t}
              /\ l.done = {} /\ l.replay = worker[w].replay
              /\ l.vec = [m \in Mems |->
                            IF worker[w].replay /\ row[m].text # "none" THEN "null" ELSE "keep"]
              /\ l.ops = (IF worker[w].replay THEN <<<<"flush", "none">>>> ELSE <<>>)
              /\ worker[w].replay => ~MarkHeld(w) /\ \A m \in Mems : Unlocked(m)
              /\ UNCHANGED <<govVars, lock, readVars, background, historyVars, accidents>>
  <1>. DEFINE last == IF worker[w].replay THEN 0 ELSE mark
              found == {s \in Visible : s > last}
              blind == {s \in Seqs : log[s].state = "open" /\ \E t \in found : s < t}
              vec == [m \in Mems |-> IF worker[w].replay /\ row[m].text # "none" THEN "null" ELSE "keep"]
              ops == IF worker[w].replay THEN <<<<"flush", "none">>>> ELSE <<>>
              at == IF found = {} THEN "commit" ELSE "fetch"
              l == [worker[w] EXCEPT !.at = at, !.todo = found, !.blind = blind, !.vec = vec, !.ops = ops]
  <1>1. worker[w] \in Locals /\ worker[w].at = "read" /\ worker[w].done = {}
    BY DEF ReadInv, Batch, Read
  <1>2. worker' = [worker EXCEPT ![w] = l]
    BY DEF Read
  <1>3. /\ worker[w].replay => ~MarkHeld(w) /\ \A m \in Mems : Unlocked(m)
        /\ UNCHANGED <<govVars, lock, readVars, background, historyVars, accidents>>
    BY DEF Read
  <1>4. Visible \subseteq Nat /\ Seqs \subseteq Nat
    BY DEF Visible, Seqs
  <1>5. found \in SUBSET Nat /\ blind \in SUBSET Nat /\ at \in Places
    BY <1>4 DEF Places
  <1>6. vec \in [Mems -> {"keep", "null", "said"}]
    OBVIOUS
  <1>7. ops \in Seq(Ops)
    <2>1. <<"flush", "none">> \in Ops
      BY DEF Ops
    <2>. QED
      BY <2>1
  <1>. HIDE DEF found, blind, vec, ops, at
  <1>8. /\ l \in Locals /\ l.at = at /\ l.todo = found /\ l.blind = blind /\ l.vec = vec /\ l.ops = ops
        /\ l.done = {} /\ l.replay = worker[w].replay
    BY <1>1, <1>5, <1>6, <1>7 DEF Locals
  <1>. HIDE DEF l
  <1>. QED
    BY <1>1, <1>2, <1>3, <1>8 DEF found, blind, vec, ops, at

\* A pass begins: every event up to its last one is in it, or was open, or lies
\* below the watermark it read.
LEMMA ReadPass ==
    ASSUME ReadInv, PassInv, LogInv, NEW w \in Workers, Read(w)
    PROVE  ReadInv' /\ PassInv'
  <1>0. PICK l \in Locals :
          /\ worker[w] \in Locals /\ worker[w].at = "read"
          /\ worker' = [worker EXCEPT ![w] = l]
          /\ l.todo = {s \in Visible : s > (IF worker[w].replay THEN 0 ELSE mark)}
          /\ l.at = (IF l.todo = {} THEN "commit" ELSE "fetch")
          /\ l.blind = {s \in Seqs : log[s].state = "open" /\ \E t \in l.todo : s < t}
          /\ l.done = {} /\ l.replay = worker[w].replay
          /\ worker[w].replay => ~MarkHeld(w)
          /\ UNCHANGED <<govVars, lock, readVars, background, historyVars, accidents>>
    BY ReadEffect
  <1>1. /\ worker' \in [Workers -> Locals] /\ worker'[w] = l
        /\ \A v \in Workers \ {w} : worker'[v] = worker[v]
    BY <1>0, WorkerIs
  <1>2. UNCHANGED <<log, mark, covered, late>>
    BY <1>0 DEF govVars, readVars, historyVars
  <1>3. Seqs' = Seqs /\ Visible' = Visible /\ \A S : UpTo(S)' = UpTo(S)
    BY <1>2, SameLog
  <1>4. /\ Found(w)' = l.todo /\ Projecting(w)' /\ Passed(w)' = late \cup l.todo \cup l.blind
        /\ worker'[w].replay = worker[w].replay
        /\ \A v \in Workers \ {w} : /\ Projecting(v)' <=> Projecting(v)
                                    /\ Replaying(v)' <=> Replaying(v)
                                    /\ HoldsMark(v)' <=> HoldsMark(v)
                                    /\ Found(v)' = Found(v) /\ Passed(v)' = Passed(v)
    BY <1>0, <1>1, <1>2 DEF Projecting, Replaying, HoldsMark, Found, Passed
  <1>5. l.todo \subseteq Visible
    BY <1>0
  <1>6. HoldsMark(w)' => worker[w].replay
    BY <1>0, <1>1 DEF HoldsMark
  <1>7. worker[w].replay => \A v \in Workers \ {w} : ~HoldsMark(v)
    BY <1>0 DEF MarkHeld, HoldsMark, Projecting
  <1>8. ReadInv'
    <2>1. Batch(w)'
      BY <1>0, <1>1, <1>3, <1>4, <1>5 DEF Batch
    <2>2. \A v \in Workers \ {w} : Batch(v)'
      BY <1>1, <1>3, <1>4 DEF Batch, ReadInv
    <2>3. \A u, v \in Workers : u # v => ~(HoldsMark(u)' /\ HoldsMark(v)')
      BY <1>4, <1>6, <1>7 DEF ReadInv
    <2>. QED
      BY <1>1, <1>2, <1>3, <2>1, <2>2, <2>3 DEF ReadInv
  <1>9. UpTo({mark})' = UpTo({mark}) /\ \A v \in Workers \ {w} : UpTo(Found(v))' = UpTo(Found(v))
    BY <1>2, <1>3, <1>4 DEF UpTo
  <1>10. MarkPassed'
    BY <1>2, <1>9 DEF PassInv, MarkPassed
  \* An event up to the last one found is found, was open, or is below the watermark.
  <1>11. ASSUME NEW s \in UpTo(l.todo), s \notin l.todo \cup l.blind
         PROVE  ~worker[w].replay /\ s \in UpTo({mark})
    <2>1. PICK t \in l.todo : s <= t
      BY <1>11 DEF UpTo
    <2>2. s \in Seqs /\ t \in Seqs /\ log[s].state # "aborted" /\ log[t].state = "visible" /\ s \in Live
      BY <1>5, <1>11, <2>1 DEF UpTo, Live, Visible
    <2>3. s # t /\ s \in Nat /\ t \in Nat /\ s > 0
      BY <1>11, <2>1, <2>2 DEF Seqs
    <2>4. log[s].state # "open"
      BY <1>0, <1>11, <2>1, <2>2, <2>3
    <2>5. log[s].state = "visible"
      <3>1. log[s] \in Event
        BY <2>2 DEF LogInv, Seqs
      <3>. QED
        BY <2>2, <2>4, <3>1 DEF Event
    <2>6. s \in Visible
      BY <2>2, <2>5 DEF Visible
    <2>7. ~(s > (IF worker[w].replay THEN 0 ELSE mark))
      BY <1>0, <1>11, <2>6
    <2>8. ~worker[w].replay /\ s <= mark
      BY <2>3, <2>7 DEF ReadInv
    <2>. QED
      BY <2>2, <2>8 DEF UpTo
  <1>12. UpTo(Found(w))' = UpTo(l.todo)
    BY <1>3, <1>4 DEF UpTo
  <1>13. BatchPassed(w)'
    <2>1. UpTo({mark}) \subseteq covered \cup late
      BY DEF PassInv, MarkPassed
    <2>2. UpTo(l.todo) \subseteq late \cup l.todo \cup l.blind \cup (IF worker[w].replay THEN {} ELSE covered)
      BY <1>11, <2>1
    <2>. QED
      BY <1>2, <1>4, <1>12, <2>2 DEF BatchPassed
  <1>14. \A v \in Workers \ {w} : BatchPassed(v)'
    BY <1>1, <1>2, <1>4, <1>9 DEF PassInv, BatchPassed
  <1>15. ReplayPassed(w)'
    <2>. SUFFICES ASSUME worker[w].replay PROVE ReplayPassed(w)'
      BY <1>4 DEF ReplayPassed, Replaying
    <2>1. l.todo = Visible
      <3>1. \A s \in Visible : s > 0
        BY DEF Visible, Seqs
      <3>. QED
        BY <1>0, <3>1
    <2>2. covered \subseteq l.todo
      BY <2>1 DEF ReadInv
    <2>3. UpTo({mark}) \subseteq late \cup l.todo
      BY <2>2 DEF PassInv, MarkPassed
    <2>4. \A v \in Workers \ {w} : Projecting(v) /\ ~worker[v].replay =>
                                        UpTo(Found(v)) \subseteq Passed(v) \cup l.todo
      BY <2>2 DEF PassInv, BatchPassed
    <2>. QED
      BY <1>1, <1>2, <1>4, <1>9, <2>3, <2>4 DEF ReplayPassed
  <1>16. ASSUME NEW r \in Workers \ {w} PROVE ReplayPassed(r)'
    <2>1. ReplayPassed(r)
      BY DEF PassInv
    <2>2. CASE Replaying(r)
      <3>1. UpTo({mark}) \subseteq late \cup Found(r)
        BY <2>1, <2>2 DEF ReplayPassed
      <3>2. UpTo(l.todo) \subseteq late \cup l.todo \cup l.blind \cup Found(r)
        BY <1>11, <3>1
      <3>3. UpTo(Found(w))' \subseteq Passed(w)' \cup Found(r)'
        BY <1>4, <1>12, <3>2
      <3>. QED
        BY <1>1, <1>2, <1>4, <1>9, <2>1, <2>2, <3>3 DEF ReplayPassed
    <2>3. CASE ~Replaying(r)
      BY <1>4, <2>3 DEF ReplayPassed
    <2>. QED
      BY <2>2, <2>3
  <1>. QED
    BY <1>8, <1>10, <1>13, <1>14, <1>15, <1>16 DEF PassInv

\* COMMIT of the projection: a watermark never passes what the pass did not.
LEMMA CommitPass ==
    ASSUME ReadInv, PassInv, LogInv, NEW w \in Workers, CommitProjection(w)
    PROVE  ReadInv' /\ PassInv'
  <1>. DEFINE l == [worker[w] EXCEPT !.at = "apply", !.vec = Resting.vec]
              done == worker[w].done
              more == IF worker[w].replay THEN done ELSE covered \cup done
  <1>1. worker[w] \in Locals /\ worker[w].at = "commit" /\ worker[w].todo = {} /\ Projecting(w)
        /\ Found(w) = done /\ done \subseteq Visible
    BY DEF ReadInv, Batch, CommitProjection, Projecting, Found
  <1>2. l \in Locals /\ l.at = "apply" /\ l.done = done /\ l.todo = {}
    <2>1. Resting.vec \in [Mems -> {"keep", "null", "said"}]
      BY DEF Resting
    <2>. QED
      BY <1>1, <2>1 DEF Locals, Places
  <1>3. /\ worker' = [worker EXCEPT ![w] = l] /\ log' = log
        /\ covered' = more /\ late' = late \cup worker[w].blind /\ mark' = MarkAfter(w)
    <2>1. worker' = [worker EXCEPT ![w] = l]
      BY <1>1 DEF CommitProjection
    <2>. QED
      BY <2>1 DEF CommitProjection, govVars
  <1>. HIDE DEF l
  <1>4. /\ worker' \in [Workers -> Locals] /\ worker'[w] = l
        /\ \A v \in Workers \ {w} : worker'[v] = worker[v]
    BY <1>2, <1>3, WorkerIs
  <1>5. Seqs' = Seqs /\ Visible' = Visible /\ \A S : UpTo(S)' = UpTo(S)
    BY <1>3, SameLog
  <1>6. Len(log) \in Nat /\ Visible \subseteq 0..Len(log)
    BY DEF LogInv, Visible, Seqs
  <1>7. done # {} => mark' \in done /\ \A s \in done : s <= mark'
    BY <1>1, <1>3, <1>6, GreatestIs DEF MarkAfter
  <1>8. done = {} => mark' = IF worker[w].replay THEN 0 ELSE mark
    BY <1>3 DEF MarkAfter
  <1>9. mark' \in 0..Len(log)
    <2>1. mark \in 0..Len(log) /\ 0 \in 0..Len(log)
      BY <1>6 DEF ReadInv
    <2>2. CASE done # {}
      BY <1>1, <1>6, <1>7, <2>2
    <2>3. CASE done = {}
      BY <1>8, <2>1, <2>3
    <2>. QED
      BY <2>2, <2>3
  <1>10. ~Projecting(w)' /\ ~HoldsMark(w)' /\ ~Replaying(w)'
    BY <1>2, <1>4 DEF Projecting, HoldsMark, Replaying
  <1>11. \A v \in Workers \ {w} : /\ Projecting(v)' <=> Projecting(v)
                                  /\ Replaying(v)' <=> Replaying(v)
                                  /\ HoldsMark(v)' <=> HoldsMark(v)
                                  /\ Found(v)' = Found(v) /\ Passed(v) \subseteq Passed(v)'
                                  /\ worker'[v].replay = worker[v].replay
                                  /\ UpTo(Found(v))' = UpTo(Found(v))
    BY <1>3, <1>4, <1>5 DEF Projecting, Replaying, HoldsMark, Found, Passed, UpTo
  <1>12. ReadInv'
    <2>1. Batch(w)'
      BY <1>1, <1>2, <1>4, <1>5 DEF Batch, Found
    <2>2. \A v \in Workers \ {w} : Batch(v)'
      BY <1>4, <1>5, <1>11 DEF Batch, ReadInv
    <2>3. \A u, v \in Workers : u # v => ~(HoldsMark(u)' /\ HoldsMark(v)')
      BY <1>10, <1>11 DEF ReadInv
    <2>4. covered' \subseteq Visible
      BY <1>1, <1>3 DEF ReadInv
    <2>. QED
      BY <1>3, <1>4, <1>5, <1>9, <2>1, <2>2, <2>3, <2>4 DEF ReadInv
  <1>13. UpTo({mark'}) \subseteq covered' \cup late'
    <2>1. CASE done # {}
      <3>1. UpTo({mark'}) \subseteq UpTo(done)
        BY <1>7, <2>1 DEF UpTo
      <3>2. UpTo(done) \subseteq late \cup done \cup worker[w].blind
                                 \cup (IF worker[w].replay THEN {} ELSE covered)
        BY <1>1 DEF PassInv, BatchPassed, Passed
      <3>. QED
        BY <1>3, <3>1, <3>2
    <2>2. CASE done = {} /\ worker[w].replay
      <3>1. UpTo({0}) = {}
        BY <1>6 DEF UpTo, Live, Seqs
      <3>. QED
        BY <1>8, <2>2, <3>1
    <2>3. CASE done = {} /\ ~worker[w].replay
      BY <1>3, <1>8, <2>3 DEF PassInv, MarkPassed
    <2>. QED
      BY <2>1, <2>2, <2>3
  <1>14. MarkPassed'
    BY <1>5, <1>13 DEF MarkPassed, UpTo
  <1>15. ASSUME NEW v \in Workers \ {w} PROVE BatchPassed(v)'
    <2>1. BatchPassed(v)
      BY DEF PassInv
    <2>2. worker[w].replay /\ Projecting(v) /\ ~worker[v].replay => UpTo(Found(v)) \subseteq Passed(v) \cup done
      BY <1>1 DEF PassInv, ReplayPassed, Replaying
    <2>. QED
      BY <1>3, <1>11, <2>1, <2>2 DEF BatchPassed
  <1>16. ASSUME NEW r \in Workers \ {w} PROVE ReplayPassed(r)'
    <2>1. CASE Replaying(r)
      <3>1. ReplayPassed(r) /\ ~HoldsMark(w)
        BY <2>1 DEF PassInv, ReadInv, HoldsMark, Replaying
      <3>2. done = {} /\ ~worker[w].replay /\ mark' = mark
        BY <1>1, <1>8, <3>1 DEF HoldsMark
      <3>3. UpTo({mark})' = UpTo({mark})
        BY <1>5, <3>2 DEF UpTo
      <3>. QED
        BY <1>3, <1>10, <1>11, <2>1, <3>1, <3>3 DEF ReplayPassed
    <2>2. CASE ~Replaying(r)
      BY <1>11, <2>2 DEF ReplayPassed
    <2>. QED
      BY <2>1, <2>2
  <1>17. BatchPassed(w)' /\ ReplayPassed(w)'
    BY <1>10 DEF BatchPassed, ReplayPassed
  <1>. QED
    BY <1>12, <1>14, <1>15, <1>16, <1>17 DEF PassInv

LEMMA NextPass ==
    ASSUME GovInv, ReadInv, PassInv, [MemoryNext]_vars
    PROVE  ReadInv' /\ PassInv'
  <1>1. Grows
    BY NextGrows
  <1>2. ASSUME UNCHANGED <<worker, mark, covered, late>> PROVE ReadInv' /\ PassInv'
    BY <1>1, <1>2, GrowsPass
  <1>3. CASE Governance
    <2>1. UNCHANGED <<worker, mark, covered, late>>
      BY <1>3 DEF Governance, Add, Invalidate, ForgetGates, ForgetRedact, Commit, Abort,
                  ApprovalExpires, CloseUnlogged, readVars, historyVars
    <2>. QED
      BY <1>2, <2>1
  <1>4. ASSUME LockExpires \/ Restart \/ UNCHANGED vars \/ \E m \in Mems : StoreBackground(m)
        PROVE  ReadInv' /\ PassInv'
    <2>1. UNCHANGED <<worker, mark, covered, late>>
      BY <1>4 DEF LockExpires, Restart, StoreBackground, vars, readVars, historyVars
    <2>. QED
      BY <1>2, <2>1
  <1>5. ASSUME NEW w \in Workers, Acquire(w) PROVE ReadInv' /\ PassInv'
    <2>1. PICK again \in BOOLEAN :
            worker' = [worker EXCEPT ![w] = [Resting EXCEPT !.at = "read", !.replay = again]]
      BY <1>5 DEF Acquire
    <2>. DEFINE l == [Resting EXCEPT !.at = "read", !.replay = again]
    <2>2. l \in Locals /\ l.at = "read" /\ l.done = {} /\ l.todo = {}
      BY RestingIs DEF Places
    <2>3. UNCHANGED <<log, mark, covered, late>>
      BY <1>5 DEF Acquire, govVars, readVars, historyVars
    <2>. HIDE DEF l
    <2>4. worker' = [worker EXCEPT ![w] = l]
      BY <2>1 DEF l
    <2>. QED
      BY <2>2, <2>3, <2>4, Rests
  <1>6. ASSUME NEW w \in Workers, Fail(w) \/ Crash(w) PROVE ReadInv' /\ PassInv'
    <2>1. PICK place \in {"failed", "idle"} : Falls(w, place)
      BY <1>6 DEF Fail, Crash
    <2>. DEFINE l == [Resting EXCEPT !.at = place]
    <2>2. l \in Locals /\ l.at \in {"failed", "idle"} /\ l.done = {} /\ l.todo = {}
      BY RestingIs DEF Places
    <2>3. UNCHANGED <<log, mark, covered, late>> /\ worker' = [worker EXCEPT ![w] = l]
      BY <2>1 DEF Falls, govVars, readVars, historyVars
    <2>. HIDE DEF l
    <2>. QED
      BY <2>2, <2>3, Rests
  <1>7. ASSUME NEW w \in Workers, ReleaseCheck(w) \/ ReleaseDelete(w) PROVE ReadInv' /\ PassInv'
    <2>. DEFINE l == [Resting EXCEPT !.at = IF ReleaseCheck(w) /\ lock = w THEN "release" ELSE "idle"]
    <2>1. l \in Locals /\ l.at \in {"release", "idle"} /\ l.done = {} /\ l.todo = {}
      BY RestingIs DEF Places
    <2>2. UNCHANGED <<log, mark, covered, late>>
      BY <1>7 DEF ReleaseCheck, ReleaseDelete, govVars, readVars, historyVars
    <2>3. Resting = [Resting EXCEPT !.at = "idle"]
      <3>1. Resting.at = "idle" /\ Resting \in Locals
        BY RestingIs DEF Resting
      <3>. QED
        BY <3>1 DEF Locals
    <2>4. ~(ReleaseCheck(w) /\ ReleaseDelete(w))
      BY DEF ReleaseCheck, ReleaseDelete
    <2>5. worker' = [worker EXCEPT ![w] = l]
      <3>1. CASE ReleaseCheck(w)
        BY <3>1 DEF ReleaseCheck
      <3>2. CASE ReleaseDelete(w)
        BY <2>3, <2>4, <3>2 DEF ReleaseDelete
      <3>. QED
        BY <1>7, <3>1, <3>2
    <2>. HIDE DEF l
    <2>. QED
      BY <2>1, <2>2, <2>5, Rests
  <1>8. ASSUME NEW w \in Workers, ApplyOp(w) PROVE ReadInv' /\ PassInv'
    <2>. DEFINE l == [worker[w] EXCEPT !.ops = Tail(@)]
    <2>1. worker[w] \in Locals /\ worker[w].at = "apply" /\ worker[w].ops # <<>> /\ Found(w) \subseteq Visible
      BY <1>8 DEF ReadInv, Batch, ApplyOp
    <2>2. Tail(worker[w].ops) \in Seq(Ops)
      BY <2>1 DEF Locals
    <2>3. l \in Locals /\ l.at = "apply" /\ l.done = worker[w].done /\ l.todo = worker[w].todo
      BY <2>1, <2>2 DEF Locals
    <2>4. UNCHANGED <<log, mark, covered, late>> /\ worker' = [worker EXCEPT ![w] = l]
      BY <1>8 DEF ApplyOp, govVars, historyVars
    <2>. HIDE DEF l
    <2>. QED
      BY <2>1, <2>3, <2>4, Rests DEF Found
  <1>9. ASSUME NEW w \in Workers, Fetch(w) PROVE ReadInv' /\ PassInv'
    <2>1. worker[w].todo # {} /\ worker[w].todo \subseteq Visible
      BY <1>9 DEF ReadInv, Batch, Found, Fetch
    <2>2. Min(worker[w].todo) \in Visible
      BY <2>1, LeastIs DEF Visible, Seqs
    <2>3. log[Min(worker[w].todo)] \in Event
      BY <2>2 DEF GovInv, LogInv, Visible, Seqs
    <2>4. row[log[Min(worker[w].todo)].mem] \in Row
      BY <2>3 DEF Event, GovInv, RowInv
    <2>. QED
      BY <1>9, <2>4, FetchPass
  <1>10. ASSUME NEW w \in Workers, WorkerStep(w) PROVE ReadInv' /\ PassInv'
    BY <1>7, <1>8, <1>9, <1>10, ReadPass, WritePass, CommitPass DEF WorkerStep, GovInv
  <1>. QED
    BY <1>3, <1>4, <1>5, <1>6, <1>10 DEF MemoryNext

\* Nothing below the watermark was skipped: project_scope reads the mark
\* (_read_watermark), selects by seq above it and writes back the last seq of
\* its pass (_advance_watermark), with transactions, replays, aborts and a second
\* holder of the expired lock in between; what may be missed is only what was
\* still uncommitted when a pass read beyond it.
THEOREM ReadsEveryEvent == MemorySpec => []NothingSkipped
  <1>1. MemoryInit => GovInv /\ ReadInv /\ PassInv
    BY InitGov, InitRead
  <1>2. GovInv /\ ReadInv /\ PassInv /\ [MemoryNext]_vars => GovInv' /\ ReadInv' /\ PassInv'
    BY NextGov, NextPass
  <1>3. ReadInv /\ PassInv => NothingSkipped
    <2>. SUFFICES ASSUME ReadInv, PassInv, NEW s \in Visible, s <= mark PROVE s \in covered \cup late
      BY DEF NothingSkipped
    <2>1. s \in UpTo({mark})
      BY DEF UpTo, Live, Visible
    <2>. QED
      BY <2>1 DEF PassInv, MarkPassed
  <1>. QED
    BY <1>1, <1>2, <1>3, PTL DEF MemorySpec

-------------------------------------------------------------------------------
(* What the rows and the committed events say of each other.                *)

Closing(m) == {s \in EventsOf(m) : log[s].kind = "invalidated"}
RowLog(m) ==
    /\ EventsOf(m) # {} => row[m].text # "none"
    /\ Closing(m) # {} => ~row[m].open
    /\ \A s \in EventsOf(m) : log[s].approval # "none" => row[m].text = "redacted"
    /\ row[m].text # "none" => \E s \in EventsOf(m) : log[s].kind = "stored"
    /\ row[m].text = "redacted" => \E s \in EventsOf(m) : log[s].approval # "none"
HistInv ==
    /\ \A m \in Mems : RowLog(m)
    /\ \A s \in Seqs : log[s].kind = "stored" => log[s].approval = "none"
    /\ \A c \in Clients : tx[c].at = "staged" =>
         /\ log[tx[c].seq].mem = tx[c].mem
         /\ log[tx[c].seq].kind = IF tx[c].op = "add" THEN "stored" ELSE "invalidated"

\* A row is closed once and redacted once, and never again empty.
Moves(m) ==
    /\ row[m].text # "none" => row'[m].text # "none" /\ (row'[m].open => row[m].open)
    /\ row[m].text = "redacted" => row'[m].text = "redacted"
\* A closing that others can see has an event that they can see.
Logged(m) == row[m].open /\ ~row'[m].open => Closing(m)' \ Visible # {}

LEMMA StillMoves == ASSUME row' = row, NEW m \in Mems PROVE Moves(m) /\ Logged(m)
  BY DEF Moves, Logged

LEMMA SameEvents ==
    ASSUME Grows, Visible' = Visible
    PROVE  /\ \A m \in Mems : EventsOf(m)' = EventsOf(m) /\ Closing(m)' = Closing(m)
           /\ \A s \in Visible : log'[s].kind = log[s].kind /\ log'[s].approval = log[s].approval
  BY DEF Grows, EventsOf, Closing, Visible

LEMMA SameRowLog ==
    ASSUME Grows, Visible' = Visible, row' = row, HistInv, NEW m \in Mems
    PROVE  RowLog(m)'
  <1>1. /\ EventsOf(m)' = EventsOf(m) /\ Closing(m)' = Closing(m) /\ RowLog(m)
        /\ \A s \in EventsOf(m) : log'[s].kind = log[s].kind /\ log'[s].approval = log[s].approval
    BY SameEvents DEF HistInv, EventsOf
  <1>. QED
    BY <1>1 DEF RowLog

LEMMA HistSame ==
    ASSUME GovInv, HistInv, Grows, Visible' = Visible, Seqs' = Seqs, row' = row,
           \A d \in Clients : tx'[d].at = "staged" => tx'[d] = tx[d]
    PROVE  HistInv'
  <1>1. \A m \in Mems : RowLog(m)'
    BY SameRowLog
  <1>2. \A d \in Clients : tx[d].at = "staged" => tx[d].seq \in Seqs
    BY DEF GovInv, TxInv, Staged
  <1>. QED
    BY <1>1, <1>2 DEF HistInv, Grows

LEMMA HistStages ==
    ASSUME GovInv, HistInv, NEW c \in Clients, NEW kind \in {"stored", "invalidated"},
           NEW m \in Mems, NEW a \in Approvals \cup {"none"}, NEW call, Stage(kind, m, a),
           kind = "stored" => a = "none", call.mem = m, call.seq = Len(log'),
           kind = (IF call.op = "add" THEN "stored" ELSE "invalidated"),
           tx' = [tx EXCEPT ![c] = call], row' = row
    PROVE  HistInv'
  <1>1. /\ Grows /\ Visible' = Visible /\ Seqs' = Seqs \cup {Len(log')}
        /\ \A s \in Seqs : log'[s] = log[s]
        /\ log'[Len(log')] = [kind |-> kind, mem |-> m, approval |-> a, state |-> "open"]
    BY StageGrows DEF GovInv
  <1>2. \A n \in Mems : RowLog(n)'
    BY <1>1, SameRowLog
  <1>3. \A s \in Seqs' : log'[s].kind = "stored" => log'[s].approval = "none"
    BY <1>1 DEF HistInv
  <1>4. \A d \in Clients : tx[d].at = "staged" => tx[d].seq \in Seqs
    BY DEF GovInv, TxInv, Staged
  <1>5. tx'[c] = call /\ \A d \in Clients \ {c} : tx'[d] = tx[d]
    BY DEF GovInv, TxInv
  <1>6. ASSUME NEW d \in Clients, tx'[d].at = "staged"
        PROVE  /\ log'[tx'[d].seq].mem = tx'[d].mem
               /\ log'[tx'[d].seq].kind = IF tx'[d].op = "add" THEN "stored" ELSE "invalidated"
    <2>1. CASE d = c
      BY <1>1, <1>5, <2>1
    <2>2. CASE d # c
      BY <1>1, <1>4, <1>5, <1>6, <2>2 DEF HistInv
    <2>. QED
      BY <2>1, <2>2
  <1>. QED
    BY <1>2, <1>3, <1>6 DEF HistInv

LEMMA HistCommit ==
    ASSUME GovInv, HistInv, NEW c \in Clients, Commit(c)
    PROVE  HistInv' /\ \A m \in Mems : Moves(m) /\ Logged(m)
  <1>0. PICK m, s, r : m = tx[c].mem /\ s = tx[c].seq /\ r = Written(tx[c])
    OBVIOUS
  <1>1. /\ tx[c].at = "staged" /\ row' = [row EXCEPT ![m] = r]
        /\ log' = [log EXCEPT ![s].state = "visible"] /\ tx' = [tx EXCEPT ![c] = NoTx]
    BY <1>0 DEF Commit
  <1>2. tx[c] \in Call /\ Sound(c) /\ Staged(c)
    BY <1>1 DEF GovInv, TxInv
  <1>3. /\ m \in Mems /\ s \in Seqs /\ log[s].state = "open" /\ log[s].approval = tx[c].approval
        /\ tx[c].op \in {"add", "invalidate", "forget"}
        /\ log[s].mem = m /\ log[s].kind = (IF tx[c].op = "add" THEN "stored" ELSE "invalidated")
    <2>1. tx[c].op \in {"none", "add", "invalidate", "forget"}
      BY <1>2 DEF Call
    <2>. QED
      BY <1>0, <1>1, <1>2, <2>1 DEF Sound, Staged, HistInv
  <1>4. row[m] \in Row /\ (row[m].open => row[m].text = "said")
    BY <1>3 DEF GovInv, RowInv
  <1>5. /\ tx[c].op = "add" => /\ r = [text |-> "said", open |-> TRUE] /\ row[m].text = "none"
                               /\ tx[c].approval = "none"
        /\ tx[c].op = "invalidate" => /\ r = [row[m] EXCEPT !.open = FALSE] /\ row[m].open
                                      /\ tx[c].approval = "none"
        /\ tx[c].op = "forget" => /\ r = [text |-> "redacted", open |-> FALSE]
                                  /\ row[m].text = "said" /\ tx[c].approval # "none"
    BY <1>0, <1>2, MemoryAssumption DEF Written, Sound, Staged, MemoryAssumption
  <1>6. row'[m] = r /\ \A n \in Mems \ {m} : row'[n] = row[n]
    BY <1>1, <1>3 DEF GovInv, RowInv
  <1>7. Grows /\ Seqs' = Seqs /\ Visible' = Visible \cup {s} /\ s \notin Visible
    BY <1>1, <1>3, SettleGrows DEF GovInv, Visible
  <1>8. /\ \A n \in Mems \ {m} : EventsOf(n)' = EventsOf(n)
        /\ EventsOf(m)' = EventsOf(m) \cup {s}
        /\ \A t \in Seqs : log'[t].kind = log[t].kind /\ log'[t].approval = log[t].approval
        /\ EventsOf(m) \subseteq Seqs /\ \A n \in Mems : EventsOf(n) \subseteq Seqs
    <2>1. \A t \in Seqs : /\ log'[t].kind = log[t].kind /\ log'[t].approval = log[t].approval
                          /\ log'[t].mem = log[t].mem
      BY <1>7 DEF Grows
    <2>2. Visible \subseteq Seqs
      BY DEF Visible
    <2>3. ASSUME NEW n \in Mems PROVE EventsOf(n)' = EventsOf(n) \cup {t \in {s} : log[t].mem = n}
      BY <1>3, <1>7, <2>1, <2>2 DEF EventsOf
    <2>4. EventsOf(m)' = EventsOf(m) \cup {s} /\ \A n \in Mems \ {m} : EventsOf(n)' = EventsOf(n)
      BY <1>3, <2>3
    <2>. QED
      BY <1>3, <2>1, <2>2, <2>4 DEF EventsOf
  <1>9. /\ \A n \in Mems \ {m} : Closing(n)' = Closing(n)
        /\ Closing(m)' = Closing(m) \cup (IF tx[c].op = "add" THEN {} ELSE {s})
    BY <1>3, <1>8 DEF Closing
  <1>10. \A n \in Mems \ {m} : RowLog(n)' /\ Moves(n) /\ Logged(n)
    <2>1. \A n \in Mems \ {m} : RowLog(n)
      BY DEF HistInv
    <2>. QED
      BY <1>6, <1>8, <1>9, <2>1 DEF RowLog, Moves, Logged
  <1>11. RowLog(m)
    BY <1>3 DEF HistInv
  <1>12. RowLog(m)' /\ Moves(m) /\ Logged(m)
    <2>1. CASE tx[c].op = "add"
      <3>1. EventsOf(m) = {} /\ Closing(m) = {}
        BY <1>5, <1>11, <2>1 DEF RowLog, Closing
      <3>2. row'[m].text = "said" /\ row'[m].open /\ row[m].text = "none" /\ ~row[m].open
        BY <1>4, <1>5, <1>6, <2>1
      <3>3. log'[s].kind = "stored" /\ log'[s].approval = "none"
        BY <1>3, <1>5, <1>8, <2>1
      <3>4. EventsOf(m)' = {s} /\ Closing(m)' = {}
        BY <1>8, <1>9, <2>1, <3>1
      <3>5. RowLog(m)'
        BY <3>2, <3>3, <3>4 DEF RowLog
      <3>6. Moves(m) /\ Logged(m)
        BY <3>2 DEF Moves, Logged
      <3>. QED
        BY <3>5, <3>6
    <2>2. CASE tx[c].op = "invalidate"
      <3>1. row'[m].text = "said" /\ ~row'[m].open /\ row[m].text = "said" /\ row[m].open
        BY <1>4, <1>5, <1>6, <2>2 DEF Row
      <3>2. log'[s].approval = "none" /\ Closing(m)' = Closing(m) \cup {s}
        BY <1>3, <1>5, <1>8, <1>9, <2>2
      <3>3. \A t \in EventsOf(m) : log'[t].kind = log[t].kind /\ log'[t].approval = log[t].approval
        BY <1>8
      <3>4. Closing(m)' \ Visible # {}
        BY <1>7, <3>2
      <3>5. RowLog(m)'
        BY <1>8, <1>11, <3>1, <3>2, <3>3 DEF RowLog
      <3>6. Moves(m) /\ Logged(m)
        BY <3>1, <3>4 DEF Moves, Logged
      <3>. QED
        BY <3>5, <3>6
    <2>3. CASE tx[c].op = "forget"
      <3>1. row'[m].text = "redacted" /\ ~row'[m].open /\ row[m].text = "said"
        BY <1>5, <1>6, <2>3
      <3>2. log'[s].approval # "none" /\ Closing(m)' = Closing(m) \cup {s}
        BY <1>3, <1>5, <1>8, <1>9, <2>3
      <3>3. \A t \in EventsOf(m) : log'[t].kind = log[t].kind /\ log'[t].approval = log[t].approval
        BY <1>8
      <3>4. Closing(m)' \ Visible # {}
        BY <1>7, <3>2
      <3>5. RowLog(m)'
        BY <1>8, <1>11, <3>1, <3>2, <3>3 DEF RowLog
      <3>6. Moves(m) /\ Logged(m)
        BY <3>1, <3>4 DEF Moves, Logged
      <3>. QED
        BY <3>5, <3>6
    <2>. QED
      BY <1>3, <2>1, <2>2, <2>3
  <1>13. \A t \in Seqs' : log'[t].kind = "stored" => log'[t].approval = "none"
    BY <1>7, <1>8 DEF HistInv
  <1>14. ASSUME NEW d \in Clients, tx'[d].at = "staged"
         PROVE  /\ log'[tx'[d].seq].mem = tx'[d].mem
                /\ log'[tx'[d].seq].kind = IF tx'[d].op = "add" THEN "stored" ELSE "invalidated"
    <2>1. tx'[c] = NoTx /\ \A e \in Clients \ {c} : tx'[e] = tx[e]
      BY <1>1 DEF GovInv, TxInv
    <2>2. d # c /\ tx'[d] = tx[d] /\ tx[d].at = "staged"
      BY <1>14, <2>1 DEF NoTx
    <2>3. tx[d].seq \in Seqs
      BY <2>2 DEF GovInv, TxInv, Staged
    <2>. QED
      BY <1>7, <2>2, <2>3 DEF HistInv, Grows
  <1>15. \A n \in Mems : RowLog(n)' /\ Moves(n) /\ Logged(n)
    BY <1>10, <1>12
  <1>. QED
    BY <1>13, <1>14, <1>15 DEF HistInv

LEMMA NextHist ==
    ASSUME GovInv, HistInv, [MemoryNext]_vars
    PROVE  HistInv' /\ \A m \in Mems : Moves(m) /\ (Logged(m) \/ CloseUnlogged(m))
  <1>0. ASSUME UNCHANGED <<row, log, tx>> PROVE HistInv' /\ \A m \in Mems : Moves(m) /\ Logged(m)
    <2>1. Grows /\ Visible' = Visible /\ Seqs' = Seqs
      BY <1>0, SameGrows, SameLog DEF GovInv
    <2>. QED
      BY <1>0, <2>1, HistSame, StillMoves
  <1>1. ASSUME NEW c \in Clients, NEW m \in Mems, Add(c, m)
        PROVE  HistInv' /\ \A n \in Mems : Moves(n) /\ Logged(n)
    <2>. DEFINE call == [op |-> "add", at |-> "staged", mem |-> m, approval |-> "none",
                         seq |-> Len(log')]
    <2>1. Stage("stored", m, "none") /\ tx' = [tx EXCEPT ![c] = call] /\ row' = row
      BY <1>1 DEF Add
    <2>2. call.mem = m /\ call.seq = Len(log') /\ call.op = "add"
      OBVIOUS
    <2>. HIDE DEF call
    <2>3. "stored" = (IF call.op = "add" THEN "stored" ELSE "invalidated")
      BY <2>2
    <2>4. HistInv'
      BY <2>1, <2>2, <2>3, HistStages
    <2>. QED
      BY <2>1, <2>4, StillMoves
  <1>2. ASSUME NEW c \in Clients, NEW m \in Mems, Invalidate(c, m)
        PROVE  HistInv' /\ \A n \in Mems : Moves(n) /\ Logged(n)
    <2>. DEFINE call == [op |-> "invalidate", at |-> "staged", mem |-> m, approval |-> "none",
                         seq |-> Len(log')]
    <2>1. Stage("invalidated", m, "none") /\ tx' = [tx EXCEPT ![c] = call] /\ row' = row
      BY <1>2 DEF Invalidate
    <2>2. call.mem = m /\ call.seq = Len(log') /\ call.op = "invalidate"
      OBVIOUS
    <2>. HIDE DEF call
    <2>3. "invalidated" = (IF call.op = "add" THEN "stored" ELSE "invalidated")
      BY <2>2
    <2>4. HistInv'
      BY <2>1, <2>2, <2>3, HistStages
    <2>. QED
      BY <2>1, <2>4, StillMoves
  <1>3. ASSUME NEW c \in Clients, NEW m \in Mems, NEW a \in Approvals, ForgetGates(c, m, a)
        PROVE  HistInv' /\ \A n \in Mems : Moves(n) /\ Logged(n)
    <2>. DEFINE call == [op |-> "forget", at |-> "gated", mem |-> m, approval |-> a, seq |-> 0]
    <2>1. tx' = [tx EXCEPT ![c] = call] /\ UNCHANGED <<row, log>> /\ call.at = "gated"
      BY <1>3 DEF ForgetGates
    <2>. HIDE DEF call
    <2>2. \A d \in Clients : tx'[d].at = "staged" => tx'[d] = tx[d]
      BY <2>1 DEF GovInv, TxInv
    <2>3. Grows /\ Visible' = Visible /\ Seqs' = Seqs
      BY <2>1, SameGrows, SameLog DEF GovInv
    <2>. QED
      BY <2>1, <2>2, <2>3, HistSame, StillMoves
  <1>4. ASSUME NEW c \in Clients, ForgetRedact(c)
        PROVE  HistInv' /\ \A n \in Mems : Moves(n) /\ Logged(n)
    <2>0. tx[c] \in Call /\ tx[c].at = "gated" /\ Sound(c) /\ tx[c].op = "forget"
      BY <1>4 DEF ForgetRedact, GovInv, TxInv, Sound
    <2>1. CASE row[tx[c].mem].text = "redacted"
      <3>1. tx' = [tx EXCEPT ![c] = NoTx] /\ UNCHANGED <<row, log>>
        BY <1>4, <2>1 DEF ForgetRedact
      <3>2. \A d \in Clients : tx'[d].at = "staged" => tx'[d] = tx[d]
        BY <3>1 DEF GovInv, TxInv, NoTx
      <3>3. Grows /\ Visible' = Visible /\ Seqs' = Seqs
        BY <3>1, SameGrows, SameLog DEF GovInv
      <3>. QED
        BY <3>1, <3>2, <3>3, HistSame, StillMoves
    <2>2. CASE row[tx[c].mem].text # "redacted"
      <3>. DEFINE call == [tx[c] EXCEPT !.at = "staged", !.seq = Len(log')]
                  m == tx[c].mem
                  a == tx[c].approval
      <3>1. Stage("invalidated", m, a) /\ tx' = [tx EXCEPT ![c] = call] /\ row' = row
        BY <1>4, <2>2 DEF ForgetRedact
      <3>2. m \in Mems /\ a \in Approvals \cup {"none"}
        BY <2>0 DEF Sound
      <3>3. call.mem = m /\ call.seq = Len(log') /\ call.op = "forget"
        BY <2>0 DEF Call
      <3>. HIDE DEF call, m, a
      <3>4. "invalidated" = (IF call.op = "add" THEN "stored" ELSE "invalidated")
        BY <3>3
      <3>5. HistInv'
        BY <3>1, <3>2, <3>3, <3>4, HistStages
      <3>. QED
        BY <3>1, <3>5, StillMoves
    <2>. QED
      BY <2>1, <2>2
  <1>5. ASSUME NEW c \in Clients, Abort(c)
        PROVE  HistInv' /\ \A n \in Mems : Moves(n) /\ Logged(n)
    <2>1. tx' = [tx EXCEPT ![c] = NoTx] /\ row' = row
      BY <1>5 DEF Abort
    <2>2. \A d \in Clients : tx'[d].at = "staged" => tx'[d] = tx[d]
      BY <2>1 DEF GovInv, TxInv, NoTx
    <2>3. Grows /\ Visible' = Visible /\ Seqs' = Seqs
      <3>1. CASE tx[c].at = "staged"
        <4>1. log' = [log EXCEPT ![tx[c].seq].state = "aborted"]
          BY <1>5, <3>1 DEF Abort
        <4>2. tx[c].seq \in Seqs /\ log[tx[c].seq].state = "open"
          BY <3>1 DEF GovInv, TxInv, Staged
        <4>. QED
          BY <4>1, <4>2, SettleGrows DEF GovInv
      <3>2. CASE tx[c].at # "staged"
        <4>1. log' = log
          BY <1>5, <3>2 DEF Abort
        <4>. QED
          BY <4>1, SameGrows, SameLog DEF GovInv
      <3>. QED
        BY <3>1, <3>2
    <2>. QED
      BY <2>1, <2>2, <2>3, HistSame, StillMoves
  <1>6. ASSUME NEW m \in Mems, CloseUnlogged(m)
        PROVE  HistInv' /\ \A n \in Mems : Moves(n) /\ (Logged(n) \/ CloseUnlogged(n))
    <2>1. row[m].open /\ row' = [row EXCEPT ![m].open = FALSE] /\ UNCHANGED <<log, tx>>
      BY <1>6 DEF CloseUnlogged
    <2>2. row[m] \in Row /\ row[m].text = "said"
      BY <2>1 DEF GovInv, RowInv
    <2>3. row'[m].text = "said" /\ ~row'[m].open /\ \A n \in Mems \ {m} : row'[n] = row[n]
      BY <2>1, <2>2 DEF GovInv, RowInv, Row
    <2>4. Visible' = Visible /\ Seqs' = Seqs /\ \A n : EventsOf(n)' = EventsOf(n) /\ Closing(n)' = Closing(n)
      BY <2>1 DEF Visible, Seqs, EventsOf, Closing
    <2>5. \A n \in Mems : RowLog(n)'
      BY <2>1, <2>2, <2>3, <2>4 DEF HistInv, RowLog
    <2>6. HistInv'
      BY <2>1, <2>4, <2>5 DEF HistInv
    <2>7. \A n \in Mems : Moves(n)
      BY <2>2, <2>3 DEF Moves
    <2>8. \A n \in Mems \ {m} : Logged(n)
      BY <2>3 DEF Logged
    <2>. QED
      BY <1>6, <2>6, <2>7, <2>8
  <1>7. CASE Governance
    <2>1. ASSUME NEW a \in Approvals, ApprovalExpires(a) PROVE UNCHANGED <<row, log, tx>>
      BY <2>1 DEF ApprovalExpires
    <2>. QED
      BY <1>0, <1>1, <1>2, <1>3, <1>4, <1>5, <1>6, <1>7, <2>1, HistCommit DEF Governance
  <1>8. CASE ~Governance
    <2>1. UNCHANGED <<row, log, tx>>
      BY <1>8, ReadSideOnly
    <2>. QED
      BY <1>0, <2>1
  <1>. QED
    BY <1>7, <1>8

-------------------------------------------------------------------------------
(* The read model, event by event.                                          *)

\* Whether Redis holds m's statement once ops have been applied to cur.
Touches(op, m) == op[1] = "flush" \/ op[2] = m
Kept(cur, ops, m) ==
    IF \E i \in DOMAIN ops : Touches(ops[i], m)
    THEN \E i \in DOMAIN ops : /\ ops[i] = <<"hset", m>>
                               /\ \A j \in DOMAIN ops : j > i => ~Touches(ops[j], m)
    ELSE m \in cur

LEMMA KeptNone == \A cur, m : Kept(cur, <<>>, m) <=> m \in cur
  BY DEF Kept

LEMMA KeptFlushed ==
    ASSUME NEW ops, NEW m, NEW cur, NEW next, \E i \in DOMAIN ops : ops[i][1] = "flush"
    PROVE  Kept(cur, ops, m) <=> Kept(next, ops, m)
  BY DEF Kept, Touches

LEMMA KeptAppended ==
    ASSUME NEW ops \in Seq(Ops), NEW cur, NEW m \in Mems, NEW n \in Mems, NEW k \in {"hset", "hdel"}
    PROVE  /\ Kept(cur, ops \o <<<<k, n>>>>, n) <=> k = "hset"
           /\ m # n => (Kept(cur, ops \o <<<<k, n>>>>, m) <=> Kept(cur, ops, m))
  <1>. DEFINE more == ops \o <<<<k, n>>>>
  <1>1. /\ Len(ops) \in Nat /\ DOMAIN ops = 1..Len(ops) /\ DOMAIN more = 1..(Len(ops) + 1)
        /\ \A i \in 1..Len(ops) : more[i] = ops[i]
        /\ more[Len(ops) + 1] = <<k, n>>
    OBVIOUS
  <1>. HIDE DEF more
  <1>2. Touches(<<k, n>>, n) /\ (m # n => ~Touches(<<k, n>>, m))
    BY DEF Touches
  <1>3. Kept(cur, more, n) <=> k = "hset"
    <2>1. \A i \in DOMAIN more : i # Len(ops) + 1 => Len(ops) + 1 > i
      BY <1>1
    <2>2. <<k, n>> = <<"hset", n>> <=> k = "hset"
      OBVIOUS
    <2>3. \A j \in DOMAIN more : ~(j > Len(ops) + 1)
      BY <1>1
    <2>. QED
      BY <1>1, <1>2, <2>1, <2>2, <2>3 DEF Kept
  <1>4. ASSUME m # n PROVE Kept(cur, more, m) <=> Kept(cur, ops, m)
    <2>1. (\E i \in DOMAIN more : Touches(more[i], m)) <=> (\E i \in DOMAIN ops : Touches(ops[i], m))
      BY <1>1, <1>2, <1>4
    <2>2. <<k, n>> # <<"hset", m>>
      BY <1>4
    <2>3. \A i \in 1..Len(ops) :
            (\A j \in DOMAIN more : j > i => ~Touches(more[j], m))
                <=> (\A j \in DOMAIN ops : j > i => ~Touches(ops[j], m))
      BY <1>1, <1>2, <1>4
    <2>4. \A i \in DOMAIN more : more[i] = <<"hset", m>> => i \in 1..Len(ops)
      BY <1>1, <2>2
    <2>5. (\E i \in DOMAIN more : /\ more[i] = <<"hset", m>>
                                   /\ \A j \in DOMAIN more : j > i => ~Touches(more[j], m))
            <=> (\E i \in DOMAIN ops : /\ ops[i] = <<"hset", m>>
                                       /\ \A j \in DOMAIN ops : j > i => ~Touches(ops[j], m))
      <3>1. \A i \in 1..Len(ops) : i \in DOMAIN more /\ i \in DOMAIN ops /\ more[i] = ops[i]
        BY <1>1
      <3>2. DOMAIN ops = 1..Len(ops)
        OBVIOUS
      <3>. QED
        BY <2>3, <2>4, <3>1, <3>2
    <2>. QED
      BY <2>1, <2>5 DEF Kept
  <1>. QED
    BY <1>3, <1>4 DEF more

LEMMA KeptNow ==
    ASSUME NEW ops \in Seq(Ops), NEW cur, NEW m \in Mems
    PROVE  Kept(cur, ops \o <<<<"hset", m>>>>, m) /\ ~Kept(cur, ops \o <<<<"hdel", m>>>>, m)
  <1>1. "hset" \in {"hset", "hdel"} /\ "hdel" \in {"hset", "hdel"} /\ "hdel" # "hset"
    OBVIOUS
  <1>2. PICK k : k = "hset"
    OBVIOUS
  <1>3. PICK j : j = "hdel"
    OBVIOUS
  <1>4. Kept(cur, ops \o <<<<k, m>>>>, m) <=> k = "hset"
    BY <1>1, <1>2, KeptAppended
  <1>5. Kept(cur, ops \o <<<<j, m>>>>, m) <=> j = "hset"
    BY <1>1, <1>3, KeptAppended
  <1>. QED
    BY <1>2, <1>3, <1>4, <1>5

LEMMA KeptTail ==
    ASSUME NEW ops \in Seq(Ops), ops # <<>>, NEW cur, NEW next, NEW m \in Mems,
           Head(ops)[1] = "flush" => next = {},
           Head(ops)[1] = "hset" => next = cur \cup {Head(ops)[2]},
           Head(ops)[1] = "hdel" => next = cur \ {Head(ops)[2]}
    PROVE  Kept(next, Tail(ops), m) <=> Kept(cur, ops, m)
  <1>. DEFINE n == Len(ops) - 1
  <1>1. /\ n \in Nat /\ DOMAIN ops = 1..(n + 1) /\ DOMAIN Tail(ops) = 1..n
        /\ \A i \in 1..n : Tail(ops)[i] = ops[i + 1]
        /\ Head(ops) = ops[1] /\ ops[1] \in Ops
    OBVIOUS
  <1>. HIDE DEF n
  <1>2. PICK rest : /\ rest = Tail(ops) /\ DOMAIN rest = 1..n
                    /\ \A i \in 1..n : rest[i] = ops[i + 1]
    BY <1>1
  <1>3. ops[1][1] \in {"flush", "hset", "hdel"} /\ ops[1] = <<ops[1][1], ops[1][2]>>
    BY <1>1 DEF Ops
  <1>4. \A i \in 1..n : i + 1 \in DOMAIN ops
    BY <1>1
  <1>5. \A i \in DOMAIN ops : i = 1 \/ (i - 1 \in 1..n /\ ops[i] = rest[i - 1])
    <2>. SUFFICES ASSUME NEW i \in DOMAIN ops, i # 1 PROVE i - 1 \in 1..n /\ ops[i] = rest[i - 1]
      OBVIOUS
    <2>1. i - 1 \in 1..n /\ (i - 1) + 1 = i
      BY <1>1
    <2>. QED
      BY <1>2, <2>1
  <1>6. CASE \E i \in 1..n : Touches(rest[i], m)
    <2>1. \A i \in 1..n : (\A j \in 1..n : j > i => ~Touches(rest[j], m))
                            <=> (\A j \in DOMAIN ops : j > i + 1 => ~Touches(ops[j], m))
      <3>. SUFFICES ASSUME NEW i \in 1..n
                    PROVE  (\A j \in 1..n : j > i => ~Touches(rest[j], m))
                            <=> (\A j \in DOMAIN ops : j > i + 1 => ~Touches(ops[j], m))
        OBVIOUS
      <3>1. ASSUME \A j \in 1..n : j > i => ~Touches(rest[j], m), NEW j \in DOMAIN ops, j > i + 1
            PROVE  ~Touches(ops[j], m)
        <4>1. j - 1 \in 1..n /\ j - 1 > i /\ ops[j] = rest[j - 1]
          BY <1>1, <1>5, <3>1
        <4>. QED
          BY <3>1, <4>1
      <3>2. ASSUME \A j \in DOMAIN ops : j > i + 1 => ~Touches(ops[j], m), NEW j \in 1..n, j > i
            PROVE  ~Touches(rest[j], m)
        <4>1. j + 1 \in DOMAIN ops /\ j + 1 > i + 1 /\ rest[j] = ops[j + 1]
          BY <1>1, <1>2, <3>2
        <4>. QED
          BY <3>2, <4>1
      <3>. QED
        BY <3>1, <3>2
    <2>2. \E i \in DOMAIN ops : Touches(ops[i], m)
      BY <1>2, <1>4, <1>6
    <2>3. ASSUME NEW i \in DOMAIN ops, ops[i] = <<"hset", m>>,
                 \A j \in DOMAIN ops : j > i => ~Touches(ops[j], m)
          PROVE  i # 1
      <3>1. PICK k \in 1..n : Touches(rest[k], m)
        BY <1>6
      <3>2. k + 1 \in DOMAIN ops /\ k + 1 > 1 /\ Touches(ops[k + 1], m)
        BY <1>1, <1>2, <3>1
      <3>. QED
        BY <2>3, <3>2
    <2>4. Kept(cur, ops, m) => Kept(next, rest, m)
      <3>. SUFFICES ASSUME Kept(cur, ops, m) PROVE Kept(next, rest, m)
        OBVIOUS
      <3>1. PICK i \in DOMAIN ops : /\ ops[i] = <<"hset", m>>
                                    /\ \A j \in DOMAIN ops : j > i => ~Touches(ops[j], m)
        BY <2>2 DEF Kept
      <3>2. i - 1 \in 1..n /\ (i - 1) + 1 = i /\ rest[i - 1] = <<"hset", m>>
        BY <1>1, <1>5, <2>3, <3>1
      <3>3. \A j \in 1..n : j > i - 1 => ~Touches(rest[j], m)
        BY <2>1, <3>1, <3>2
      <3>. QED
        BY <1>2, <1>6, <3>2, <3>3 DEF Kept
    <2>5. Kept(next, rest, m) => Kept(cur, ops, m)
      <3>. SUFFICES ASSUME Kept(next, rest, m) PROVE Kept(cur, ops, m)
        OBVIOUS
      <3>1. PICK i \in 1..n : /\ rest[i] = <<"hset", m>>
                              /\ \A j \in 1..n : j > i => ~Touches(rest[j], m)
        BY <1>2, <1>6 DEF Kept
      <3>2. i + 1 \in DOMAIN ops /\ ops[i + 1] = <<"hset", m>>
        BY <1>2, <1>4, <3>1
      <3>3. \A j \in DOMAIN ops : j > i + 1 => ~Touches(ops[j], m)
        BY <2>1, <3>1
      <3>. QED
        BY <2>2, <3>2, <3>3 DEF Kept
    <2>. QED
      BY <1>2, <2>4, <2>5
  <1>7. CASE ~\E i \in 1..n : Touches(rest[i], m)
    <2>1. Kept(next, rest, m) <=> m \in next
      BY <1>2, <1>7 DEF Kept
    <2>2. \A j \in DOMAIN ops : j # 1 => ~Touches(ops[j], m)
      BY <1>5, <1>7
    <2>3. CASE Touches(ops[1], m)
      <3>1. Kept(cur, ops, m) <=> ops[1] = <<"hset", m>>
        <4>1. 1 \in DOMAIN ops /\ \A j \in DOMAIN ops : j > 1 => j # 1
          BY <1>1
        <4>2. \A i \in DOMAIN ops : ops[i] = <<"hset", m>> => Touches(ops[i], m)
          BY DEF Touches
        <4>. QED
          BY <2>2, <2>3, <4>1, <4>2 DEF Kept
      <3>2. m \in next <=> ops[1] = <<"hset", m>>
        BY <1>1, <1>3, <2>3 DEF Touches
      <3>. QED
        BY <1>2, <2>1, <3>1, <3>2
    <2>4. CASE ~Touches(ops[1], m)
      <3>1. Kept(cur, ops, m) <=> m \in cur
        BY <2>2, <2>4 DEF Kept
      <3>2. m \in next <=> m \in cur
        BY <1>1, <1>3, <2>4 DEF Touches
      <3>. QED
        BY <1>2, <2>1, <3>1, <3>2
    <2>. QED
      BY <2>3, <2>4
  <1>. QED
    BY <1>6, <1>7

\* What a read model that has seen some of the events vis of a log says of m:
\* kept is whether Redis holds the statement, vec the vector beside the row r.
Agree(r, lg, vis, m, seen, kept, vec) ==
    LET mine == {s \in seen : lg[s].mem = m}
        stored == \E s \in mine : lg[s].kind = "stored"
    IN /\ mine = {} => ~kept
       /\ stored /\ r.open => kept
       /\ ~r.open /\ {s \in vis : lg[s].mem = m /\ lg[s].kind = "invalidated"} \subseteq seen => ~kept
       /\ stored /\ r.text = "said" => vec = "said"
       /\ (\E s \in mine : lg[s].approval # "none") => vec # "said"

\* The read model as a projection would leave it if it committed now, as the
\* operations still owed will leave it, and as it is.
Seen(w) == IF worker[w].replay THEN worker[w].done ELSE covered \cup worker[w].done
VecAfter(w, m) == IF worker[w].vec[m] = "keep" THEN vector[m] ELSE worker[w].vec[m]
PassAgrees(w, m) == Agree(row[m], log, Visible, m, Seen(w), Kept(current, worker[w].ops, m), VecAfter(w, m))
DebtAgrees(w, m) == Agree(row[m], log, Visible, m, covered, Kept(current, worker[w].ops, m), vector[m])
RestAgrees(m) == Agree(row[m], log, Visible, m, covered, m \in current, vector[m])

\* What a call has fetched is what the row was when the events it has seen were
\* visible.
Coming(w) == Min(worker[w].todo)
Fetched(w) ==
    LET s == Coming(w)
        m == log[s].mem
        got == worker[w].got
    IN worker[w].at = "write" =>
       /\ got.text # "none" /\ (got.open => got.text = "said")
       /\ got.text = "redacted" => row[m].text = "redacted"
       /\ row[m].open => got.open
       /\ worker[w].replay \/ m \notin astray =>
            /\ got.open /\ ~row[m].open => ~(Closing(m) \subseteq Seen(w))
            /\ \A e \in Seen(w) \cup {s} : log[e].mem = m /\ log[e].approval # "none" => got.text = "redacted"
Rebuilds(w) ==
    Replaying(w) => /\ \E i \in DOMAIN worker[w].ops : worker[w].ops[i][1] = "flush"
                    /\ \A s \in Found(w) : worker[w].vec[log[s].mem] # "keep"
Agrees(w) == \A m \in Mems : Projecting(w) /\ (worker[w].replay \/ m \notin astray) => PassAgrees(w, m)
\* A memory no accident has touched is projected by one call at a time.
Calm(m) ==
    /\ \A w \in Workers : worker[w].at # "idle" => lock = w
    /\ \A w \in Workers : worker[w].at = "apply" => DebtAgrees(w, m)
    /\ (\A w \in Workers : worker[w].at # "apply") => RestAgrees(m)

SideInv == /\ vector \in [Mems -> {"null", "said", "redacted"}]
           /\ background \in [Mems -> Texts]
ModelInv ==
    /\ SideInv
    /\ \A w \in Workers : Fetched(w) /\ Rebuilds(w) /\ Agrees(w)
    /\ \A m \in Mems : m \notin astray => Calm(m)

LEMMA SeenVisible == ASSUME ReadInv, NEW w \in Workers PROVE Seen(w) \subseteq Visible
  BY DEF ReadInv, Batch, Found, Seen

\* A step of governance keeps the read model where it was with the row.
LEMMA AgreeMoves ==
    ASSUME GovInv, HistInv, Grows, NEW m \in Mems, Moves(m), NEW seen, seen \subseteq Visible,
           NEW kept, NEW vec, Logged(m) \/ \A s \in seen : log[s].mem # m,
           Agree(row[m], log, Visible, m, seen, kept, vec)
    PROVE  Agree(row'[m], log', Visible', m, seen, kept, vec)
  <1>. DEFINE mine == {s \in seen : log[s].mem = m}
              stored == \E s \in mine : log[s].kind = "stored"
              forgot == \E s \in mine : log[s].approval # "none"
              C == {s \in Visible : log[s].mem = m /\ log[s].kind = "invalidated"}
              D == {s \in Visible' : log'[s].mem = m /\ log'[s].kind = "invalidated"}
  <1>1. /\ mine = {} => ~kept
        /\ stored /\ row[m].open => kept
        /\ ~row[m].open /\ C \subseteq seen => ~kept
        /\ stored /\ row[m].text = "said" => vec = "said"
        /\ forgot => vec # "said"
    BY DEF Agree
  <1>2. /\ \A s \in Visible : /\ log'[s].mem = log[s].mem /\ log'[s].kind = log[s].kind
                              /\ log'[s].approval = log[s].approval
        /\ Visible \subseteq Visible'
    BY GrowsKeeps DEF Grows, Visible
  <1>3. /\ {s \in seen : log'[s].mem = m} = mine
        /\ (\E s \in mine : log'[s].kind = "stored") <=> stored
        /\ (\E s \in mine : log'[s].approval # "none") <=> forgot
    BY <1>2
  <1>4. C \subseteq D
    BY <1>2
  <1>5. mine # {} => row[m].text # "none"
    BY DEF HistInv, RowLog, EventsOf
  <1>6. stored /\ row'[m].open => row[m].open
    BY <1>5 DEF Moves
  <1>7. stored /\ row'[m].text = "said" => row[m].text = "said"
    BY <1>5 DEF Moves, GovInv, RowInv, Row, Texts
  <1>8. ~row'[m].open /\ D \subseteq seen => ~kept
    <2>. SUFFICES ASSUME ~row'[m].open, D \subseteq seen, mine # {} PROVE ~kept
      BY <1>1
    <2>1. Logged(m)
      OBVIOUS
    <2>2. D = Closing(m)' /\ D \subseteq Visible
      BY DEF Closing, EventsOf
    <2>3. ~row[m].open
      BY <2>1, <2>2 DEF Logged
    <2>. QED
      BY <1>1, <1>4, <2>3
  <1>. HIDE DEF C, D, mine, stored, forgot
  <1>9. /\ mine = {} => ~kept
        /\ stored /\ row'[m].open => kept
        /\ ~row'[m].open /\ D \subseteq seen => ~kept
        /\ stored /\ row'[m].text = "said" => vec = "said"
        /\ forgot => vec # "said"
    BY <1>1, <1>6, <1>7, <1>8
  <1>. QED
    BY <1>3, <1>9 DEF Agree, D, mine, stored, forgot

\* A vector stored beside it, when it is the row's or no event of m counts yet.
LEMMA AgreeVec ==
    ASSUME GovInv, HistInv, NEW m \in Mems, NEW seen, seen \subseteq Visible,
           NEW kept, NEW vec, NEW next, next = row[m].text \/ \A s \in seen : log[s].mem # m,
           Agree(row[m], log, Visible, m, seen, kept, vec)
    PROVE  Agree(row[m], log, Visible, m, seen, kept, next)
  <1>1. \A s \in seen : log[s].mem = m /\ log[s].approval # "none" => row[m].text = "redacted"
    BY DEF HistInv, RowLog, EventsOf
  <1>. QED
    BY <1>1 DEF Agree

LEMMA InitModel == MemoryInit => HistInv /\ ModelInv
  <1>. SUFFICES ASSUME MemoryInit PROVE HistInv /\ ModelInv
    OBVIOUS
  <1>. DEFINE n == Cardinality(Recorded)
  <1>1. GovInv /\ ReadInv
    BY InitGov, InitRead
  <1>2. /\ n \in Nat /\ Seqs = 1..n /\ Visible = Seqs /\ covered = Seqs
        /\ \A s \in Seqs : /\ log[s].kind = "stored" /\ log[s].approval = "none"
                           /\ log[s].mem \in Recorded
        /\ \A m \in Recorded : \E s \in Seqs : log[s].mem = m
    <2>1. n \in Nat
      BY RecordedListed
    <2>2. log = [i \in 1..n |-> [kind |-> "stored", mem |-> SetToSeq(Recorded)[i],
                                 approval |-> "none", state |-> "visible"]]
      BY DEF MemoryInit
    <2>3. Len(log) = n
      BY <2>1, <2>2
    <2>4. Seqs = 1..n /\ Visible = Seqs /\ covered = Seqs
      BY <2>1, <2>2, <2>3 DEF Seqs, Visible, MemoryInit
    <2>. HIDE DEF n
    <2>5. \A s \in 1..n : log[s].mem = SetToSeq(Recorded)[s] /\ SetToSeq(Recorded)[s] \in Recorded
      BY <2>2, RecordedListed DEF n
    <2>6. \A m \in Recorded : \E s \in 1..n : SetToSeq(Recorded)[s] = m
      BY RecordedListed DEF n
    <2>. QED
      BY <2>1, <2>2, <2>4, <2>5, <2>6
  <1>. HIDE DEF n
  <1>3. \A m \in Mems : /\ m \in Recorded => row[m].text = "said" /\ row[m].open /\ vector[m] = "said"
                        /\ m \notin Recorded => row[m].text = "none" /\ ~row[m].open
                        /\ Closing(m) = {} /\ (EventsOf(m) # {} <=> m \in Recorded)
    <2>. SUFFICES ASSUME NEW m \in Mems
                  PROVE  /\ m \in Recorded => row[m].text = "said" /\ row[m].open /\ vector[m] = "said"
                         /\ m \notin Recorded => row[m].text = "none" /\ ~row[m].open
                         /\ Closing(m) = {} /\ (EventsOf(m) # {} <=> m \in Recorded)
      OBVIOUS
    <2>1. row[m] = (IF m \in Recorded THEN [text |-> "said", open |-> TRUE]
                                      ELSE [text |-> "none", open |-> FALSE])
          /\ vector[m] = (IF m \in Recorded THEN "said" ELSE "null")
      BY DEF MemoryInit
    <2>2. EventsOf(m) = {s \in Seqs : log[s].mem = m}
      BY <1>2 DEF EventsOf
    <2>3. EventsOf(m) # {} <=> m \in Recorded
      BY <1>2, <2>2
    <2>4. Closing(m) = {}
      BY <1>2, <2>2 DEF Closing
    <2>. QED
      BY <2>1, <2>3, <2>4
  <1>4. \A w \in Workers : worker[w].at = "idle"
    BY DEF MemoryInit, Resting
  <1>5. HistInv
    <2>1. \A c \in Clients : tx[c].at # "staged"
      BY DEF MemoryInit, NoTx
    <2>2. ASSUME NEW m \in Mems PROVE RowLog(m)
      <3>1. \A s \in EventsOf(m) : log[s].kind = "stored" /\ log[s].approval = "none"
        BY <1>2 DEF EventsOf
      <3>. QED
        BY <1>3, <3>1 DEF RowLog
    <2>. QED
      BY <1>2, <2>1, <2>2 DEF HistInv
  <1>6. SideInv
    BY DEF MemoryInit, SideInv, Texts
  <1>7. ASSUME NEW m \in Mems PROVE RestAgrees(m)
    <2>1. /\ current = Recorded
          /\ {s \in covered : log[s].mem = m} = EventsOf(m)
      BY <1>2 DEF MemoryInit, EventsOf
    <2>. QED
      BY <1>2, <1>3, <2>1 DEF RestAgrees, Agree
  <1>8. ModelInv
    BY <1>4, <1>6, <1>7 DEF ModelInv, Fetched, Rebuilds, Agrees, Calm, Projecting, Replaying
  <1>. QED
    BY <1>5, <1>8

\* A step of governance: the fetched row stays what it was worth.
LEMMA GovModel ==
    ASSUME GovInv, ReadInv, HistInv, ModelInv, [MemoryNext]_vars,
           UNCHANGED <<worker, lock, vector, mark, current, covered, late>>,
           astray \subseteq astray', background' \in [Mems -> Texts]
    PROVE  ModelInv'
  <1>1. Grows /\ \A m \in Mems : Moves(m) /\ (Logged(m) \/ CloseUnlogged(m))
    BY NextGrows, NextHist
  <1>2. /\ \A s \in Visible : /\ log'[s].mem = log[s].mem /\ log'[s].kind = log[s].kind
                              /\ log'[s].approval = log[s].approval
        /\ Visible \subseteq Visible'
    BY <1>1, GrowsKeeps DEF Grows, Visible
  <1>3. \A m \in Mems : CloseUnlogged(m) => Unlocked(m) /\ m \in astray'
    BY DEF CloseUnlogged
  <1>4. \A w \in Workers : Seen(w)' = Seen(w) /\ Found(w)' = Found(w) /\ worker'[w] = worker[w]
    BY DEF Seen, Found
  <1>5. \A w \in Workers : Seen(w) \subseteq Visible /\ Found(w) \subseteq Visible
    BY SeenVisible DEF ReadInv, Batch
  <1>6. \A w \in Workers : Rebuilds(w)'
    <2>1. \A w \in Workers : Rebuilds(w)
      BY DEF ModelInv
    <2>2. \A w \in Workers : Replaying(w)' <=> Replaying(w)
      BY DEF Replaying, Projecting
    <2>. QED
      BY <1>2, <1>4, <1>5, <2>1, <2>2 DEF Rebuilds
  \* A row a replay has an event of cannot be closed behind the log's back.
  <1>7. ASSUME NEW w \in Workers, Replaying(w), NEW s \in Found(w), NEW m \in Mems, log[s].mem = m
        PROVE  Logged(m)
    <2>1. worker[w].vec[m] # "keep"
      BY <1>7 DEF ModelInv, Rebuilds
    <2>2. ~Unlocked(m)
      BY <2>1 DEF Unlocked, HeldByWorker
    <2>. QED
      BY <1>1, <1>3, <2>2
  <1>8. \A w \in Workers : Agrees(w)'
    <2>. SUFFICES ASSUME NEW w \in Workers, NEW m \in Mems, Projecting(w),
                         worker[w].replay \/ m \notin astray'
                  PROVE  PassAgrees(w, m)'
      BY <1>4 DEF Agrees, Projecting
    <2>1. PassAgrees(w, m)
      BY DEF ModelInv, Agrees
    <2>2. Logged(m) \/ \A s \in Seen(w) : log[s].mem # m
      <3>1. CASE worker[w].replay
        <4>1. Seen(w) \subseteq Found(w) /\ Replaying(w)
          BY <3>1 DEF Seen, Found, Replaying
        <4>. QED
          BY <1>7, <4>1
      <3>2. CASE ~worker[w].replay
        BY <1>1, <1>3, <3>2
      <3>. QED
        BY <3>1, <3>2
    <2>3. Agree(row'[m], log', Visible', m, Seen(w), Kept(current, worker[w].ops, m), VecAfter(w, m))
      BY <1>1, <1>5, <2>1, <2>2, AgreeMoves DEF PassAgrees
    <2>4. VecAfter(w, m)' = VecAfter(w, m)
      BY DEF VecAfter
    <2>. QED
      BY <1>4, <2>3, <2>4 DEF PassAgrees
  <1>9. ASSUME NEW m \in Mems, m \notin astray' PROVE Calm(m)'
    <2>1. Calm(m) /\ Logged(m)
      BY <1>1, <1>3, <1>9 DEF ModelInv
    <2>2. covered \subseteq Visible
      BY DEF ReadInv
    <2>3. ASSUME NEW w \in Workers, DebtAgrees(w, m) PROVE DebtAgrees(w, m)'
      <3>1. Agree(row'[m], log', Visible', m, covered, Kept(current, worker[w].ops, m), vector[m])
        BY <1>1, <2>1, <2>2, <2>3, AgreeMoves DEF DebtAgrees
      <3>. QED
        BY <3>1 DEF DebtAgrees
    <2>4. ASSUME RestAgrees(m) PROVE RestAgrees(m)'
      <3>1. Agree(row'[m], log', Visible', m, covered, m \in current, vector[m])
        BY <1>1, <2>1, <2>2, <2>4, AgreeMoves DEF RestAgrees
      <3>. QED
        BY <3>1 DEF RestAgrees
    <2>. QED
      BY <2>1, <2>3, <2>4 DEF Calm
  <1>10. ASSUME NEW w \in Workers PROVE Fetched(w)'
    <2>. SUFFICES ASSUME worker[w].at = "write" PROVE Fetched(w)'
      BY <1>4 DEF Fetched
    <2>1. PICK s : s = Coming(w)
      OBVIOUS
    <2>2. Coming(w)' = s
      BY <2>1 DEF Coming
    <2>3. s \in Found(w) /\ s \in Visible /\ Projecting(w)
      <3>1. worker[w].todo # {} /\ worker[w].todo \subseteq Nat
        BY DEF ReadInv, Batch, Locals
      <3>. QED
        BY <1>5, <2>1, <3>1, LeastIs DEF Coming, Found, Projecting
    <2>4. PICK m \in Mems : m = log[s].mem /\ m = log'[s].mem
      <3>1. log[s] \in Event
        BY <2>3 DEF GovInv, LogInv, Visible, Seqs
      <3>. QED
        BY <1>2, <2>3, <3>1 DEF Event
    <2>. DEFINE got == worker[w].got
    <2>5. /\ got.text # "none" /\ (got.open => got.text = "said")
          /\ got.text = "redacted" => row[m].text = "redacted"
          /\ row[m].open => got.open
          /\ worker[w].replay \/ m \notin astray =>
               /\ got.open /\ ~row[m].open => ~(Closing(m) \subseteq Seen(w))
               /\ \A e \in Seen(w) \cup {s} : log[e].mem = m /\ log[e].approval # "none" => got.text = "redacted"
      BY <2>1, <2>4 DEF ModelInv, Fetched
    <2>6. row[m].text # "none" /\ Moves(m)
      BY <1>1, <2>3, <2>4 DEF HistInv, RowLog, EventsOf
    <2>7. Closing(m) \subseteq Closing(m)'
      BY <1>2 DEF Closing, EventsOf
    <2>8. ASSUME worker[w].replay \/ m \notin astray', got.open, ~row'[m].open
          PROVE  ~(Closing(m)' \subseteq Seen(w))
      <3>1. Logged(m)
        <4>1. CASE worker[w].replay
          BY <1>7, <2>3, <2>4, <4>1 DEF Replaying
        <4>2. CASE ~worker[w].replay
          BY <1>1, <1>3, <2>8, <4>2
        <4>. QED
          BY <4>1, <4>2
      <3>. QED
        BY <1>5, <2>5, <2>7, <2>8, <3>1 DEF Logged
    <2>9. \A e \in Seen(w) \cup {s} : log'[e].mem = log[e].mem /\ log'[e].approval = log[e].approval
      BY <1>2, <1>5, <2>3
    <2>10. /\ got.text # "none" /\ (got.open => got.text = "said")
           /\ got.text = "redacted" => row'[m].text = "redacted"
           /\ row'[m].open => got.open
           /\ worker[w].replay \/ m \notin astray' =>
                /\ got.open /\ ~row'[m].open => ~(Closing(m)' \subseteq Seen(w))
                /\ \A e \in Seen(w) \cup {s} : log'[e].mem = m /\ log'[e].approval # "none" => got.text = "redacted"
      BY <2>5, <2>6, <2>8, <2>9 DEF Moves
    <2>. QED
      BY <1>4, <2>2, <2>4, <2>10 DEF Fetched
  <1>11. SideInv'
    BY DEF ModelInv, SideInv
  <1>. QED
    BY <1>6, <1>8, <1>9, <1>10, <1>11 DEF ModelInv

\* A call that does not act: a replay answers for itself whatever becomes of the
\* read model, any other pass for the memories it alone projects.
LEMMA OthersKeep ==
    ASSUME GovInv, ReadInv, HistInv, ModelInv, UNCHANGED <<row, log>>,
           NEW v \in Workers, worker'[v] = worker[v],
           \A m \in Mems : m \notin astray' /\ worker[v].at # "idle" /\ ~worker[v].replay =>
                /\ m \notin astray /\ covered' = covered /\ current' = current
                /\ vector'[m] \in {vector[m], row[m].text}
    PROVE  Fetched(v)' /\ Rebuilds(v)' /\ Agrees(v)'
  <1>1. Seqs' = Seqs /\ Visible' = Visible
    BY SameLog
  <1>2. /\ \A m : EventsOf(m)' = EventsOf(m) /\ Closing(m)' = Closing(m)
        /\ Found(v)' = Found(v) /\ Coming(v)' = Coming(v)
        /\ (Projecting(v)' <=> Projecting(v)) /\ (Replaying(v)' <=> Replaying(v))
    BY <1>1 DEF EventsOf, Closing, Found, Coming, Projecting, Replaying
  <1>3. Fetched(v) /\ Rebuilds(v) /\ Agrees(v)
    BY DEF ModelInv
  <1>4. \A m \in Mems : Projecting(v) /\ (worker[v].replay \/ m \notin astray') =>
            /\ worker[v].replay \/ m \notin astray
            /\ Seen(v)' = Seen(v)
            /\ worker[v].replay \/ current' = current
    BY DEF Projecting, Seen
  <1>5. Rebuilds(v)'
    BY <1>2, <1>3 DEF Rebuilds
  <1>6. Fetched(v)'
    <2>. SUFFICES ASSUME worker[v].at = "write" PROVE Fetched(v)'
      BY DEF Fetched
    <2>1. log[Coming(v)].mem \in Mems
      <3>1. Coming(v) \in Visible
        BY LeastIs DEF ReadInv, Batch, Found, Coming, Locals
      <3>. QED
        <4>1. log[Coming(v)] \in Event
          BY <3>1 DEF GovInv, LogInv, Visible, Seqs
        <4>. QED
          BY <4>1 DEF Event
    <2>2. Projecting(v)
      BY DEF Projecting
    <2>3. PICK s : s = Coming(v) /\ s = Coming(v)'
      BY <1>2
    <2>. QED
      BY <1>2, <1>3, <1>4, <2>1, <2>2, <2>3 DEF Fetched
  <1>7. Agrees(v)'
    <2>. SUFFICES ASSUME NEW m \in Mems, Projecting(v), worker[v].replay \/ m \notin astray'
                  PROVE  PassAgrees(v, m)'
      BY <1>2 DEF Agrees
    <2>1. PassAgrees(v, m) /\ Seen(v)' = Seen(v) /\ Seen(v) \subseteq Visible
      BY <1>3, <1>4, SeenVisible DEF Agrees
    <2>2. Kept(current', worker[v].ops, m) <=> Kept(current, worker[v].ops, m)
      <3>1. CASE worker[v].replay
        BY <1>3, <3>1, KeptFlushed DEF Rebuilds, Replaying
      <3>2. CASE ~worker[v].replay
        BY <1>4, <3>2
      <3>. QED
        BY <3>1, <3>2
    <2>3. \/ VecAfter(v, m)' = VecAfter(v, m)
          \/ VecAfter(v, m)' = row[m].text
          \/ \A s \in Seen(v) : log[s].mem # m
      <3>1. CASE worker[v].vec[m] # "keep"
        BY <3>1 DEF VecAfter
      <3>2. CASE worker[v].vec[m] = "keep" /\ worker[v].replay
        <4>1. \A s \in Found(v) : log[s].mem # m
          BY <1>3, <3>2 DEF Rebuilds, Replaying
        <4>. QED
          BY <3>2, <4>1 DEF Seen, Found
      <3>3. CASE worker[v].vec[m] = "keep" /\ ~worker[v].replay
        BY <3>3 DEF VecAfter, Projecting
      <3>. QED
        BY <3>1, <3>2, <3>3
    <2>4. PICK next : next = VecAfter(v, m)'
      OBVIOUS
    <2>5. Agree(row[m], log, Visible, m, Seen(v), Kept(current, worker[v].ops, m), next)
      BY <2>1, <2>3, <2>4, AgreeVec DEF PassAgrees
    <2>6. Agree(row[m], log, Visible, m, Seen(v), Kept(current', worker[v].ops, m), next)
      BY <2>2, <2>5 DEF Agree
    <2>. QED
      BY <1>1, <2>1, <2>4, <2>6 DEF PassAgrees
  <1>. QED
    BY <1>5, <1>6, <1>7

\* The call that acts is the only one at a memory no accident has touched.
LEMMA AloneIs ==
    ASSUME ModelInv, NEW w \in Workers, worker[w].at # "idle", NEW m \in Mems, m \notin astray
    PROVE  /\ lock = w /\ \A v \in Workers \ {w} : worker[v].at = "idle"
           /\ worker[w].at = "apply" => DebtAgrees(w, m)
           /\ worker[w].at # "apply" => RestAgrees(m)
  <1>1. Calm(m)
    BY DEF ModelInv
  <1>2. \A v \in Workers : worker[v].at # "idle" => lock = v
    BY <1>1 DEF Calm
  <1>3. \A v \in Workers \ {w} : worker[v].at = "idle"
    BY <1>2
  <1>. QED
    BY <1>1, <1>2, <1>3 DEF Calm

\* A step of w that leaves the read model alone leaves the others as they were.
LEMMA StepKeeps ==
    ASSUME GovInv, ReadInv, HistInv, ModelInv, NEW w \in Workers, worker[w].at # "idle",
           UNCHANGED <<row, log>>, astray \subseteq astray',
           \A v \in Workers \ {w} : worker'[v] = worker[v]
    PROVE  \A v \in Workers \ {w} : Fetched(v)' /\ Rebuilds(v)' /\ Agrees(v)'
  <1>. SUFFICES ASSUME NEW v \in Workers \ {w} PROVE Fetched(v)' /\ Rebuilds(v)' /\ Agrees(v)'
    OBVIOUS
  <1>1. \A m \in Mems : m \notin astray' => worker[v].at = "idle"
    BY AloneIs
  <1>. QED
    BY <1>1, OthersKeep

\* A call that is not in a pass has nothing to answer for but what it owes.
LEMMA RestingPrimed ==
    ASSUME NEW w \in Workers, worker'[w].at \notin {"fetch", "write", "commit"}
    PROVE  Fetched(w)' /\ Rebuilds(w)' /\ Agrees(w)'
  BY DEF Fetched, Rebuilds, Agrees, Replaying, Projecting

\* The read model of m, while the rows and the log stand still.
LEMMA RestSame ==
    ASSUME UNCHANGED <<row, log, covered, current>>, NEW m, vector'[m] = vector[m], RestAgrees(m)
    PROVE  RestAgrees(m)'
  <1>1. Visible' = Visible
    BY SameLog
  <1>. QED
    BY <1>1 DEF RestAgrees

LEMMA AcquireModel ==
    ASSUME GovInv, ReadInv, HistInv, ModelInv, NEW w \in Workers, Acquire(w)
    PROVE  ModelInv'
  <1>1. PICK again \in BOOLEAN :
          worker' = [worker EXCEPT ![w] = [Resting EXCEPT !.at = "read", !.replay = again]]
    BY DEF Acquire
  <1>2. PICK l \in Locals : /\ l = [Resting EXCEPT !.at = "read", !.replay = again]
                            /\ l.at = "read"
    BY RestingIs DEF Places
  <1>3. worker'[w] = l /\ \A v \in Workers \ {w} : worker'[v] = worker[v]
    BY <1>1, <1>2, WorkerIs
  <1>4. /\ worker[w].at = "idle" /\ lock = "none" /\ lock' = w
        /\ UNCHANGED <<row, log, vector, mark, current, background, covered, late, astray>>
    BY DEF Acquire, govVars, readVars, historyVars
  <1>5. \A v \in Workers \ {w} : Fetched(v)' /\ Rebuilds(v)' /\ Agrees(v)'
    BY <1>3, <1>4, OthersKeep
  <1>6. Fetched(w)' /\ Rebuilds(w)' /\ Agrees(w)'
    BY <1>2, <1>3, RestingPrimed
  <1>7. ASSUME NEW m \in Mems, m \notin astray' PROVE Calm(m)'
    <2>1. Calm(m)
      BY <1>4, <1>7 DEF ModelInv
    <2>2. \A v \in Workers : worker[v].at = "idle"
      BY <1>4, <2>1, MemoryAssumption DEF Calm, MemoryAssumption
    <2>3. RestAgrees(m)'
      BY <1>4, <2>1, <2>2, RestSame DEF Calm
    <2>4. \A v \in Workers : (worker'[v].at # "idle" => v = w) /\ worker'[v].at # "apply"
      BY <1>2, <1>3, <2>2
    <2>. QED
      BY <1>4, <2>3, <2>4 DEF Calm
  <1>8. SideInv'
    BY <1>4 DEF ModelInv, SideInv
  <1>. QED
    BY <1>5, <1>6, <1>7, <1>8 DEF ModelInv

\* A step of w out of its pass, and what a memory it alone projects is left with.
LEMMA LeavesModel ==
    ASSUME GovInv, ReadInv, HistInv, ModelInv, NEW w \in Workers, worker[w].at # "idle",
           NEW l \in Locals, worker' = [worker EXCEPT ![w] = l],
           l.at \in {"idle", "release", "failed"}, UNCHANGED <<row, log, readVars, background, covered>>,
           astray \subseteq astray', lock' = lock \/ l.at = "idle",
           worker[w].at = "apply" =>
                \A m \in Mems \ astray' : Kept(current, worker[w].ops, m) <=> m \in current
    PROVE  ModelInv'
  <1>1. worker'[w] = l /\ \A v \in Workers \ {w} : worker'[v] = worker[v]
    BY WorkerIs
  <1>2. UNCHANGED <<vector, mark, current>>
    BY DEF readVars
  <1>3. \A v \in Workers \ {w} : Fetched(v)' /\ Rebuilds(v)' /\ Agrees(v)'
    BY <1>1, StepKeeps
  <1>4. Fetched(w)' /\ Rebuilds(w)' /\ Agrees(w)'
    BY <1>1, RestingPrimed
  <1>5. ASSUME NEW m \in Mems, m \notin astray' PROVE Calm(m)'
    <2>1. /\ lock = w /\ \A v \in Workers \ {w} : worker[v].at = "idle"
          /\ worker[w].at = "apply" => DebtAgrees(w, m)
          /\ worker[w].at # "apply" => RestAgrees(m)
      BY <1>5, AloneIs
    <2>2. RestAgrees(m)
      <3>1. CASE worker[w].at = "apply"
        <4>1. Kept(current, worker[w].ops, m) <=> m \in current
          BY <1>5, <3>1
        <4>. QED
          BY <2>1, <3>1, <4>1 DEF DebtAgrees, RestAgrees, Agree
      <3>. QED
        BY <2>1, <3>1
    <2>3. RestAgrees(m)'
      BY <1>2, <2>2, RestSame
    <2>4. \A v \in Workers : worker'[v].at # "idle" => lock' = v
      BY <1>1, <2>1
    <2>5. \A v \in Workers : worker'[v].at # "apply"
      BY <1>1, <2>1
    <2>. QED
      BY <2>3, <2>4, <2>5 DEF Calm
  <1>6. SideInv'
    BY <1>2 DEF ModelInv, SideInv
  <1>. QED
    BY <1>3, <1>4, <1>5, <1>6 DEF ModelInv

LEMMA FallsModel ==
    ASSUME GovInv, ReadInv, HistInv, ModelInv, NEW w \in Workers,
           NEW place \in {"failed", "idle"}, Falls(w, place)
    PROVE  ModelInv'
  <1>1. PICK l \in Locals : l = [Resting EXCEPT !.at = place] /\ l.at = place
    <2>1. place \in Places
      BY DEF Places
    <2>. QED
      BY <2>1, RestingIs
  <1>2. /\ worker' = [worker EXCEPT ![w] = l] /\ worker[w].at # "idle" /\ lock' = lock
        /\ UNCHANGED <<row, log, readVars, background, covered>>
        /\ astray' = astray \cup OwedNow(w)
    BY <1>1 DEF Falls, govVars
  <1>3. ASSUME worker[w].at = "apply", NEW m \in Mems \ astray'
        PROVE  Kept(current, worker[w].ops, m) <=> m \in current
    <2>1. m \notin OwedNow(w)
      BY <1>2, <1>3
    <2>2. ~\E i \in DOMAIN worker[w].ops : worker[w].ops[i][1] = "flush"
      BY <1>3, <2>1 DEF OwedNow
    <2>3. m \notin Owed(w)
      BY <1>3, <2>1, <2>2 DEF OwedNow
    <2>4. m # "none"
      BY MemoryAssumption DEF MemoryAssumption
    <2>5. \A i \in DOMAIN worker[w].ops : worker[w].ops[i][2] # m
      BY <2>3, <2>4 DEF Owed
    <2>. QED
      BY <2>2, <2>5 DEF Kept, Touches
  <1>. QED
    BY <1>1, <1>2, <1>3, LeavesModel

LEMMA ReleaseModel ==
    ASSUME GovInv, ReadInv, HistInv, ModelInv, NEW w \in Workers, ReleaseCheck(w) \/ ReleaseDelete(w)
    PROVE  ModelInv'
  <1>1. CASE ReleaseCheck(w)
    <2>1. PICK place \in {"release", "idle"} : worker' = [worker EXCEPT ![w] = [Resting EXCEPT !.at = place]]
      BY <1>1 DEF ReleaseCheck
    <2>2. PICK l \in Locals : l = [Resting EXCEPT !.at = place] /\ l.at = place
      <3>1. place \in Places
        BY DEF Places
      <3>. QED
        BY <3>1, RestingIs
    <2>3. /\ worker' = [worker EXCEPT ![w] = l] /\ worker[w].at # "idle" /\ lock' = lock
          /\ UNCHANGED <<row, log, readVars, background, covered, astray>>
          /\ worker[w].at = "apply" => worker[w].ops = <<>>
      BY <1>1, <2>1, <2>2 DEF ReleaseCheck, govVars, historyVars
    <2>4. worker[w].at = "apply" =>
            \A m \in Mems \ astray' : Kept(current, worker[w].ops, m) <=> m \in current
      BY <2>3, KeptNone
    <2>. QED
      BY <2>2, <2>3, <2>4, LeavesModel
  <1>2. CASE ReleaseDelete(w)
    <2>1. Resting \in Locals /\ Resting.at = "idle"
      BY RestingIs DEF Resting
    <2>2. /\ worker' = [worker EXCEPT ![w] = Resting] /\ worker[w].at = "release"
          /\ UNCHANGED <<row, log, readVars, background, covered, astray>>
      BY <1>2 DEF ReleaseDelete, govVars, historyVars
    <2>. QED
      BY <2>1, <2>2, LeavesModel
  <1>. QED
    BY <1>1, <1>2

LEMMA ExpireModel ==
    ASSUME GovInv, ReadInv, HistInv, ModelInv, LockExpires
    PROVE  ModelInv'
  <1>1. /\ lock # "none" /\ lock' = "none"
        /\ Working(lock) => astray' = Mems
        /\ ~Working(lock) => astray' = astray
        /\ UNCHANGED <<row, log, worker, vector, current, background, covered>>
    BY DEF LockExpires, govVars, readVars
  <1>2. \A v \in Workers : Fetched(v)' /\ Rebuilds(v)' /\ Agrees(v)'
    BY <1>1, OthersKeep
  <1>3. ASSUME NEW m \in Mems, m \notin astray' PROVE Calm(m)'
    <2>1. ~Working(lock) /\ Calm(m)
      BY <1>1, <1>3 DEF ModelInv
    <2>2. \A v \in Workers : worker[v].at = "idle"
      BY <2>1 DEF Calm, Working
    <2>3. RestAgrees(m)'
      BY <1>1, <2>1, <2>2, RestSame DEF Calm
    <2>. QED
      BY <1>1, <2>2, <2>3 DEF Calm
  <1>4. SideInv'
    BY <1>1 DEF ModelInv, SideInv
  <1>. QED
    BY <1>2, <1>3, <1>4 DEF ModelInv

LEMMA StoreModel ==
    ASSUME GovInv, ReadInv, HistInv, ModelInv, NEW n \in Mems, StoreBackground(n)
    PROVE  ModelInv'
  <1>1. /\ background[n] # "none" /\ vector' = [vector EXCEPT ![n] = background[n]]
        /\ background' = [background EXCEPT ![n] = "none"]
        /\ astray' = (IF row[n].text # background[n] THEN astray \cup {n} ELSE astray)
        /\ UNCHANGED <<row, log, lock, worker, current, covered>>
    BY DEF StoreBackground, govVars
  <1>2. SideInv'
    BY <1>1 DEF ModelInv, SideInv, Texts
  <1>3. /\ vector'[n] = background[n] /\ \A m \in Mems \ {n} : vector'[m] = vector[m]
        /\ astray \subseteq astray'
        /\ \A m \in Mems : m \notin astray' => vector'[m] \in {vector[m], row[m].text}
    BY <1>1 DEF ModelInv, SideInv
  <1>4. \A v \in Workers : Fetched(v)' /\ Rebuilds(v)' /\ Agrees(v)'
    BY <1>1, <1>3, OthersKeep
  <1>5. ASSUME NEW m \in Mems, m \notin astray' PROVE Calm(m)'
    <2>1. Calm(m)
      BY <1>3, <1>5 DEF ModelInv
    <2>2. Visible' = Visible /\ covered \subseteq Visible
      BY <1>1, SameLog DEF ReadInv
    <2>3. PICK next : next = vector'[m]
      OBVIOUS
    <2>4. next = vector[m] \/ next = row[m].text
      BY <1>3, <1>5, <2>3
    <2>5. ASSUME NEW w \in Workers, DebtAgrees(w, m) PROVE DebtAgrees(w, m)'
      <3>1. Agree(row[m], log, Visible, m, covered, Kept(current, worker[w].ops, m), next)
        BY <2>2, <2>4, <2>5, AgreeVec DEF DebtAgrees
      <3>. QED
        BY <1>1, <2>2, <2>3, <3>1 DEF DebtAgrees
    <2>6. ASSUME RestAgrees(m) PROVE RestAgrees(m)'
      <3>1. Agree(row[m], log, Visible, m, covered, m \in current, next)
        BY <2>2, <2>4, <2>6, AgreeVec DEF RestAgrees
      <3>. QED
        BY <1>1, <2>2, <2>3, <3>1 DEF RestAgrees
    <2>. QED
      BY <1>1, <2>1, <2>5, <2>6 DEF Calm
  <1>. QED
    BY <1>2, <1>4, <1>5 DEF ModelInv

LEMMA ApplyModel ==
    ASSUME GovInv, ReadInv, HistInv, ModelInv, NEW w \in Workers, ApplyOp(w)
    PROVE  ModelInv'
  <1>1. /\ worker[w].at = "apply" /\ worker[w].ops # <<>> /\ worker[w] \in Locals
        /\ current' = CASE Head(worker[w].ops)[1] = "flush" -> {}
                        [] Head(worker[w].ops)[1] = "hset" -> current \cup {Head(worker[w].ops)[2]}
                        [] Head(worker[w].ops)[1] = "hdel" -> current \ {Head(worker[w].ops)[2]}
        /\ UNCHANGED <<row, log, lock, vector, background, covered, astray>>
    BY DEF ApplyOp, govVars, historyVars, ReadInv
  <1>2. worker[w].ops \in Seq(Ops) /\ Tail(worker[w].ops) \in Seq(Ops)
    BY <1>1 DEF Locals
  <1>3. PICK l \in Locals : /\ l = [worker[w] EXCEPT !.ops = Tail(@)]
                            /\ l.at = "apply" /\ l.ops = Tail(worker[w].ops)
    <2>1. [worker[w] EXCEPT !.ops = Tail(@)] \in Locals
      BY <1>1, <1>2 DEF Locals
    <2>. QED
      BY <1>1, <2>1 DEF Locals
  <1>4. worker'[w] = l /\ \A v \in Workers \ {w} : worker'[v] = worker[v]
    <2>1. worker' = [worker EXCEPT ![w] = l]
      BY <1>3 DEF ApplyOp
    <2>. QED
      BY <2>1, WorkerIs
  <1>5. \A v \in Workers \ {w} : Fetched(v)' /\ Rebuilds(v)' /\ Agrees(v)'
    BY <1>1, <1>4, StepKeeps
  <1>6. Fetched(w)' /\ Rebuilds(w)' /\ Agrees(w)'
    BY <1>3, <1>4, RestingPrimed
  <1>7. ASSUME NEW m \in Mems, m \notin astray' PROVE Calm(m)'
    <2>1. lock = w /\ DebtAgrees(w, m) /\ \A v \in Workers \ {w} : worker[v].at = "idle"
      BY <1>1, <1>7, AloneIs
    <2>2. PICK next : next = current'
      OBVIOUS
    <2>3. Kept(next, l.ops, m) <=> Kept(current, worker[w].ops, m)
      <3>0. PICK ops, op : ops = worker[w].ops /\ op = Head(ops)
        OBVIOUS
      <3>1. /\ ops \in Seq(Ops) /\ ops # <<>> /\ l.ops = Tail(ops) /\ op \in Ops
            /\ op[1] = "flush" => next = {}
            /\ op[1] = "hset" => next = current \cup {op[2]}
            /\ op[1] = "hdel" => next = current \ {op[2]}
        BY <1>1, <1>2, <1>3, <2>2, <3>0
      <3>2. Kept(next, Tail(ops), m) <=> Kept(current, ops, m)
        BY <3>0, <3>1, KeptTail
      <3>. QED
        BY <3>0, <3>1, <3>2
    <2>4. Agree(row[m], log, Visible, m, covered, Kept(next, l.ops, m), vector[m])
      BY <2>1, <2>3 DEF DebtAgrees, Agree
    <2>5. DebtAgrees(w, m)'
      BY <1>1, <1>4, <2>2, <2>4, SameLog DEF DebtAgrees
    <2>. QED
      BY <1>1, <1>3, <1>4, <2>1, <2>5 DEF Calm
  <1>8. SideInv'
    BY <1>1 DEF ModelInv, SideInv
  <1>. QED
    BY <1>5, <1>6, <1>7, <1>8 DEF ModelInv

\* A step of w inside its pass changes no debt.
LEMMA PassesCalm ==
    ASSUME ModelInv, NEW w \in Workers, worker[w].at \notin {"idle", "apply"},
           UNCHANGED <<row, log, lock, readVars, covered, astray>>,
           worker'[w].at # "apply", \A v \in Workers \ {w} : worker'[v] = worker[v],
           NEW m \in Mems, m \notin astray'
    PROVE  Calm(m)'
  <1>1. /\ lock = w /\ RestAgrees(m) /\ \A v \in Workers \ {w} : worker[v].at = "idle"
    BY AloneIs
  <1>2. RestAgrees(m)'
    BY <1>1, RestSame DEF readVars
  <1>. QED
    BY <1>1, <1>2 DEF Calm

LEMMA ReadModel ==
    ASSUME GovInv, ReadInv, HistInv, ModelInv, NEW w \in Workers, Read(w)
    PROVE  ModelInv'
  <1>0. PICK l \in Locals :
          /\ worker[w] \in Locals /\ worker[w].at = "read"
          /\ worker' = [worker EXCEPT ![w] = l]
          /\ l.todo = {s \in Visible : s > (IF worker[w].replay THEN 0 ELSE mark)}
          /\ l.at = (IF l.todo = {} THEN "commit" ELSE "fetch")
          /\ l.done = {} /\ l.replay = worker[w].replay
          /\ l.vec = [m \in Mems |->
                        IF worker[w].replay /\ row[m].text # "none" THEN "null" ELSE "keep"]
          /\ l.ops = (IF worker[w].replay THEN <<<<"flush", "none">>>> ELSE <<>>)
          /\ UNCHANGED <<govVars, lock, readVars, background, historyVars, accidents>>
    BY ReadEffect
  <1>1. worker'[w] = l /\ \A v \in Workers \ {w} : worker'[v] = worker[v]
    BY <1>0, WorkerIs
  <1>2. UNCHANGED <<row, log, lock, vector, current, background, covered, astray>>
    BY <1>0 DEF govVars, readVars, historyVars
  <1>3. \A v \in Workers \ {w} : Fetched(v)' /\ Rebuilds(v)' /\ Agrees(v)'
    BY <1>0, <1>1, <1>2, StepKeeps
  <1>4. \A m \in Mems : m \notin astray' => Calm(m)'
    BY <1>0, <1>1, <1>2, PassesCalm
  <1>5. Fetched(w)'
    BY <1>0, <1>1 DEF Fetched
  <1>6. Rebuilds(w)'
    <2>. SUFFICES ASSUME worker[w].replay PROVE Rebuilds(w)'
      BY <1>0, <1>1 DEF Rebuilds, Replaying
    <2>1. \E i \in DOMAIN l.ops : l.ops[i][1] = "flush"
      <3>1. l.ops = <<<<"flush", "none">>>>
        BY <1>0
      <3>2. 1 \in DOMAIN l.ops /\ l.ops[1][1] = "flush"
        BY <3>1
      <3>. QED
        BY <3>2
    <2>2. ASSUME NEW s \in Found(w)' PROVE l.vec[log'[s].mem] # "keep"
      <3>1. s \in Visible
        BY <1>0, <1>1, <2>2 DEF Found
      <3>2. log[s].mem \in Mems
        <4>1. log[s] \in Event
          BY <3>1 DEF GovInv, LogInv, Visible, Seqs
        <4>. QED
          BY <4>1 DEF Event
      <3>3. row[log[s].mem].text # "none"
        BY <3>1, <3>2 DEF HistInv, RowLog, EventsOf
      <3>. QED
        BY <1>0, <1>2, <3>2, <3>3
    <2>. QED
      BY <1>1, <2>1, <2>2 DEF Rebuilds
  <1>7. Agrees(w)'
    <2>. SUFFICES ASSUME NEW m \in Mems, l.replay \/ m \notin astray PROVE PassAgrees(w, m)'
      BY <1>1, <1>2 DEF Agrees
    <2>1. Visible' = Visible
      BY <1>2, SameLog
    <2>2. CASE l.replay
      <3>1. Seen(w)' = {}
        BY <1>0, <1>1, <2>2 DEF Seen
      <3>2. ~Kept(current, l.ops, m)
        <4>1. l.ops = <<<<"flush", "none">>>>
          BY <1>0, <2>2
        <4>2. DOMAIN l.ops = {1} /\ l.ops[1] = <<"flush", "none">>
          BY <4>1
        <4>3. Touches(l.ops[1], m) /\ l.ops[1] # <<"hset", m>>
          BY <4>2 DEF Touches
        <4>. QED
          BY <4>2, <4>3 DEF Kept
      <3>3. PICK vec : vec = VecAfter(w, m)'
        OBVIOUS
      <3>4. Agree(row[m], log, Visible, m, {}, Kept(current, l.ops, m), vec)
        BY <3>2 DEF Agree
      <3>. QED
        BY <1>1, <1>2, <2>1, <3>1, <3>3, <3>4 DEF PassAgrees
    <2>3. CASE ~l.replay
      <3>1. RestAgrees(m)
        BY <1>0, <2>3, AloneIs
      <3>2. Seen(w)' = covered /\ VecAfter(w, m)' = vector[m] /\ l.ops = <<>>
        BY <1>0, <1>1, <1>2, <2>3 DEF Seen, VecAfter
      <3>3. Kept(current, l.ops, m) <=> m \in current
        BY <3>2, KeptNone
      <3>4. Agree(row[m], log, Visible, m, covered, Kept(current, l.ops, m), vector[m])
        BY <3>1, <3>3 DEF RestAgrees, Agree
      <3>. QED
        BY <1>1, <1>2, <2>1, <3>2, <3>4 DEF PassAgrees
    <2>. QED
      BY <2>2, <2>3
  <1>8. SideInv'
    BY <1>2 DEF ModelInv, SideInv
  <1>. QED
    BY <1>3, <1>4, <1>5, <1>6, <1>7, <1>8 DEF ModelInv

LEMMA FetchModel ==
    ASSUME GovInv, ReadInv, HistInv, ModelInv, NEW w \in Workers, Fetch(w)
    PROVE  ModelInv'
  <1>1. /\ worker[w] \in Locals /\ worker[w].at = "fetch" /\ worker[w].todo # {}
        /\ worker[w].todo \subseteq Visible /\ Projecting(w)
    BY DEF ReadInv, Batch, Found, Fetch, Projecting
  <1>2. PICK s \in Visible : s = Coming(w)
    BY <1>1, LeastIs DEF Coming, Visible, Seqs
  <1>3. PICK m \in Mems : m = log[s].mem
    <2>1. log[s] \in Event
      BY <1>2 DEF GovInv, LogInv, Visible, Seqs
    <2>. QED
      BY <2>1 DEF Event
  <1>4. row[m] \in Row
    BY DEF GovInv, RowInv
  <1>5. PICK l \in Locals : /\ l = [worker[w] EXCEPT !.at = "write", !.got = row[m]]
                            /\ l.at = "write" /\ l.got = row[m] /\ l.todo = worker[w].todo
                            /\ l.done = worker[w].done /\ l.replay = worker[w].replay
                            /\ l.vec = worker[w].vec /\ l.ops = worker[w].ops
    <2>1. [worker[w] EXCEPT !.at = "write", !.got = row[m]] \in Locals
      BY <1>1, <1>4 DEF Locals, Places
    <2>. QED
      BY <1>1, <2>1 DEF Locals
  <1>6. worker'[w] = l /\ \A v \in Workers \ {w} : worker'[v] = worker[v]
    <2>1. worker' = [worker EXCEPT ![w] = l]
      BY <1>2, <1>3, <1>5 DEF Fetch, Coming
    <2>. QED
      BY <2>1, WorkerIs
  <1>7. UNCHANGED <<row, log, lock, readVars, background, covered, astray>>
    BY DEF Fetch, govVars, historyVars
  <1>8. UNCHANGED <<vector, current>>
    BY <1>7 DEF readVars
  <1>9. \A v \in Workers \ {w} : Fetched(v)' /\ Rebuilds(v)' /\ Agrees(v)'
    BY <1>1, <1>6, <1>7, StepKeeps
  <1>10. \A n \in Mems : n \notin astray' => Calm(n)'
    BY <1>1, <1>5, <1>6, <1>7, PassesCalm
  <1>11. /\ Found(w)' = Found(w) /\ Seen(w)' = Seen(w) /\ Coming(w)' = s /\ Visible' = Visible
         /\ Closing(m)' = Closing(m) /\ Projecting(w)'
         /\ \A n \in Mems : VecAfter(w, n)' = VecAfter(w, n)
    BY <1>2, <1>5, <1>6, <1>7, <1>8 DEF Found, Seen, Coming, Visible, Seqs, Closing, EventsOf,
                                        Projecting, VecAfter
  <1>12. Rebuilds(w)'
    BY <1>1, <1>5, <1>6, <1>7, <1>11 DEF ModelInv, Rebuilds, Replaying
  <1>13. Agrees(w)'
    <2>1. \A n \in Mems : PassAgrees(w, n) => PassAgrees(w, n)'
      BY <1>5, <1>6, <1>7, <1>8, <1>11 DEF PassAgrees
    <2>. QED
      BY <1>1, <1>5, <1>6, <1>7, <2>1 DEF ModelInv, Agrees
  <1>14. Fetched(w)'
    <2>1. s \in EventsOf(m) /\ RowLog(m)
      BY <1>2, <1>3 DEF EventsOf, HistInv
    <2>2. row[m].text # "none" /\ (row[m].open => row[m].text = "said")
      BY <2>1 DEF RowLog, GovInv, RowInv
    <2>3. \A e \in Seen(w) \cup {s} : log[e].mem = m /\ log[e].approval # "none" => row[m].text = "redacted"
      BY <1>2, <2>1, SeenVisible DEF RowLog, EventsOf
    <2>. QED
      BY <1>3, <1>5, <1>6, <1>7, <1>11, <2>2, <2>3 DEF Fetched
  <1>15. SideInv'
    BY <1>7, <1>8 DEF ModelInv, SideInv
  <1>. QED
    BY <1>9, <1>10, <1>12, <1>13, <1>14, <1>15 DEF ModelInv

\* One more event of m seen: what the projectors make of it agrees with the row.
LEMMA AgreeWrites ==
    ASSUME GovInv, HistInv, NEW m \in Mems, NEW s \in Visible, log[s].mem = m,
           NEW seen, seen \subseteq Visible, NEW got \in Row, NEW vec,
           NEW ops \in Seq(Ops), NEW cur,
           got.text # "none", got.open => got.text = "said",
           got.text = "redacted" => row[m].text = "redacted", row[m].open => got.open,
           got.open /\ ~row[m].open => ~(Closing(m) \subseteq seen),
           \A e \in seen \cup {s} : log[e].mem = m /\ log[e].approval # "none" => got.text = "redacted",
           Agree(row[m], log, Visible, m, seen, Kept(cur, ops, m), vec)
    PROVE  Agree(row[m], log, Visible, m, seen \cup {s},
                 Kept(cur, ops \o OpsOf(log[s].kind, got, m), m), VectorOf(log[s].kind, got, vec))
  <1>. DEFINE kind == log[s].kind
              kept == Kept(cur, ops, m)
              mine == {e \in seen : log[e].mem = m}
              stored == \E e \in mine : log[e].kind = "stored"
              forgot == \E e \in mine : log[e].approval # "none"
              C == {e \in Visible : log[e].mem = m /\ log[e].kind = "invalidated"}
              next == Kept(cur, ops \o OpsOf(kind, got, m), m)
              nvec == VectorOf(kind, got, vec)
  <1>1. /\ mine = {} => ~kept
        /\ stored /\ row[m].open => kept
        /\ ~row[m].open /\ C \subseteq seen => ~kept
        /\ stored /\ row[m].text = "said" => vec = "said"
        /\ forgot => vec # "said"
    BY DEF Agree
  <1>2. /\ {e \in seen \cup {s} : log[e].mem = m} = mine \cup {s}
        /\ (\E e \in mine \cup {s} : log[e].kind = "stored") <=> (stored \/ kind = "stored")
        /\ (\E e \in mine \cup {s} : log[e].approval # "none") <=> (forgot \/ log[s].approval # "none")
    OBVIOUS
  <1>3. kind \in {"stored", "invalidated"} /\ got.text \in {"said", "redacted"}
    <2>1. log[s] \in Event
      BY DEF GovInv, LogInv, Visible, Seqs
    <2>. QED
      BY <2>1 DEF Event, Row, Texts
  <1>4. /\ C = Closing(m) /\ RowLog(m) /\ s \in EventsOf(m)
        /\ kind = "stored" => log[s].approval = "none"
    BY DEF Closing, EventsOf, HistInv, Visible
  <1>5. kind = "invalidated" => ~row[m].open
    BY <1>4 DEF RowLog, Closing
  <1>9. Kept(cur, ops \o <<<<"hset", m>>>>, m) /\ ~Kept(cur, ops \o <<<<"hdel", m>>>>, m)
    BY KeptNow
  <1>6. CASE kind = "stored" /\ got.text = "said" /\ got.open
    <2>1. next
      <3>1. OpsOf(kind, got, m) = <<<<"hset", m>>>>
        BY <1>6 DEF OpsOf
      <3>2. Kept(cur, ops \o <<<<"hset", m>>>>, m)
        BY <1>9
      <3>. QED
        BY <3>1, <3>2
    <2>2. nvec = "said" /\ ~forgot /\ log[s].approval = "none"
      BY <1>4, <1>6 DEF VectorOf
    <2>3. ~(~row[m].open /\ C \subseteq seen \cup {s})
      <3>1. s \notin C
        BY <1>6
      <3>. QED
        BY <1>4, <1>6, <3>1
    <2>. HIDE DEF next, nvec, kind, stored, forgot, mine, C
    <2>4. /\ mine \cup {s} = {} => ~next
          /\ (stored \/ kind = "stored") /\ row[m].open => next
          /\ ~row[m].open /\ C \subseteq seen \cup {s} => ~next
          /\ (stored \/ kind = "stored") /\ row[m].text = "said" => nvec = "said"
          /\ (forgot \/ log[s].approval # "none") => nvec # "said"
      BY <2>1, <2>2, <2>3
    <2>. QED
      BY <1>2, <2>4 DEF Agree, next, nvec, kind, stored, forgot, mine, C
  <1>7. CASE kind = "stored" /\ got.text = "said" /\ ~got.open
    <2>1. next <=> kept
      <3>1. OpsOf(kind, got, m) = <<>>
        BY <1>7 DEF OpsOf
      <3>2. ops \o <<>> = ops
        OBVIOUS
      <3>. QED
        BY <3>1, <3>2
    <2>2. nvec = "said" /\ ~forgot /\ log[s].approval = "none" /\ ~row[m].open
      BY <1>4, <1>7 DEF VectorOf
    <2>3. C \subseteq seen \cup {s} => C \subseteq seen
      BY <1>7
    <2>. HIDE DEF next, nvec, kind, stored, forgot, mine, C, kept
    <2>4. /\ mine \cup {s} = {} => ~next
          /\ (stored \/ kind = "stored") /\ row[m].open => next
          /\ ~row[m].open /\ C \subseteq seen \cup {s} => ~next
          /\ (stored \/ kind = "stored") /\ row[m].text = "said" => nvec = "said"
          /\ (forgot \/ log[s].approval # "none") => nvec # "said"
      BY <1>1, <2>1, <2>2, <2>3
    <2>. QED
      BY <1>2, <2>4 DEF Agree, next, nvec, kind, stored, forgot, mine, C
  <1>8. CASE kind = "invalidated" \/ got.text = "redacted"
    <2>1. ~next
      <3>1. OpsOf(kind, got, m) = <<<<"hdel", m>>>>
        BY <1>3, <1>8 DEF OpsOf
      <3>2. ~Kept(cur, ops \o <<<<"hdel", m>>>>, m)
        BY <1>9
      <3>. QED
        BY <3>1, <3>2
    <2>2. ~row[m].open
      BY <1>5, <1>8 DEF GovInv, RowInv
    <2>3. (stored \/ kind = "stored") /\ row[m].text = "said" => nvec = "said"
      BY <1>1, <1>3, <1>8 DEF VectorOf
    <2>4. (forgot \/ log[s].approval # "none") => nvec # "said"
      BY DEF VectorOf
    <2>. HIDE DEF next, nvec, kind, stored, forgot, mine, C
    <2>5. /\ mine \cup {s} = {} => ~next
          /\ (stored \/ kind = "stored") /\ row[m].open => next
          /\ ~row[m].open /\ C \subseteq seen \cup {s} => ~next
          /\ (stored \/ kind = "stored") /\ row[m].text = "said" => nvec = "said"
          /\ (forgot \/ log[s].approval # "none") => nvec # "said"
      BY <2>1, <2>2, <2>3, <2>4
    <2>. QED
      BY <1>2, <2>5 DEF Agree, next, nvec, kind, stored, forgot, mine, C
  <1>. QED
    BY <1>3, <1>6, <1>7, <1>8

\* One more event of another memory seen.
LEMMA AgreeOther ==
    ASSUME NEW r, NEW m, NEW s, log[s].mem # m, NEW seen, NEW kept, NEW vec,
           Agree(r, log, Visible, m, seen, kept, vec)
    PROVE  Agree(r, log, Visible, m, seen \cup {s}, kept, vec)
  <1>1. {e \in seen \cup {s} : log[e].mem = m} = {e \in seen : log[e].mem = m}
    OBVIOUS
  <1>2. {e \in Visible : log[e].mem = m /\ log[e].kind = "invalidated"} \subseteq seen \cup {s}
            => {e \in Visible : log[e].mem = m /\ log[e].kind = "invalidated"} \subseteq seen
    OBVIOUS
  <1>. QED
    BY <1>1, <1>2 DEF Agree

\* An operation more leaves the flush of a replay and the other memories alone.
LEMMA OpsMore ==
    ASSUME NEW ops \in Seq(Ops), NEW kind, NEW got, NEW n \in Mems
    PROVE  LET more == ops \o OpsOf(kind, got, n) IN
           /\ \A i \in DOMAIN ops : i \in DOMAIN more /\ more[i] = ops[i]
           /\ \A cur : \A m \in Mems \ {n} : Kept(cur, more, m) <=> Kept(cur, ops, m)
  <1>. DEFINE more == ops \o OpsOf(kind, got, n)
  <1>1. CASE OpsOf(kind, got, n) = <<>>
    <2>1. more = ops
      BY <1>1
    <2>. QED
      BY <2>1
  <1>2. ASSUME NEW k \in {"hset", "hdel"}, OpsOf(kind, got, n) = <<<<k, n>>>>
        PROVE  /\ \A i \in DOMAIN ops : i \in DOMAIN more /\ more[i] = ops[i]
               /\ \A cur : \A m \in Mems \ {n} : Kept(cur, more, m) <=> Kept(cur, ops, m)
    <2>1. \A i \in DOMAIN ops : i \in DOMAIN more /\ more[i] = ops[i]
      BY <1>2
    <2>2. ASSUME NEW cur, NEW m \in Mems \ {n} PROVE Kept(cur, more, m) <=> Kept(cur, ops, m)
      <3>1. Kept(cur, ops \o <<<<k, n>>>>, m) <=> Kept(cur, ops, m)
        BY KeptAppended
      <3>. QED
        BY <1>2, <3>1
    <2>. QED
      BY <2>1, <2>2
  <1>3. OpsOf(kind, got, n) \in {<<>>, <<<<"hset", n>>>>, <<<<"hdel", n>>>>}
    BY DEF OpsOf
  <1>4. CASE OpsOf(kind, got, n) = <<<<"hset", n>>>>
    BY <1>2, <1>4
  <1>5. CASE OpsOf(kind, got, n) = <<<<"hdel", n>>>>
    BY <1>2, <1>5
  <1>. QED
    BY <1>1, <1>3, <1>4, <1>5

LEMMA WriteModel ==
    ASSUME GovInv, ReadInv, HistInv, ModelInv, NEW w \in Workers, Write(w)
    PROVE  ModelInv'
  <1>. DEFINE ops == worker[w].ops
              got == worker[w].got
              vec == worker[w].vec
  <1>0. PICK s \in Visible, n \in Mems, l \in Locals :
          /\ s = Coming(w) /\ n = log[s].mem
          /\ worker[w] \in Locals /\ worker[w].at = "write" /\ s \in worker[w].todo
          /\ worker' = [worker EXCEPT ![w] = l]
          /\ l.vec = [vec EXCEPT ![n] = VectorOf(log[s].kind, got, vec[n])]
          /\ l.ops = ops \o OpsOf(log[s].kind, got, n)
          /\ l.done = worker[w].done \cup {s} /\ l.todo = worker[w].todo \ {s}
          /\ l.at \in {"commit", "fetch"} /\ l.replay = worker[w].replay
          /\ UNCHANGED <<govVars, lock, readVars, background, historyVars, accidents>>
    <2>1. PICK s : s = Min(worker[w].todo)
      OBVIOUS
    <2>2. PICK n : n = log[s].mem
      OBVIOUS
    <2>3. PICK l : l = WriteLocals(w)
      OBVIOUS
    <2>4. LogInv
      BY DEF GovInv
    <2>5. /\ worker[w] \in Locals /\ worker[w].at = "write"
          /\ s \in worker[w].todo /\ s \in Visible /\ n \in Mems
          /\ l \in Locals /\ worker' = [worker EXCEPT ![w] = l]
          /\ l.vec = [worker[w].vec EXCEPT ![n] = VectorOf(log[s].kind, worker[w].got, worker[w].vec[n])]
          /\ l.ops = worker[w].ops \o OpsOf(log[s].kind, worker[w].got, n)
          /\ l.done = worker[w].done \cup {s} /\ l.todo = worker[w].todo \ {s}
          /\ l.at \in {"commit", "fetch"} /\ l.replay = worker[w].replay
          /\ UNCHANGED <<govVars, lock, readVars, background, historyVars, accidents>>
      BY <2>1, <2>2, <2>3, <2>4, WriteEffect
    <2>. QED
      BY <2>1, <2>2, <2>5 DEF Coming
  <1>1. worker'[w] = l /\ \A v \in Workers \ {w} : worker'[v] = worker[v]
    BY <1>0, WorkerIs
  <1>2. UNCHANGED <<row, log, lock, readVars, vector, current, background, covered, astray>>
    BY <1>0 DEF govVars, readVars, historyVars
  <1>3. \A v \in Workers \ {w} : Fetched(v)' /\ Rebuilds(v)' /\ Agrees(v)'
    BY <1>0, <1>1, <1>2, StepKeeps
  <1>4. \A m \in Mems : m \notin astray' => Calm(m)'
    BY <1>0, <1>1, <1>2, PassesCalm
  <1>5. Fetched(w)'
    BY <1>0, <1>1 DEF Fetched
  <1>6. /\ Found(w)' = Found(w) /\ Seen(w)' = Seen(w) \cup {s} /\ Visible' = Visible
        /\ Projecting(w) /\ Found(w) \subseteq Visible /\ Seen(w) \subseteq Visible
    <2>1. Visible' = Visible
      BY <1>2, SameLog
    <2>. QED
      BY <1>0, <1>1, <1>2, <2>1, SeenVisible DEF Found, Seen, Projecting, ReadInv, Batch
  <1>7. /\ ops \in Seq(Ops) /\ got \in Row /\ vec \in [Mems -> {"keep", "null", "said"}]
        /\ \A i \in DOMAIN ops : i \in DOMAIN l.ops /\ l.ops[i] = ops[i]
        /\ \A m \in Mems \ {n} : Kept(current, l.ops, m) <=> Kept(current, ops, m)
    <2>1. ops \in Seq(Ops) /\ got \in Row /\ vec \in [Mems -> {"keep", "null", "said"}]
      BY <1>0 DEF Locals
    <2>. HIDE DEF ops, got, vec
    <2>. QED
      BY <1>0, <2>1, OpsMore
  <1>8. Rebuilds(w)'
    <2>. SUFFICES ASSUME worker[w].replay PROVE Rebuilds(w)'
      BY <1>0, <1>1 DEF Rebuilds, Replaying
    <2>1. Rebuilds(w) /\ Replaying(w)
      BY <1>6 DEF ModelInv, Replaying
    <2>2. \E i \in DOMAIN l.ops : l.ops[i][1] = "flush"
      BY <1>7, <2>1 DEF Rebuilds
    <2>3. ASSUME NEW e \in Found(w) PROVE l.vec[log[e].mem] # "keep"
      <3>1. log[e].mem \in Mems
        <4>1. log[e] \in Event
          BY <1>6 DEF GovInv, LogInv, Visible, Seqs
        <4>. QED
          BY <4>1 DEF Event
      <3>2. vec[log[e].mem] # "keep"
        BY <2>1 DEF Rebuilds
      <3>. QED
        BY <1>0, <1>7, <3>1, <3>2 DEF VectorOf
    <2>. QED
      BY <1>1, <1>2, <1>6, <2>2, <2>3 DEF Rebuilds
  <1>9. Agrees(w)'
    <2>. SUFFICES ASSUME NEW m \in Mems, worker[w].replay \/ m \notin astray
                  PROVE  PassAgrees(w, m)'
      BY <1>0, <1>1, <1>2 DEF Agrees
    <2>1. Agree(row[m], log, Visible, m, Seen(w), Kept(current, ops, m), VecAfter(w, m))
      BY <1>6 DEF ModelInv, Agrees, PassAgrees
    <2>2. PICK old, next : old = VecAfter(w, m) /\ next = VecAfter(w, m)'
      OBVIOUS
    <2>3. Agree(row[m], log, Visible, m, Seen(w) \cup {s}, Kept(current, l.ops, m), next)
      <3>1. CASE m = n
        <4>1. next = VectorOf(log[s].kind, got, old)
          BY <1>0, <1>1, <1>2, <1>7, <2>2, <3>1 DEF VecAfter, VectorOf
        <4>2. /\ got.text # "none" /\ (got.open => got.text = "said")
              /\ got.text = "redacted" => row[m].text = "redacted"
              /\ row[m].open => got.open
              /\ got.open /\ ~row[m].open => ~(Closing(m) \subseteq Seen(w))
              /\ \A e \in Seen(w) \cup {s} : log[e].mem = m /\ log[e].approval # "none" => got.text = "redacted"
          BY <1>0, <3>1 DEF ModelInv, Fetched
        <4>3. Agree(row[m], log, Visible, m, Seen(w) \cup {s},
                    Kept(current, ops \o OpsOf(log[s].kind, got, m), m), VectorOf(log[s].kind, got, old))
          <5>. HIDE DEF ops, got, vec
          <5>. QED
            BY <1>0, <1>6, <1>7, <2>1, <2>2, <3>1, <4>2, AgreeWrites
        <4>. QED
          BY <1>0, <3>1, <4>1, <4>3
      <3>2. CASE m # n
        <4>1. next = old
          BY <1>0, <1>1, <1>2, <1>7, <2>2, <3>2 DEF VecAfter
        <4>2. Kept(current, l.ops, m) <=> Kept(current, ops, m)
          BY <1>7, <3>2
        <4>3. Agree(row[m], log, Visible, m, Seen(w), Kept(current, l.ops, m), next)
          BY <2>1, <2>2, <4>1, <4>2 DEF Agree
        <4>. QED
          BY <1>0, <3>2, <4>3, AgreeOther
      <3>. QED
        BY <3>1, <3>2
    <2>. QED
      BY <1>1, <1>2, <1>6, <2>2, <2>3 DEF PassAgrees
  <1>10. SideInv'
    BY <1>2 DEF ModelInv, SideInv
  <1>. QED
    BY <1>3, <1>4, <1>5, <1>8, <1>9, <1>10 DEF ModelInv

\* The commit of a projection: what it had seen is what now counts, and what it
\* would have left is what its operations still owe.
LEMMA CommitModel ==
    ASSUME GovInv, ReadInv, HistInv, ModelInv, NEW w \in Workers, CommitProjection(w)
    PROVE  ModelInv'
  <1>1. PICK l \in Locals : /\ worker' = [worker EXCEPT ![w] = l]
                            /\ l.at = "apply" /\ l.ops = worker[w].ops
    <2>1. worker[w] \in Locals /\ Resting.vec \in [Mems -> {"keep", "null", "said"}]
      BY DEF ReadInv, Resting
    <2>2. [worker[w] EXCEPT !.at = "apply", !.vec = Resting.vec] \in Locals
      BY <2>1 DEF Locals, Places
    <2>3. worker' = [worker EXCEPT ![w] = [worker[w] EXCEPT !.at = "apply", !.vec = Resting.vec]]
      BY DEF CommitProjection
    <2>. QED
      BY <2>1, <2>2, <2>3 DEF Locals
  <1>2. worker'[w] = l /\ \A v \in Workers \ {w} : worker'[v] = worker[v]
    BY <1>1, WorkerIs
  <1>3. /\ worker[w] \in Locals /\ worker[w].at = "commit" /\ Projecting(w)
        /\ UNCHANGED <<row, log, lock, current, background>>
        /\ covered' = Seen(w) /\ Visible' = Visible
        /\ \A m \in Mems : vector'[m] = VecAfter(w, m)
    BY SameLog DEF CommitProjection, govVars, Seen, VecAfter, Projecting, ReadInv
  <1>4. ASSUME NEW m \in Mems, m \notin astray'
        PROVE  /\ lock = w /\ (\A v \in Workers \ {w} : worker[v].at = "idle")
               /\ worker[w].replay \/ m \notin astray
    <2>1. CASE m \notin astray
      BY <1>3, <2>1, AloneIs
    <2>2. CASE m \in astray
      BY <1>4, <2>2 DEF CommitProjection
    <2>. QED
      BY <2>1, <2>2
  <1>5. \A v \in Workers \ {w} : Fetched(v)' /\ Rebuilds(v)' /\ Agrees(v)'
    BY <1>2, <1>3, <1>4, OthersKeep
  <1>6. Fetched(w)' /\ Rebuilds(w)' /\ Agrees(w)'
    BY <1>1, <1>2, RestingPrimed
  <1>7. ASSUME NEW m \in Mems, m \notin astray' PROVE Calm(m)'
    <2>1. PassAgrees(w, m)
      BY <1>3, <1>4, <1>7 DEF ModelInv, Agrees
    <2>2. DebtAgrees(w, m)'
      BY <1>1, <1>2, <1>3, <2>1 DEF PassAgrees, DebtAgrees
    <2>. QED
      BY <1>1, <1>2, <1>3, <1>4, <1>7, <2>2 DEF Calm
  <1>8. SideInv'
    <2>1. worker[w].vec \in [Mems -> {"keep", "null", "said"}]
      BY <1>3 DEF Locals
    <2>. QED
      BY <1>3, <2>1 DEF ModelInv, SideInv, CommitProjection
  <1>. QED
    BY <1>5, <1>6, <1>7, <1>8 DEF ModelInv

LEMMA NextModel ==
    ASSUME GovInv, ReadInv, HistInv, ModelInv, [MemoryNext]_vars
    PROVE  ModelInv'
  <1>1. background \in [Mems -> Texts]
    BY DEF ModelInv, SideInv
  <1>2. CASE Governance
    <2>1. UNCHANGED <<worker, lock, vector, mark, current, covered, late>> /\ astray \subseteq astray'
      BY <1>2 DEF Governance, Add, Invalidate, ForgetGates, ForgetRedact, Commit, Abort,
                  ApprovalExpires, CloseUnlogged, readVars, historyVars
    <2>2. background' \in [Mems -> Texts]
      <3>1. ASSUME NEW c \in Clients, Commit(c) PROVE background' \in [Mems -> Texts]
        BY <1>1, <3>1 DEF Commit, Texts
      <3>. QED
        BY <1>1, <1>2, <3>1 DEF Governance, Add, Invalidate, ForgetGates, ForgetRedact, Abort,
                                ApprovalExpires, CloseUnlogged
    <2>. QED
      BY <2>1, <2>2, GovModel
  <1>3. CASE Restart \/ UNCHANGED vars
    <2>1. /\ UNCHANGED <<worker, lock, vector, mark, current, covered, late>>
          /\ astray' = astray
      BY <1>3 DEF Restart, vars, readVars, historyVars
    <2>2. background' \in [Mems -> Texts]
      <3>1. \A m \in Mems : row[m].text \in Texts
        BY DEF GovInv, RowInv, Row
      <3>. QED
        BY <1>1, <1>3, <3>1 DEF Restart, vars, Texts
    <2>. QED
      BY <2>1, <2>2, GovModel
  <1>4. CASE LockExpires
    BY <1>4, ExpireModel
  <1>5. ASSUME NEW m \in Mems, StoreBackground(m) PROVE ModelInv'
    BY <1>5, StoreModel
  <1>6. ASSUME NEW w \in Workers, Acquire(w) \/ WorkerStep(w) \/ Fail(w) \/ Crash(w)
        PROVE  ModelInv'
    BY <1>6, AcquireModel, ReadModel, FetchModel, WriteModel, CommitModel, ApplyModel, ReleaseModel,
       FallsModel DEF WorkerStep, Fail, Crash
  <1>. QED
    BY <1>2, <1>3, <1>4, <1>5, <1>6 DEF MemoryNext

\* At rest the read model is what the rows say: the projectors
\* (project_fact_stored, project_fact_invalidated), which work on a row fetched
\* before they wait for the embedder, and the Redis operations applied after the
\* commit leave every open statement in Redis, no closed one, the vectors of the
\* statements and none of a forgotten one, whatever governance did meanwhile,
\* wherever no accident the model names has touched the memory.
THEOREM ReadModelFollowsTheRows == MemorySpec => []ReadModelTrue
  <1>1. MemoryInit => GovInv /\ ReadInv /\ PassInv /\ HistInv /\ ModelInv
    BY InitGov, InitRead, InitModel
  <1>2. GovInv /\ ReadInv /\ PassInv /\ HistInv /\ ModelInv /\ [MemoryNext]_vars
            => GovInv' /\ ReadInv' /\ PassInv' /\ HistInv' /\ ModelInv'
    BY NextGov, NextPass, NextHist, NextModel
  <1>3. GovInv /\ ReadInv /\ HistInv /\ ModelInv => ReadModelTrue
    <2>. SUFFICES ASSUME GovInv, ReadInv, HistInv, ModelInv, AtRest, NEW m \in Mems \ astray,
                         EventsOf(m) \subseteq covered
                  PROVE  /\ m \in current <=> row[m].open
                         /\ row[m].text = "said" => vector[m] = "said"
                         /\ row[m].text = "redacted" => vector[m] # "said"
      BY DEF ReadModelTrue
    <2>1. RestAgrees(m)
      BY DEF ModelInv, Calm, AtRest
    <2>2. {s \in covered : log[s].mem = m} = EventsOf(m)
      BY DEF ReadInv, EventsOf
    <2>3. /\ (\E s \in EventsOf(m) : log[s].kind = "stored") /\ row[m].open => m \in current
          /\ ~row[m].open => m \notin current
          /\ (\E s \in EventsOf(m) : log[s].kind = "stored") /\ row[m].text = "said" => vector[m] = "said"
          /\ (\E s \in EventsOf(m) : log[s].approval # "none") => vector[m] # "said"
      <3>1. {s \in Visible : log[s].mem = m /\ log[s].kind = "invalidated"} \subseteq covered
        BY DEF EventsOf
      <3>. QED
        BY <2>1, <2>2, <3>1 DEF RestAgrees, Agree
    <2>4. RowLog(m) /\ (row[m].open => row[m].text # "none")
      BY DEF HistInv, GovInv, RowInv
    <2>. QED
      BY <2>3, <2>4 DEF RowLog
  <1>. QED
    BY <1>1, <1>2, <1>3, PTL DEF MemorySpec
===============================================================================
