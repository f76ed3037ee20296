-------------------------- MODULE Background_proofs --------------------------
(***************************************************************************)
(* What runs in the background: the periodic jobs of several scheduler       *)
(* processes, the runs that users schedule, the job list and its table, when *)
(* a job is due, and the consolidation passes.                               *)
(***************************************************************************)
EXTENDS PeriodicJob, UserJobs, JobTable, Cadence, Consolidation,
        FiniteSetTheorems, WellFoundedInduction, TLAPS

-----------------------------------------------------------------------------
(* Why firings of one job, its reports and its envelopes stay in bounds, for *)
(* any number of scheduler processes: every firing beyond the one the key    *)
(* covers was let in by a counted exception, every firing past the guard     *)
(* saw no report or was counted, and an envelope has one owner.              *)

Entry(rows) == [at : Places, row : 0..rows, ok : BOOLEAN]
Status == {"running", "completed", "failed"}

\* Firings the guard let through that have not written yet.
Past == {f \in Firers : fire[f].at \in {"open", "body"}}
Covered == IF key THEN 1 ELSE 0

\* Firings, and reports of this period with those that may still come.
CountInv ==
    /\ Cardinality(Active) <= leaks + Covered
    /\ manual <= blindly
    /\ reports[period] + Cardinality(Past) + manual <= 1 + leaks + blindly
    /\ \A p \in Periods : p > period => reports[p] = 0

\* A firing in its body or about to close owns an envelope no other owns.
Owns(f) == fire[f].at \in {"body", "close"}
OwnerInv ==
    \A f \in Firers : Owns(f) =>
        /\ fire[f].row \in DOMAIN envelope /\ fire[f].row \notin lost
        /\ \A g \in Firers : Owns(g) /\ fire[g].row = fire[f].row => g = f

PJInv == ReportsAndEnvelopes /\ CountInv /\ OwnerInv

\* One more or one less of the firers.
LEMMA Counted ==
    ASSUME NEW S \in SUBSET Firers, NEW f \in Firers
    PROVE  /\ Cardinality(S) \in Nat
           /\ Cardinality(S \cup {f}) = IF f \in S THEN Cardinality(S) ELSE Cardinality(S) + 1
           /\ Cardinality(S \ {f}) = IF f \in S THEN Cardinality(S) - 1 ELSE Cardinality(S)
  <1>1. IsFiniteSet(S)
    BY PeriodicJobAssumption, FS_Subset DEF PeriodicJobAssumption
  <1>. QED
    BY <1>1, FS_CardinalityType, FS_AddElement, FS_RemoveElement

\* Past firings are active ones.
LEMMA PastActive ==
    /\ Past \subseteq Active /\ Active \subseteq Firers
    /\ Cardinality(Past) \in Nat /\ Cardinality(Active) \in Nat
    /\ Cardinality(Past) <= Cardinality(Active)
  <1>1. Past \subseteq Active /\ Active \subseteq Firers
    BY DEF Past, Active
  <1>2. IsFiniteSet(Active) /\ IsFiniteSet(Past)
    BY <1>1, PeriodicJobAssumption, FS_Subset DEF PeriodicJobAssumption
  <1>. QED
    BY <1>1, <1>2, FS_Subset, FS_CardinalityType

\* What one process's move does to the firings that are counted.
LEMMA FireMoves ==
    ASSUME PJTypeOK, NEW f \in Firers, NEW r, fire' = [fire EXCEPT ![f] = r]
    PROVE  /\ r \in Entry(Len(envelope)) => fire' \in [Firers -> Entry(Len(envelope))]
           /\ fire'[f] = r /\ \A g \in Firers \ {f} : fire'[g] = fire[g]
           /\ Active' = IF r.at = "idle" THEN Active \ {f} ELSE Active \cup {f}
           /\ Past' = IF r.at \in {"open", "body"} THEN Past \cup {f} ELSE Past \ {f}
  <1>1. fire \in [Firers -> Entry(Len(envelope))]
    BY DEF PJTypeOK, Entry
  <1>2. fire'[f] = r /\ \A g \in Firers \ {f} : fire'[g] = fire[g]
    BY <1>1
  <1>. QED
    BY <1>1, <1>2 DEF Active, Past

LEMMA InitPJInv == PJInit => PJInv
  <1>. SUFFICES ASSUME PJInit PROVE PJInv
    OBVIOUS
  <1>1. Idle \in Entry(0) /\ Idle.at = "idle"
    BY DEF Idle, Entry, Places
  <1>2. envelope = <<>> /\ Len(envelope) = 0 /\ DOMAIN envelope = {}
        /\ envelope \in Seq({"running", "completed", "failed"})
    BY DEF PJInit
  <1>3. \A f \in Firers : fire[f].at = "idle"
    BY <1>1 DEF PJInit
  <1>4. fire \in [Firers -> Entry(Len(envelope))]
    BY <1>1, <1>2 DEF PJInit
  <1>5. Active = {} /\ Past = {}
    BY <1>3 DEF Active, Past
  <1>6. period \in Periods /\ reports \in [Periods -> Nat] /\ \A p \in Periods : reports[p] = 0
    BY PeriodicJobAssumption DEF PJInit, Periods, PeriodicJobAssumption
  <1>7. PJTypeOK
    BY <1>2, <1>4, <1>6 DEF PJInit, PJTypeOK, Entry
  <1>8. CountInv /\ ReportsBounded
    BY <1>5, <1>6, FS_EmptySet DEF PJInit, CountInv, ReportsBounded, Covered
  <1>9. OwnerInv /\ EnvelopesOwned
    BY <1>2, <1>3 DEF OwnerInv, Owns, EnvelopesOwned
  <1>. QED
    BY <1>7, <1>8, <1>9 DEF PJInv, ReportsAndEnvelopes

\* The counts after a firing moved between places the counts do not tell apart, with
\* all else they are about as it was or further from the bound.
LEMMA SameCounts ==
    ASSUME PJInv, Active' = Active, Past' \in SUBSET Past, Past' \in SUBSET Firers,
           UNCHANGED <<key, manual, period, reports>>,
           leaks' \in Nat, leaks' >= leaks, blindly' \in Nat, blindly' >= blindly
    PROVE  CountInv' /\ ReportsBounded'
  <1>1. IsFiniteSet(Past)
    BY PastActive, PeriodicJobAssumption, FS_Subset DEF PeriodicJobAssumption
  <1>2. Cardinality(Past') \in Nat /\ Cardinality(Past') <= Cardinality(Past)
    BY <1>1, FS_Subset, FS_CardinalityType
  <1>3. /\ {Cardinality(Active), Cardinality(Past), manual, leaks, blindly} \subseteq Nat
        /\ reports[period] \in Nat /\ \A p \in Periods : reports[p] \in Nat
    BY PastActive DEF PJInv, ReportsAndEnvelopes, PJTypeOK
  <1>4. Covered' = Covered /\ Covered \in Nat
    BY DEF Covered
  <1>5. CountInv'
    BY <1>2, <1>3, <1>4 DEF PJInv, CountInv
  <1>6. ReportsBounded'
    BY <1>3 DEF PJInv, ReportsAndEnvelopes, ReportsBounded
  <1>. QED
    BY <1>5, <1>6

\* Envelopes and their owners, when a firing moves that owns none before or after.
LEMMA SameOwners ==
    ASSUME PJInv, NEW f \in Firers, ~Owns(f), ~Owns(f)',
           \A g \in Firers \ {f} : fire'[g] = fire[g],
           UNCHANGED <<envelope, lost>>
    PROVE  OwnerInv' /\ EnvelopesOwned'
  <1>1. \A g \in Firers : (Owns(g)' <=> Owns(g)) /\ (Owns(g) => fire'[g] = fire[g])
    BY DEF Owns
  <1>2. OwnerInv'
    BY <1>1 DEF PJInv, OwnerInv
  <1>3. EnvelopesOwned'
    BY <1>1 DEF PJInv, ReportsAndEnvelopes, EnvelopesOwned, Owns
  <1>. QED
    BY <1>2, <1>3

LEMMA NextPJInv == PJInv /\ [PJNext]_pjVars => PJInv'
  <1>. SUFFICES ASSUME PJInv, [PJNext]_pjVars PROVE PJInv'
    OBVIOUS
  <1>0. /\ PJTypeOK /\ CountInv /\ OwnerInv /\ ReportsBounded /\ EnvelopesOwned
        /\ Len(envelope) \in Nat /\ DOMAIN envelope = 1..Len(envelope)
        /\ {leaks, blindly, manual} \subseteq Nat
        /\ \A g \in Firers : fire[g] \in Entry(Len(envelope))
    BY DEF PJInv, ReportsAndEnvelopes, PJTypeOK, Entry
  <1>1. ASSUME NEW f \in Firers, Fire(f) PROVE PJInv'
    <2>. DEFINE r == [fire[f] EXCEPT !.at = "guard"]
    <2>1. fire[f].at = "idle" /\ fire' = [fire EXCEPT ![f] = r]
          /\ UNCHANGED <<redis, manual, envelope, period, reports, blindly, lost>>
      BY <1>1 DEF Fire, Goes
    <2>2. \/ ~key /\ key' = TRUE /\ leaks' = leaks
          \/ key' = key /\ leaks' = leaks + 1
      BY <1>1 DEF Fire, TakesKey
    <2>3. r \in Entry(Len(envelope)) /\ r.at = "guard"
      BY <1>0 DEF Entry, Places
    <2>. HIDE DEF r
    <2>4. /\ fire' \in [Firers -> Entry(Len(envelope))]
          /\ fire'[f] = r /\ \A g \in Firers \ {f} : fire'[g] = fire[g]
          /\ Active' = Active \cup {f} /\ Past' = Past \ {f}
      BY <1>0, <2>1, <2>3, FireMoves
    <2>5. PJTypeOK'
      <3>1. key \in BOOLEAN
        BY <1>0 DEF PJTypeOK
      <3>2. key' \in BOOLEAN
        BY <2>2, <3>1, Zenon
      <3>3. leaks' \in Nat
        BY <1>0, <2>2
      <3>. QED
        BY <1>0, <2>1, <2>4, <3>2, <3>3 DEF PJTypeOK, Entry
    <2>6. f \notin Active /\ f \notin Past
      BY <2>1 DEF Active, Past
    <2>7. Past' = Past /\ Cardinality(Active') = Cardinality(Active) + 1
      BY <2>4, <2>6, Counted, PastActive
    <2>8. CountInv'
      BY <1>0, <2>1, <2>2, <2>7, PastActive DEF CountInv, Covered, PJTypeOK
    <2>9. ReportsBounded'
      BY <1>0, <2>1, <2>2 DEF ReportsBounded, PJTypeOK
    <2>10. OwnerInv' /\ EnvelopesOwned'
      BY <2>1, <2>3, <2>4, SameOwners DEF Owns
    <2>. QED
      BY <2>5, <2>8, <2>9, <2>10 DEF PJInv, ReportsAndEnvelopes
  <1>2. ASSUME NEW f \in Firers, Guard(f) PROVE PJInv'
    <2>. DEFINE r == [fire[f] EXCEPT !.at = AfterGuard]
    <2>1. fire[f].at = "guard" /\ fire' = [fire EXCEPT ![f] = r]
          /\ UNCHANGED <<key, redis, manual, envelope, period, reports, leaks, blindly, lost>>
      BY <1>2 DEF Guard, Goes
    <2>2. r \in Entry(Len(envelope)) /\ r.at = AfterGuard
      BY <1>0 DEF Entry, Places, AfterGuard
    <2>. HIDE DEF r
    <2>3. AfterGuard \in {"open", "release"}
      BY DEF AfterGuard
    <2>4. /\ fire' \in [Firers -> Entry(Len(envelope))]
          /\ fire'[f] = r /\ \A g \in Firers \ {f} : fire'[g] = fire[g]
          /\ Active' = Active \cup {f}
          /\ Past' = IF AfterGuard = "open" THEN Past \cup {f} ELSE Past \ {f}
      BY <1>0, <2>1, <2>2, <2>3, FireMoves
    <2>5. PJTypeOK'
      BY <1>0, <2>1, <2>4 DEF PJTypeOK, Entry
    <2>6. f \in Active /\ f \notin Past /\ Active' = Active
      BY <2>1, <2>4 DEF Active, Past
    <2>7. OwnerInv' /\ EnvelopesOwned'
      BY <2>1, <2>2, <2>3, <2>4, SameOwners DEF Owns
    <2>8. CASE AfterGuard = "release"
      <3>1. Past' = Past
        BY <2>4, <2>6, <2>8
      <3>. QED
        BY <1>0, <2>1, <2>5, <2>6, <2>7, <3>1, SameCounts, PastActive DEF PJInv, ReportsAndEnvelopes
    <2>9. CASE AfterGuard = "open"
      <3>1. reports[period] = 0
        BY <1>0, <2>9 DEF AfterGuard, PJTypeOK
      <3>2. Cardinality(Past') \in Nat /\ Cardinality(Past') <= Cardinality(Active)
        <4>1. Past' \subseteq Active /\ IsFiniteSet(Active)
          BY <2>4, <2>6, PastActive, PeriodicJobAssumption, FS_Subset DEF PeriodicJobAssumption
        <4>. QED
          BY <4>1, FS_Subset, FS_CardinalityType
      <3>3. CountInv' /\ ReportsBounded'
        BY <1>0, <2>1, <2>6, <3>1, <3>2, PastActive DEF CountInv, Covered, ReportsBounded
      <3>. QED
        BY <2>5, <2>7, <3>3 DEF PJInv, ReportsAndEnvelopes
    <2>. QED
      BY <2>3, <2>8, <2>9
  <1>3. ASSUME NEW f \in Firers, GuardFails(f) PROVE PJInv'
    <2>. DEFINE r == [fire[f] EXCEPT !.at = "open"]
    <2>1. fire[f].at = "guard" /\ fire' = [fire EXCEPT ![f] = r] /\ blindly' = blindly + 1
          /\ UNCHANGED <<key, redis, manual, envelope, period, reports, leaks, lost>>
      BY <1>3 DEF GuardFails, Goes
    <2>2. r \in Entry(Len(envelope)) /\ r.at = "open"
      BY <1>0 DEF Entry, Places
    <2>. HIDE DEF r
    <2>3. /\ fire' \in [Firers -> Entry(Len(envelope))]
          /\ fire'[f] = r /\ \A g \in Firers \ {f} : fire'[g] = fire[g]
          /\ Active' = Active \cup {f} /\ Past' = Past \cup {f}
      BY <1>0, <2>1, <2>2, FireMoves
    <2>4. PJTypeOK'
      BY <1>0, <2>1, <2>3 DEF PJTypeOK, Entry
    <2>5. f \in Active /\ f \notin Past /\ Active' = Active
      BY <2>1, <2>3 DEF Active, Past
    <2>6. Cardinality(Past') = Cardinality(Past) + 1
      BY <2>3, <2>5, Counted, PastActive
    <2>7. CountInv' /\ ReportsBounded'
      BY <1>0, <2>1, <2>5, <2>6, PastActive DEF CountInv, Covered, ReportsBounded, PJTypeOK
    <2>8. OwnerInv' /\ EnvelopesOwned'
      BY <2>1, <2>2, <2>3, SameOwners DEF Owns
    <2>. QED
      BY <2>4, <2>7, <2>8 DEF PJInv, ReportsAndEnvelopes
  <1>4. ASSUME NEW f \in Firers, Open(f) PROVE PJInv'
    <2>. DEFINE n == Len(envelope) + 1
                r == [at |-> "body", row |-> n, ok |-> FALSE]
    <2>1. fire[f].at = "open" /\ envelope' = Append(envelope, "running")
          /\ UNCHANGED <<key, redis, manual, period, reports, leaks, blindly, lost>>
      BY <1>4 DEF Open
    <2>2. /\ envelope' \in Seq(Status) /\ Len(envelope') = n /\ DOMAIN envelope' = 1..n
          /\ envelope'[n] = "running" /\ \A i \in DOMAIN envelope : envelope'[i] = envelope[i]
      BY <1>0, <2>1 DEF PJTypeOK, Status
    <2>3. fire' = [fire EXCEPT ![f] = r]
      BY <1>4, <2>2 DEF Open
    <2>4. r.at = "body" /\ r.row = n /\ r \in Entry(n)
      BY <1>0 DEF Entry, Places
    <2>. HIDE DEF r
    <2>5. /\ fire'[f] = r /\ \A g \in Firers \ {f} : fire'[g] = fire[g]
          /\ Active' = Active \cup {f} /\ Past' = Past \cup {f}
      BY <1>0, <2>3, <2>4, FireMoves
    <2>6. fire' \in [Firers -> Entry(n)]
      <3>1. Entry(Len(envelope)) \subseteq Entry(n)
        BY <1>0 DEF Entry
      <3>2. fire \in [Firers -> Entry(n)]
        BY <1>0, <3>1 DEF PJTypeOK
      <3>. QED
        BY <2>3, <2>4, <3>2
    <2>7. PJTypeOK'
      BY <1>0, <2>1, <2>2, <2>6 DEF PJTypeOK, Entry, Status
    <2>8. Active' = Active /\ Past' = Past
      BY <2>1, <2>5 DEF Active, Past
    <2>9. CountInv' /\ ReportsBounded'
      BY <1>0, <2>1, <2>8, SameCounts, PastActive
    <2>10. n \notin lost /\ n \notin DOMAIN envelope /\ DOMAIN envelope' = DOMAIN envelope \cup {n}
      BY <1>0, <2>2 DEF PJTypeOK
    <2>11. \A g \in Firers \ {f} : (Owns(g)' <=> Owns(g)) /\ fire'[g] = fire[g]
      BY <2>5 DEF Owns
    <2>12. Owns(f)' /\ ~Owns(f) /\ fire'[f].row = n
      BY <2>1, <2>4, <2>5 DEF Owns
    <2>13. OwnerInv'
      BY <1>0, <2>1, <2>10, <2>11, <2>12 DEF OwnerInv
    <2>14. EnvelopesOwned'
      <3>1. ASSUME NEW i \in DOMAIN envelope
            PROVE  envelope'[i] = "running" <=> i \in lost' \/ \E g \in Firers : fire'[g].row = i /\ Owns(g)'
        BY <1>0, <2>1, <2>2, <2>10, <2>11, <2>12 DEF EnvelopesOwned, Owns
      <3>2. envelope'[n] = "running" /\ \E g \in Firers : fire'[g].row = n /\ Owns(g)'
        BY <2>2, <2>12
      <3>. QED
        BY <2>10, <3>1, <3>2 DEF EnvelopesOwned, Owns
    <2>. QED
      BY <2>7, <2>9, <2>13, <2>14 DEF PJInv, ReportsAndEnvelopes
  <1>5. ASSUME NEW f \in Firers, Body(f) PROVE PJInv'
    <2>1. PICK ok \in BOOLEAN :
            /\ fire' = [fire EXCEPT ![f] = [fire[f] EXCEPT !.at = "close", !.ok = ok]]
            /\ IF ok THEN Writes ELSE UNCHANGED reports
      BY <1>5 DEF Body
    <2>. DEFINE r == [fire[f] EXCEPT !.at = "close", !.ok = ok]
    <2>2. fire[f].at = "body" /\ fire' = [fire EXCEPT ![f] = r]
          /\ UNCHANGED <<key, redis, manual, envelope, period, leaks, blindly, lost>>
      BY <1>5, <2>1 DEF Body
    <2>3. r \in Entry(Len(envelope)) /\ r.at = "close" /\ r.row = fire[f].row
      BY <1>0 DEF Entry, Places
    <2>. HIDE DEF r
    <2>4. /\ fire' \in [Firers -> Entry(Len(envelope))]
          /\ fire'[f] = r /\ \A g \in Firers \ {f} : fire'[g] = fire[g]
          /\ Active' = Active \cup {f} /\ Past' = Past \ {f}
      BY <1>0, <2>2, <2>3, FireMoves
    <2>5. f \in Active /\ f \in Past /\ Active' = Active
      BY <2>2, <2>4 DEF Active, Past
    <2>6. Cardinality(Past') = Cardinality(Past) - 1
      BY <2>4, <2>5, Counted, PastActive
    <2>7. period \in Periods /\ reports \in [Periods -> Nat]
      BY <1>0 DEF PJTypeOK
    <2>8. /\ reports' \in [Periods -> Nat] /\ \A p \in Periods \ {period} : reports'[p] = reports[p]
          /\ reports'[period] <= reports[period] + 1
      <3>1. CASE ok
        BY <2>1, <2>7, <3>1 DEF Writes
      <3>2. CASE ~ok
        BY <2>1, <2>7, <3>2
      <3>. QED
        BY <3>1, <3>2
    <2>9. PJTypeOK'
      BY <1>0, <2>2, <2>4, <2>8 DEF PJTypeOK, Entry
    <2>10. CountInv'
      BY <1>0, <2>2, <2>5, <2>6, <2>7, <2>8, PastActive DEF CountInv, Covered, Periods
    <2>11. ReportsBounded'
      <3>1. Cardinality(Past') \in Nat
        BY <2>5, <2>4, Counted, PastActive
      <3>2. reports'[period] <= 1 + leaks + blindly
        BY <1>0, <2>2, <2>7, <2>8, <2>10, <3>1 DEF CountInv
      <3>. QED
        BY <1>0, <2>2, <2>8, <3>2 DEF ReportsBounded
    <2>12. \A g \in Firers : (Owns(g)' <=> Owns(g)) /\ fire'[g].row = fire[g].row
      BY <2>2, <2>3, <2>4 DEF Owns
    <2>13. OwnerInv' /\ EnvelopesOwned'
      BY <1>0, <2>2, <2>12 DEF OwnerInv, EnvelopesOwned, Owns
    <2>. QED
      BY <2>9, <2>10, <2>11, <2>13 DEF PJInv, ReportsAndEnvelopes
  <1>6. ASSUME NEW f \in Firers, Close(f) PROVE PJInv'
    <2>. DEFINE r == [fire[f] EXCEPT !.at = "release"]
                n == fire[f].row
    <2>1. PICK status \in {"completed", "failed"} : envelope' = [envelope EXCEPT ![n] = status]
      BY <1>6 DEF Close
    <2>2. fire[f].at = "close" /\ fire' = [fire EXCEPT ![f] = r]
          /\ UNCHANGED <<key, redis, manual, period, reports, leaks, blindly, lost>>
      BY <1>6 DEF Close, Goes
    <2>3. r \in Entry(Len(envelope)) /\ r.at = "release"
      BY <1>0 DEF Entry, Places
    <2>. HIDE DEF r
    <2>4. /\ fire' \in [Firers -> Entry(Len(envelope))]
          /\ fire'[f] = r /\ \A g \in Firers \ {f} : fire'[g] = fire[g]
          /\ Active' = Active \cup {f} /\ Past' = Past \ {f}
      BY <1>0, <2>2, <2>3, FireMoves
    <2>5. Active' = Active /\ Past' = Past
      BY <2>2, <2>4 DEF Active, Past
    <2>6. Owns(f) /\ n \in DOMAIN envelope /\ n \notin lost
          /\ \A g \in Firers \ {f} : Owns(g) => fire[g].row # n
      BY <1>0, <2>2 DEF Owns, OwnerInv
    <2>7. /\ envelope' \in Seq(Status) /\ Len(envelope') = Len(envelope)
          /\ DOMAIN envelope' = DOMAIN envelope /\ envelope'[n] # "running"
          /\ \A i \in DOMAIN envelope \ {n} : envelope'[i] = envelope[i]
      BY <1>0, <2>1, <2>6 DEF PJTypeOK, Status
    <2>8. PJTypeOK'
      BY <1>0, <2>2, <2>4, <2>7 DEF PJTypeOK, Entry, Status
    <2>9. CountInv' /\ ReportsBounded'
      BY <1>0, <2>2, <2>5, SameCounts, PastActive
    <2>10. ~Owns(f)' /\ \A g \in Firers \ {f} : (Owns(g)' <=> Owns(g)) /\ fire'[g] = fire[g]
      BY <2>3, <2>4 DEF Owns
    <2>11. OwnerInv'
      BY <1>0, <2>2, <2>7, <2>10 DEF OwnerInv
    <2>12. EnvelopesOwned'
      BY <1>0, <2>2, <2>6, <2>7, <2>10 DEF EnvelopesOwned, Owns
    <2>. QED
      BY <2>8, <2>9, <2>11, <2>12 DEF PJInv, ReportsAndEnvelopes
  <1>7. ASSUME NEW f \in Firers, BookkeepingFails(f) \/ Dies(f) PROVE PJInv'
    <2>1. PICK r \in Entry(Len(envelope)) :
            fire' = [fire EXCEPT ![f] = r] /\ r.at \in {"idle", "release"}
      <3>1. CASE BookkeepingFails(f)
        <4>1. fire' = [fire EXCEPT ![f] = [fire[f] EXCEPT !.at = "release"]]
          BY <3>1 DEF BookkeepingFails, Goes
        <4>2. [fire[f] EXCEPT !.at = "release"] \in Entry(Len(envelope))
          BY <1>0 DEF Entry, Places
        <4>3. [fire[f] EXCEPT !.at = "release"].at = "release"
          BY <1>0 DEF Entry
        <4>. QED
          BY <4>1, <4>2, <4>3
      <3>2. CASE Dies(f)
        <4>1. Idle \in Entry(Len(envelope)) /\ Idle.at = "idle"
          BY <1>0 DEF Idle, Entry, Places
        <4>. QED
          BY <3>2, <4>1 DEF Dies
      <3>. QED
        BY <1>7, <3>1, <3>2
    <2>2. /\ fire[f].at # "idle"
          /\ UNCHANGED <<key, redis, manual, envelope, period, reports, leaks, blindly>>
          /\ lost' = IF Owns(f) THEN lost \cup {fire[f].row} ELSE lost
      BY <1>7 DEF BookkeepingFails, Dies, Owns
    <2>3. /\ fire' \in [Firers -> Entry(Len(envelope))]
          /\ fire'[f] = r /\ \A g \in Firers \ {f} : fire'[g] = fire[g]
          /\ Active' \in {Active \ {f}, Active \cup {f}} /\ Past' = Past \ {f}
      BY <1>0, <2>1, FireMoves
    <2>4. f \in Active /\ Active' \in {Active \ {f}, Active}
      BY <2>2, <2>3 DEF Active
    <2>5. PJTypeOK'
      <3>1. lost' \subseteq DOMAIN envelope
        BY <1>0, <2>2 DEF PJTypeOK, OwnerInv
      <3>. QED
        BY <1>0, <2>2, <2>3, <3>1 DEF PJTypeOK, Entry
    <2>6. /\ Cardinality(Active') \in Nat /\ Cardinality(Active') <= Cardinality(Active)
          /\ Cardinality(Past') \in Nat /\ Cardinality(Past') <= Cardinality(Past)
      <3>1. Active \in SUBSET Firers /\ Past \in SUBSET Firers
            /\ Cardinality(Active) \in Nat /\ Cardinality(Past) \in Nat
        BY PastActive
      <3>2. Cardinality(Active \ {f}) = Cardinality(Active) - 1 /\ Cardinality(Active \ {f}) \in Nat
        BY <2>4, <3>1, Counted
      <3>3. Cardinality(Past') \in Nat /\ Cardinality(Past') <= Cardinality(Past)
        <4>1. Past \ {f} \in SUBSET Firers
          BY <3>1
        <4>2. Cardinality(Past \ {f}) \in Nat
          BY <4>1, Counted
        <4>3. Cardinality(Past \ {f}) \in {Cardinality(Past), Cardinality(Past) - 1}
          BY <3>1, Counted
        <4>4. Past' = Past \ {f}
          BY <2>3
        <4>. QED
          BY <3>1, <4>2, <4>3, <4>4
      <3>4. Cardinality(Active') \in {Cardinality(Active \ {f}), Cardinality(Active)}
        BY <2>4
      <3>. QED
        BY <3>1, <3>2, <3>3, <3>4
    <2>7. CountInv'
      BY <1>0, <2>2, <2>6, PastActive DEF CountInv, Covered, PJTypeOK
    <2>8. ReportsBounded'
      BY <1>0, <2>2 DEF ReportsBounded
    <2>9. ~Owns(f)' /\ \A g \in Firers \ {f} : (Owns(g)' <=> Owns(g)) /\ fire'[g] = fire[g]
      BY <2>1, <2>3 DEF Owns
    <2>10. OwnerInv'
      BY <1>0, <2>2, <2>9 DEF OwnerInv
    <2>11. EnvelopesOwned'
      BY <1>0, <2>2, <2>9 DEF EnvelopesOwned, Owns
    <2>. QED
      BY <2>5, <2>7, <2>8, <2>10, <2>11 DEF PJInv, ReportsAndEnvelopes
  <1>8. ASSUME NEW f \in Firers, Release(f) PROVE PJInv'
    <2>1. fire[f].at = "release" /\ fire' = [fire EXCEPT ![f] = Idle]
          /\ key' = (key /\ ~redis)
          /\ UNCHANGED <<redis, manual, envelope, period, reports, leaks, blindly, lost>>
      BY <1>8 DEF Release
    <2>2. Idle \in Entry(Len(envelope)) /\ Idle.at = "idle"
      BY <1>0 DEF Idle, Entry, Places
    <2>3. /\ fire' \in [Firers -> Entry(Len(envelope))]
          /\ fire'[f] = Idle /\ \A g \in Firers \ {f} : fire'[g] = fire[g]
          /\ Active' = Active \ {f} /\ Past' = Past \ {f}
      BY <1>0, <2>1, <2>2, FireMoves
    <2>4. f \in Active /\ Past' = Past
      BY <2>1, <2>3 DEF Active, Past
    <2>5. PJTypeOK'
      BY <1>0, <2>1, <2>3 DEF PJTypeOK, Entry
    <2>6. Cardinality(Active') = Cardinality(Active) - 1
      BY <2>3, <2>4, Counted, PastActive
    <2>7. CountInv' /\ ReportsBounded'
      BY <1>0, <2>1, <2>4, <2>6, PastActive DEF CountInv, Covered, ReportsBounded, PJTypeOK
    <2>8. OwnerInv' /\ EnvelopesOwned'
      BY <2>1, <2>2, <2>3, SameOwners DEF Owns
    <2>. QED
      BY <2>5, <2>7, <2>8 DEF PJInv, ReportsAndEnvelopes
  <1>9. ASSUME UNCHANGED <<fire, envelope, lost>> PROVE OwnerInv' /\ EnvelopesOwned'
               /\ Active' = Active /\ Past' = Past
    BY <1>0, <1>9 DEF OwnerInv, EnvelopesOwned, Owns, Active, Past
  <1>10. CASE ManualStart
    <2>1. manual' = manual + 1 /\ blindly' = blindly + 1
          /\ UNCHANGED <<key, redis, fire, envelope, period, reports, leaks, lost>>
      BY <1>10 DEF ManualStart
    <2>2. PJTypeOK'
      BY <1>0, <2>1 DEF PJTypeOK
    <2>3. CountInv' /\ ReportsBounded'
      BY <1>0, <1>9, <2>1, PastActive DEF CountInv, Covered, ReportsBounded, PJTypeOK
    <2>. QED
      BY <1>9, <2>1, <2>2, <2>3 DEF PJInv, ReportsAndEnvelopes
  <1>11. CASE ManualEnd
    <2>1. manual > 0 /\ manual' = manual - 1 /\ (Writes \/ UNCHANGED reports)
          /\ UNCHANGED <<key, redis, fire, envelope, period, leaks, blindly, lost>>
      BY <1>11 DEF ManualEnd
    <2>2. period \in Periods /\ reports \in [Periods -> Nat]
      BY <1>0 DEF PJTypeOK
    <2>3. /\ reports' \in [Periods -> Nat] /\ \A p \in Periods \ {period} : reports'[p] = reports[p]
          /\ reports'[period] <= reports[period] + 1
      BY <2>1, <2>2 DEF Writes
    <2>4. PJTypeOK'
      BY <1>0, <2>1, <2>3 DEF PJTypeOK
    <2>5. CountInv'
      <3>1. Cardinality(Past') = Cardinality(Past) /\ Cardinality(Active') = Cardinality(Active)
            /\ Cardinality(Past) \in Nat
        BY <1>9, <2>1, PastActive
      <3>2. reports[period] \in Nat /\ reports'[period] \in Nat
        BY <2>2, <2>3
      <3>3. reports'[period] + Cardinality(Past) + manual' <= 1 + leaks + blindly
        <4>1. reports[period] + Cardinality(Past) + manual <= 1 + leaks + blindly
          BY <1>0 DEF CountInv
        <4>2. manual' = manual - 1 /\ {manual, leaks, blindly} \subseteq Nat
          BY <1>0, <2>1
        <4>3. Cardinality(Past) \in Nat
          BY <3>1
        <4>. QED
          BY <2>3, <3>2, <4>1, <4>2, <4>3
      <3>4. \A p \in Periods : p > period => reports'[p] = 0
        BY <1>0, <2>2, <2>3 DEF CountInv, Periods
      <3>5. manual' <= blindly
        BY <1>0, <2>1 DEF CountInv
      <3>. QED
        BY <1>0, <2>1, <3>1, <3>3, <3>4, <3>5 DEF CountInv, Covered
    <2>6. ReportsBounded'
      <3>1. reports'[period] <= 1 + leaks + blindly
        BY <1>0, <1>9, <2>1, <2>2, <2>3, <2>5, PastActive DEF CountInv
      <3>. QED
        BY <1>0, <2>1, <2>3, <3>1 DEF ReportsBounded
    <2>. QED
      BY <1>9, <2>1, <2>4, <2>5, <2>6 DEF PJInv, ReportsAndEnvelopes
  <1>12. CASE KeyExpires
    <2>1. /\ key /\ key' = FALSE
          /\ UNCHANGED <<redis, fire, manual, envelope, period, reports, blindly, lost>>
          /\ (Active = {} /\ leaks' = leaks) \/ leaks' = leaks + 1
      BY <1>12 DEF KeyExpires
    <2>2. PJTypeOK'
      <3>1. key' \in BOOLEAN
        BY <2>1, Zenon
      <3>. QED
        BY <1>0, <2>1, <3>1 DEF PJTypeOK
    <2>3. Covered = 1 /\ Covered' = 0
      BY <2>1 DEF Covered
    <2>4. Cardinality(Active') <= leaks'
      <3>1. CASE Active = {} /\ leaks' = leaks
        BY <1>0, <1>9, <2>1, <3>1, FS_EmptySet
      <3>2. CASE leaks' = leaks + 1
        BY <1>0, <1>9, <2>1, <2>3, <3>2, PastActive DEF CountInv
      <3>. QED
        BY <2>1, <3>1, <3>2
    <2>5. leaks' \in Nat /\ leaks' >= leaks /\ Cardinality(Past') = Cardinality(Past)
      BY <1>0, <1>9, <2>1
    <2>6. reports[period] \in Nat /\ Cardinality(Past) \in Nat /\ reports \in [Periods -> Nat]
      BY <1>0, PastActive DEF PJTypeOK
    <2>7. CountInv'
      <3>1. reports[period] + Cardinality(Past) + manual <= 1 + leaks' + blindly
        BY <1>0, <2>5, <2>6 DEF CountInv
      <3>2. Cardinality(Active') <= leaks' + Covered'
        BY <2>3, <2>4, <2>5, <1>9, <2>1, PastActive
      <3>. QED
        BY <1>0, <2>1, <2>5, <3>1, <3>2 DEF CountInv
    <2>8. ReportsBounded'
      BY <1>0, <2>1, <2>5, <2>6 DEF ReportsBounded
    <2>. QED
      BY <1>9, <2>1, <2>2, <2>7, <2>8 DEF PJInv, ReportsAndEnvelopes
  <1>13. CASE RedisFails \/ RedisReturns
    <2>1. redis' \in BOOLEAN
          /\ UNCHANGED <<key, fire, manual, envelope, period, reports, leaks, blindly, lost>>
      BY <1>13 DEF RedisFails, RedisReturns
    <2>2. PJTypeOK'
      BY <1>0, <2>1 DEF PJTypeOK
    <2>3. CountInv' /\ ReportsBounded'
      BY <1>0, <1>9, <2>1, SameCounts, PastActive
    <2>. QED
      BY <1>9, <2>1, <2>2, <2>3 DEF PJInv, ReportsAndEnvelopes
  <1>14. CASE NextPeriod
    <2>1. period < MaxPeriods /\ period' = period + 1
          /\ UNCHANGED <<key, redis, manual, fire, envelope, reports, leaks, blindly, lost>>
      BY <1>14 DEF NextPeriod
    <2>2. period \in Periods /\ period' \in Periods /\ MaxPeriods \in Nat /\ period \in Nat
      BY <1>0, <2>1, PeriodicJobAssumption DEF PJTypeOK, Periods, PeriodicJobAssumption
    <2>3. reports[period'] = 0 /\ \A p \in Periods : p > period' => reports[p] = 0
      BY <1>0, <2>1, <2>2 DEF CountInv, Periods
    <2>4. PJTypeOK'
      BY <1>0, <2>1, <2>2 DEF PJTypeOK
    <2>5. CountInv' /\ ReportsBounded'
      BY <1>0, <1>9, <2>1, <2>3, PastActive DEF CountInv, Covered, ReportsBounded
    <2>. QED
      BY <1>9, <2>1, <2>4, <2>5 DEF PJInv, ReportsAndEnvelopes
  <1>15. CASE UNCHANGED pjVars
    <2>1. PJTypeOK' /\ CountInv' /\ ReportsBounded'
      BY <1>0, <1>9, <1>15, SameCounts, PastActive DEF pjVars, PJTypeOK
    <2>. QED
      BY <1>9, <1>15, <2>1 DEF pjVars, PJInv, ReportsAndEnvelopes
  <1>. QED
    BY <1>1, <1>2, <1>3, <1>4, <1>5, <1>6, <1>7, <1>8, <1>10, <1>11, <1>12, <1>13, <1>14, <1>15
    DEF PJNext

\* The unconditional DEL in fire's finally never multiplies firings: they are at
\* most the one the key covers and one per expiry or outage, for any number of
\* processes.
THEOREM FiringsHold == PJSpec => []FiringsBounded
  <1>1. PJInv => FiringsBounded
    BY DEF PJInv, CountInv, Covered, FiringsBounded
  <1>. QED
    BY <1>1, InitPJInv, NextPJInv, PTL DEF PJSpec

\* The period guards keep a job to one report per period, plus one for each firing
\* nothing covered and each run no guard answered for; and an envelope is running
\* exactly while a firing will close it or after its close was lost.
THEOREM ReportsHold == PJSpec => []ReportsAndEnvelopes
  <1>1. PJInv => ReportsAndEnvelopes
    BY DEF PJInv
  <1>. QED
    BY <1>1, InitPJInv, NextPJInv, PTL DEF PJSpec

-----------------------------------------------------------------------------
(* User-defined jobs, for any number of runs, requests, jobs and accidents:  *)
(* what a run's hook delivers to the inbox and to the job's row.             *)

LEMMA HookFacts ==
    /\ \A h \in Hooks : h[1] \in Runs
    /\ \A r \in Runs, k \in {"parked", "ended", "reconcile"} :
            <<r, k>> \in Hooks /\ <<r, k>>[1] = r
  BY DEF Hooks

LEMMA RunFacts == UserJobsAssumption => /\ Runs \subseteq 0..NumRuns
                                        /\ 0 \notin Runs
                                        /\ \A n \in 0..NumRuns : n # 0 => n \in Runs
  BY DEF UserJobsAssumption, Runs

LEMMA JobsInitInv == UserJobsAssumption /\ JobsInit => JobsInv
  <1>. SUFFICES ASSUME UserJobsAssumption, JobsInit PROVE JobsInv
    OBVIOUS
  <1>1. JobsTypeOK
    BY RunFacts DEF JobsInit, JobsTypeOK, NoHook, RunStates, UserJobsAssumption
  <1>2. /\ job.run = 0 /\ \A r \in Runs : jobRun[r] = "none" /\ inbox[r] = 0 /\ r # 0
        /\ \A f \in Triggers : firing[f] = 0
        /\ \A h \in Hooks : hook[h].at = "idle"
    BY RunFacts DEF JobsInit, NoHook
  <1>. QED
    BY <1>1, <1>2, HookFacts DEF JobsInv, NeverTwice, NotRecorded, HooksAlone, Settling, Delivered

\* The actions, one by one: what a proof of a step splits on.
LEMMA JobsSteps ==
    ASSUME [JobsNext]_jobVars
    PROVE  \/ \E f \in Triggers : \/ \E r \in Runs : StartRun(f, r)
                                  \/ RecordRun(f) \/ RecordFails(f) \/ StartFails(f)
           \/ \E r \in Runs : \/ RunParks(r) \/ RunResumes(r) \/ RunCancelled(r)
                              \/ \E s \in Delivered : RunEnds(r, s)
           \/ \E h \in Hooks : \/ FindOwner(h) \/ ReadOutcome(h) \/ SyncJob(h)
                               \/ CheckInbox(h) \/ InsertItem(h) \/ HookFails(h)
           \/ Restarts \/ Reconcile \/ ReconcileFails \/ UNCHANGED jobVars
  BY DEF JobsNext, HookStep

\* The hook of an event begins: the run is crossed if another one is at work.
LEMMA BeginEffect ==
    ASSUME JobsTypeOK, NEW r \in Runs, NEW k \in {"parked", "ended", "reconcile"}, Begin(r, k)
    PROVE  \E b \in Hooks :
           /\ b = <<r, k>> /\ b[1] = r
           /\ hook[b].at = "idle" /\ hook'[b].at = "owner"
           /\ hook' \in [Hooks -> [at : {"idle", "owner", "read", "sync", "check", "insert"},
                                  saw : RunStates]]
           /\ \A h \in Hooks : h # b => hook'[h] = hook[h]
           /\ crossed \subseteq crossed' /\ crossed' \subseteq crossed \cup {r}
           /\ crossed' \subseteq Runs /\ cut' = cut \ {r}
           /\ \A h \in Hooks : h[1] = r /\ hook[h].at # "idle" => r \in crossed'
  <1>. DEFINE b == <<r, k>>
  <1>1. b \in Hooks /\ b[1] = r
    BY HookFacts
  <1>2. /\ hook[b].at = "idle" /\ hook' = [hook EXCEPT ![b].at = "owner"]
        /\ crossed' = IF Busy(r) # {} THEN crossed \cup {r} ELSE crossed
        /\ cut' = cut \ {r}
    BY DEF Begin
  <1>. HIDE DEF b
  <1>3. /\ hook'[b].at = "owner" /\ \A h \in Hooks : h # b => hook'[h] = hook[h]
        /\ hook' \in [Hooks -> [at : {"idle", "owner", "read", "sync", "check", "insert"},
                               saw : RunStates]]
    BY <1>1, <1>2 DEF JobsTypeOK
  <1>4. \A h \in Hooks : h[1] = r /\ hook[h].at # "idle" => r \in crossed'
    BY <1>2 DEF Busy
  <1>5. crossed \subseteq crossed' /\ crossed' \subseteq crossed \cup {r} /\ crossed' \subseteq Runs
    BY <1>2 DEF JobsTypeOK
  <1>6. b = <<r, k>>
    BY DEF b
  <1>. QED
    BY <1>1, <1>2, <1>3, <1>4, <1>5, <1>6

\* A hook that ends early leaves the others alone.
LEMMA EndsEarlyEffect ==
    ASSUME JobsTypeOK, NEW h \in Hooks, EndsEarly(h)
    PROVE  /\ hook[h].at # "idle" /\ hook'[h].at = "idle" /\ h[1] \in Runs
           /\ hook' \in [Hooks -> [at : {"idle", "owner", "read", "sync", "check", "insert"},
                                  saw : RunStates]]
           /\ \A g \in Hooks : g # h => hook'[g] = hook[g]
           /\ cut' = cut \cup {h[1]}
  BY HookFacts DEF EndsEarly, JobsTypeOK, NoHook, RunStates

\* Runner.cancel may end a hook, and cancels a run that has not ended.
LEMMA CancelEffect ==
    ASSUME JobsTypeOK, NEW r \in Runs, RunCancelled(r)
    PROVE  /\ jobRun[r] # "none" /\ jobRun' \in [Runs -> RunStates]
           /\ \A q \in Runs : \/ jobRun'[q] = jobRun[q]
                              \/ jobRun[q] # "none" /\ jobRun'[q] = "cancelled"
           /\ UNCHANGED <<hook, cut>> \/ \E h \in Hooks : EndsEarly(h)
           /\ UNCHANGED <<job, firing, inbox, boot, early, crossed>>
  BY HookFacts DEF RunCancelled, JobsTypeOK, RunStates

LEMMA JobsTypeStep == UserJobsAssumption /\ JobsInv /\ [JobsNext]_jobVars => JobsTypeOK'
  <1>. SUFFICES ASSUME UserJobsAssumption, JobsTypeOK, [JobsNext]_jobVars PROVE JobsTypeOK'
    BY DEF JobsInv
  <1>. USE RunFacts DEF JobsTypeOK, RunStates
  <1>1. ASSUME NEW r \in Runs, NEW k \in {"parked", "ended", "reconcile"}, Begin(r, k)
        PROVE  /\ hook' \in [Hooks -> [at : {"idle", "owner", "read", "sync", "check", "insert"},
                                       saw : RunStates]]
               /\ crossed' \subseteq Runs /\ cut' \subseteq Runs
    BY <1>1, BeginEffect
  <1>2. ASSUME NEW f \in Triggers, NEW r \in Runs, StartRun(f, r) PROVE JobsTypeOK'
    BY <1>2 DEF StartRun
  <1>3. ASSUME NEW f \in Triggers, RecordRun(f) \/ RecordFails(f) \/ StartFails(f)
        PROVE  JobsTypeOK'
    BY <1>3 DEF RecordRun, RecordFails, StartFails, UserJobsAssumption
  <1>4. ASSUME NEW r \in Runs, RunParks(r) PROVE JobsTypeOK'
    BY <1>1, <1>4 DEF RunParks
  <1>5. ASSUME NEW r \in Runs, NEW s \in Delivered, RunEnds(r, s) PROVE JobsTypeOK'
    BY <1>1, <1>5 DEF RunEnds, Delivered
  <1>13. ASSUME NEW h \in Hooks, EndsEarly(h)
         PROVE  /\ hook' \in [Hooks -> [at : {"idle", "owner", "read", "sync", "check", "insert"},
                                        saw : RunStates]]
                /\ cut' \subseteq Runs
    BY <1>13, EndsEarlyEffect
  <1>6. ASSUME NEW r \in Runs, RunResumes(r) \/ RunCancelled(r) PROVE JobsTypeOK'
    <2>1. CASE RunResumes(r)
      BY <2>1 DEF RunResumes
    <2>2. CASE RunCancelled(r)
      BY <2>2, <1>13, CancelEffect
    <2>. QED
      BY <1>6, <2>1, <2>2
  <1>7. ASSUME NEW h \in Hooks, FindOwner(h) \/ ReadOutcome(h) \/ CheckInbox(h) PROVE JobsTypeOK'
    BY <1>7, HookFacts DEF FindOwner, ReadOutcome, CheckInbox, NoHook
  <1>8. ASSUME NEW h \in Hooks, SyncJob(h) PROVE JobsTypeOK'
    BY <1>8, HookFacts DEF SyncJob, NoHook
  <1>9. ASSUME NEW h \in Hooks, InsertItem(h) PROVE JobsTypeOK'
    BY <1>9, HookFacts DEF InsertItem, NoHook
  <1>14. ASSUME NEW h \in Hooks, HookFails(h) PROVE JobsTypeOK'
    BY <1>13, <1>14 DEF HookFails
  <1>15. CASE ReconcileFails
    BY <1>15 DEF ReconcileFails
  <1>10. CASE Restarts
    BY <1>10 DEF Restarts, NoHook, UserJobsAssumption
  <1>11. CASE Reconcile
    BY <1>1, <1>11 DEF Reconcile
  <1>12. CASE UNCHANGED jobVars
    BY <1>12 DEF jobVars
  <1>. QED
    BY JobsSteps, <1>2, <1>3, <1>4, <1>5, <1>6, <1>7, <1>8, <1>9, <1>10, <1>11, <1>12,
       <1>14, <1>15

LEMMA AloneStep ==
    UserJobsAssumption /\ JobsInv /\ [JobsNext]_jobVars => (NeverTwice /\ HooksAlone)'
  <1>. SUFFICES ASSUME UserJobsAssumption, JobsInv, [JobsNext]_jobVars
                PROVE  (NeverTwice /\ HooksAlone)'
    OBVIOUS
  <1>1. JobsTypeOK /\ NeverTwice /\ HooksAlone /\ NotRecorded
    BY DEF JobsInv
  <1>. USE HookFacts DEF NeverTwice, HooksAlone, JobsTypeOK
  <1>2. ASSUME NEW r \in Runs, NEW k \in {"parked", "ended", "reconcile"}, Begin(r, k),
               UNCHANGED inbox, \A q \in Runs \ {r} : jobRun'[q] = jobRun[q]
        PROVE  (NeverTwice /\ HooksAlone)'
    <2>1. PICK b \in Hooks :
            /\ b[1] = r
            /\ hook'[b].at = "owner" /\ \A h \in Hooks : h # b => hook'[h] = hook[h]
            /\ crossed \subseteq crossed'
            /\ \A h \in Hooks : h[1] = r /\ hook[h].at # "idle" => r \in crossed'
      <3>. HIDE DEF JobsTypeOK, HooksAlone, NeverTwice
      <3>. QED
        BY <1>1, <1>2, BeginEffect
    <2>2. ASSUME NEW h \in Hooks, NEW g \in Hooks,
                 h # g, h[1] = g[1], hook'[h].at # "idle", hook'[g].at # "idle"
          PROVE  h[1] \in crossed'
      BY <1>1, <2>1, <2>2
    <2>3. ASSUME NEW h \in Hooks, h[1] \notin crossed'
          PROVE  /\ hook'[h].at = "insert" => inbox'[h[1]] = 0
                 /\ hook'[h].at = "sync" /\ jobRun'[h[1]] \in Delivered =>
                        hook'[h].saw = jobRun'[h[1]]
      <3>1. CASE h = b
        BY <2>1, <3>1
      <3>2. CASE h # b /\ hook[h].at = "idle"
        BY <2>1, <3>2
      <3>3. CASE h # b /\ hook[h].at # "idle"
        BY <1>1, <1>2, <2>1, <2>3, <3>3
      <3>. QED
        BY <3>1, <3>2, <3>3
    <2>. QED
      BY <1>1, <1>2, <2>1, <2>2, <2>3
  <1>3. ASSUME UNCHANGED <<hook, inbox, crossed>>,
               \A q \in Runs : jobRun'[q] = jobRun[q] \/ jobRun'[q] \notin Delivered
        PROVE  (NeverTwice /\ HooksAlone)'
    BY <1>1, <1>3
  <1>15. ASSUME NEW h \in Hooks, EndsEarly(h), UNCHANGED <<inbox, crossed>>,
                \A q \in Runs : jobRun'[q] = jobRun[q] \/ jobRun'[q] \notin Delivered
         PROVE  (NeverTwice /\ HooksAlone)'
    <2>1. hook'[h].at = "idle" /\ \A g \in Hooks : g # h => hook'[g] = hook[g]
      <3>. HIDE DEF JobsTypeOK, HooksAlone, NeverTwice
      <3>. QED
        BY <1>1, <1>15, EndsEarlyEffect
    <2>. QED
      BY <1>1, <1>15, <2>1
  <1>4. CASE \E f \in Triggers : \/ \E r \in Runs : StartRun(f, r)
                                 \/ RecordRun(f) \/ RecordFails(f) \/ StartFails(f)
    BY <1>1, <1>3, <1>4 DEF StartRun, RecordRun, RecordFails, StartFails, Delivered
  <1>5. CASE \E r \in Runs : RunResumes(r) \/ RunCancelled(r)
    <2>1. ASSUME NEW r \in Runs, RunResumes(r) PROVE (NeverTwice /\ HooksAlone)'
      BY <1>1, <1>3, <2>1 DEF RunResumes, Delivered
    <2>2. ASSUME NEW r \in Runs, RunCancelled(r) PROVE (NeverTwice /\ HooksAlone)'
      <3>1. /\ UNCHANGED <<hook, cut>> \/ \E h \in Hooks : EndsEarly(h)
            /\ UNCHANGED <<inbox, crossed>>
            /\ \A q \in Runs : jobRun'[q] = jobRun[q] \/ jobRun'[q] \notin Delivered
        <4>. HIDE DEF JobsTypeOK, HooksAlone, NeverTwice
        <4>. QED
          BY <1>1, <2>2, CancelEffect DEF Delivered
      <3>. HIDE DEF JobsTypeOK, HooksAlone, NeverTwice
      <3>. QED
        BY <1>3, <1>15, <3>1
    <2>. QED
      BY <1>5, <2>1, <2>2
  <1>16. ASSUME NEW h \in Hooks, HookFails(h) PROVE (NeverTwice /\ HooksAlone)'
    <2>1. EndsEarly(h) /\ UNCHANGED <<jobRun, inbox, crossed>>
      BY <1>16 DEF HookFails
    <2>. HIDE DEF JobsTypeOK, HooksAlone, NeverTwice
    <2>. QED
      BY <1>15, <2>1
  <1>17. CASE ReconcileFails
    BY <1>1, <1>17 DEF ReconcileFails
  <1>6. CASE \E r \in Runs : RunParks(r) \/ \E s \in Delivered : RunEnds(r, s)
    BY <1>1, <1>2, <1>6 DEF RunParks, RunEnds
  <1>7. ASSUME NEW h \in Hooks, FindOwner(h) PROVE (NeverTwice /\ HooksAlone)'
    BY <1>1, <1>7 DEF FindOwner, NoHook
  <1>8. ASSUME NEW h \in Hooks, ReadOutcome(h) PROVE (NeverTwice /\ HooksAlone)'
    BY <1>1, <1>8 DEF ReadOutcome, NoHook
  <1>9. ASSUME NEW h \in Hooks, SyncJob(h) PROVE (NeverTwice /\ HooksAlone)'
    BY <1>1, <1>9 DEF SyncJob, NoHook
  <1>10. ASSUME NEW h \in Hooks, CheckInbox(h) PROVE (NeverTwice /\ HooksAlone)'
    BY <1>1, <1>10 DEF CheckInbox, NoHook
  <1>11. ASSUME NEW h \in Hooks, InsertItem(h) PROVE (NeverTwice /\ HooksAlone)'
    BY <1>1, <1>11 DEF InsertItem, NoHook
  <1>12. CASE Restarts
    BY <1>1, <1>12 DEF Restarts, NoHook
  <1>13. CASE Reconcile
    <2>1. job.run # 0 => job.run \in Runs
      BY <1>1, RunFacts
    <2>. QED
      BY <1>1, <1>2, <1>13, <2>1 DEF Reconcile
  <1>14. CASE UNCHANGED jobVars
    BY <1>1, <1>14 DEF jobVars
  <1>. QED
    BY JobsSteps, <1>4, <1>5, <1>6, <1>7, <1>8, <1>9, <1>10, <1>11, <1>12, <1>13, <1>14,
       <1>16, <1>17

LEMMA NotRecordedStep ==
    UserJobsAssumption /\ JobsInv /\ [JobsNext]_jobVars => NotRecorded'
  <1>. SUFFICES ASSUME UserJobsAssumption, JobsInv, [JobsNext]_jobVars PROVE NotRecorded'
    OBVIOUS
  <1>1. JobsTypeOK /\ NotRecorded
    BY DEF JobsInv
  <1>. USE HookFacts, RunFacts DEF NotRecorded, JobsTypeOK
  <1>2. ASSUME NEW r \in Runs, NEW k \in {"parked", "ended", "reconcile"}, Begin(r, k),
               UNCHANGED <<job, firing>>, early \subseteq early' \cup {job.run},
               jobRun[r] # "none" /\ jobRun'[r] # "none",
               \A q \in Runs \ {r} : jobRun'[q] = jobRun[q],
               k = "ended" \/ jobRun'[r] \notin Delivered \/ job.run = r
        PROVE  NotRecorded'
    <2>1. PICK b \in Hooks :
            /\ b = <<r, k>> /\ b[1] = r
            /\ hook'[b].at = "owner" /\ \A h \in Hooks : h # b => hook'[h] = hook[h]
            /\ cut' = cut \ {r}
      <3>. HIDE DEF JobsTypeOK, NotRecorded
      <3>. QED
        BY <1>1, <1>2, BeginEffect
    <2>2. ASSUME NEW q \in Runs, jobRun'[q] = "none"
          PROVE  /\ job'.run # q /\ \A f \in Triggers : firing'[f] # q
                 /\ \A h \in Hooks : h[1] = q => hook'[h].at = "idle"
      BY <1>1, <1>2, <2>1, <2>2
    <2>3. ASSUME NEW f \in Triggers, firing'[f] # 0
          PROVE  /\ job'.run # firing'[f]
                 /\ \A g \in Triggers \ {f} : firing'[g] # firing'[f]
                 /\ \A h \in Hooks : h[1] = firing'[f] => hook'[h].at \in {"idle", "owner"}
      <3>1. /\ job.run # firing[f] /\ \A g \in Triggers \ {f} : firing[g] # firing[f]
            /\ \A h \in Hooks : h[1] = firing[f] => hook[h].at \in {"idle", "owner"}
        BY <1>1, <1>2, <2>3
      <3>2. ASSUME NEW h \in Hooks, h[1] = firing[f] PROVE hook'[h].at \in {"idle", "owner"}
        BY <2>1, <3>1, <3>2
      <3>. QED
        BY <1>2, <3>1, <3>2
    <2>4. ASSUME NEW f \in Triggers, firing'[f] # 0,
                 jobRun'[firing'[f]] \in Delivered, firing'[f] \notin early' \cup cut'
          PROVE  hook'[<<firing'[f], "ended">>].at = "owner"
      <3>. DEFINE e == <<firing[f], "ended">>
      <3>1. firing[f] \in Runs /\ e \in Hooks /\ firing'[f] = firing[f]
        BY <1>1, <1>2, <2>4
      <3>4. CASE firing[f] # r
        <4>1. jobRun[firing[f]] \in Delivered /\ job.run # firing[f]
          BY <1>1, <1>2, <2>4, <3>1, <3>4
        <4>2. firing[f] \notin early \cup cut
          BY <1>2, <2>1, <2>4, <3>1, <3>4, <4>1
        <4>3. hook[e].at = "owner" /\ e # b
          BY <1>1, <2>1, <2>4, <3>1, <3>4, <4>1, <4>2
        <4>4. hook'[e].at = "owner"
          BY <2>1, <3>1, <4>3
        <4>. QED
          BY <3>1, <4>4
      <3>3. CASE firing[f] = r /\ k = "ended"
        BY <2>1, <3>1, <3>3
      <3>5. CASE firing[f] = r /\ k # "ended"
        BY <1>1, <1>2, <2>4, <3>1, <3>5
      <3>. QED
        BY <3>3, <3>4, <3>5
    <2>. QED
      BY <2>2, <2>3, <2>4
  <1>3. ASSUME NEW h \in Hooks, hook[h].at \notin {"idle", "owner"},
               UNCHANGED <<job, firing, jobRun, early, cut>>,
               \A g \in Hooks \ {h} : hook'[g] = hook[g]
        PROVE  NotRecorded'
    <2>1. jobRun[h[1]] # "none" /\ \A f \in Triggers : firing[f] # h[1]
      <3>1. h[1] \in Runs /\ h[1] # 0
        OBVIOUS
      <3>2. \A f \in Triggers : firing[f] = h[1] => hook[h].at \in {"idle", "owner"}
        BY <1>1, <3>1
      <3>. QED
        BY <1>1, <1>3, <3>1, <3>2
    <2>2. \A f \in Triggers : firing[f] # 0 =>
              <<firing[f], "ended">> \in Hooks /\ <<firing[f], "ended">>[1] = firing[f]
      BY <1>1
    <2>3. \A f \in Triggers : firing[f] # 0 => <<firing[f], "ended">> # h
      BY <2>1, <2>2
    <2>. QED
      BY <1>1, <1>3, <2>1, <2>2, <2>3
  <1>4. ASSUME NEW f \in Triggers, NEW r \in Runs, StartRun(f, r) PROVE NotRecorded'
    BY <1>1, <1>4 DEF StartRun, Delivered
  <1>5. ASSUME NEW f \in Triggers, RecordRun(f) \/ RecordFails(f) \/ StartFails(f)
        PROVE  NotRecorded'
    BY <1>1, <1>5 DEF RecordRun, RecordFails, StartFails
  <1>15. ASSUME NEW h \in Hooks, EndsEarly(h), UNCHANGED <<job, firing, early>>,
                \A q \in Runs : \/ jobRun'[q] = jobRun[q]
                                \/ jobRun[q] # "none" /\ jobRun'[q] = "cancelled"
         PROVE  NotRecorded'
    <2>1. /\ hook[h].at # "idle" /\ hook'[h].at = "idle" /\ h[1] \in Runs
          /\ \A g \in Hooks : g # h => hook'[g] = hook[g]
          /\ cut' = cut \cup {h[1]}
      <3>. HIDE DEF JobsTypeOK, NotRecorded
      <3>. QED
        BY <1>1, <1>15, EndsEarlyEffect
    <2>2. \A q \in Runs : /\ jobRun'[q] = "none" => jobRun[q] = "none"
                          /\ jobRun'[q] \in Delivered => jobRun'[q] = jobRun[q]
      BY <1>15 DEF Delivered
    <2>3. ASSUME NEW q \in Runs, jobRun'[q] = "none"
          PROVE  /\ job'.run # q /\ \A f \in Triggers : firing'[f] # q
                 /\ \A g \in Hooks : g[1] = q => hook'[g].at = "idle"
      BY <1>1, <1>15, <2>1, <2>2, <2>3
    <2>4. ASSUME NEW f \in Triggers, firing'[f] # 0
          PROVE  /\ job'.run # firing'[f]
                 /\ \A g \in Triggers \ {f} : firing'[g] # firing'[f]
                 /\ \A g \in Hooks : g[1] = firing'[f] => hook'[g].at \in {"idle", "owner"}
      BY <1>1, <1>15, <2>1, <2>4
    <2>5. ASSUME NEW f \in Triggers, firing'[f] # 0,
                 jobRun'[firing'[f]] \in Delivered, firing'[f] \notin early' \cup cut'
          PROVE  hook'[<<firing'[f], "ended">>].at = "owner"
      <3>. DEFINE e == <<firing[f], "ended">>
      <3>1. firing[f] \in Runs /\ e \in Hooks /\ e[1] = firing[f] /\ firing'[f] = firing[f]
        BY <1>1, <1>15, <2>5
      <3>2. firing[f] \notin early \cup cut /\ firing[f] # h[1]
        BY <1>15, <2>1, <2>5, <3>1
      <3>3. hook[e].at = "owner"
        BY <1>1, <2>2, <2>5, <3>1, <3>2
      <3>4. e # h
        BY <3>1, <3>2
      <3>. HIDE DEF e
      <3>5. hook'[e].at = "owner"
        BY <2>1, <3>1, <3>3, <3>4
      <3>. QED
        BY <3>1, <3>5 DEF e
    <2>. QED
      BY <2>3, <2>4, <2>5
  <1>6. ASSUME NEW r \in Runs, RunResumes(r) \/ RunCancelled(r) PROVE NotRecorded'
    <2>1. CASE RunResumes(r)
      BY <1>1, <2>1 DEF RunResumes, Delivered
    <2>2. CASE RunCancelled(r)
      <3>1. /\ UNCHANGED <<hook, cut>> \/ \E h \in Hooks : EndsEarly(h)
            /\ UNCHANGED <<job, firing, early>>
            /\ \A q \in Runs : \/ jobRun'[q] = jobRun[q]
                               \/ jobRun[q] # "none" /\ jobRun'[q] = "cancelled"
        <4>. HIDE DEF JobsTypeOK, NotRecorded
        <4>. QED
          BY <1>1, <2>2, CancelEffect
      <3>2. CASE UNCHANGED <<hook, cut>>
        <4>1. \A q \in Runs : /\ jobRun'[q] = "none" => jobRun[q] = "none"
                              /\ jobRun'[q] \in Delivered => jobRun'[q] = jobRun[q]
          BY <3>1 DEF Delivered
        <4>. QED
          BY <1>1, <3>1, <3>2, <4>1
      <3>. HIDE DEF JobsTypeOK, NotRecorded
      <3>. QED
        BY <1>15, <3>1, <3>2
    <2>. QED
      BY <1>6, <2>1, <2>2
  <1>16. ASSUME NEW h \in Hooks, HookFails(h) PROVE NotRecorded'
    <2>1. EndsEarly(h) /\ UNCHANGED <<job, jobRun, firing, early>>
      BY <1>16 DEF HookFails
    <2>. HIDE DEF JobsTypeOK, NotRecorded
    <2>. QED
      BY <1>15, <2>1
  <1>17. CASE ReconcileFails
    BY <1>1, <1>17 DEF ReconcileFails
  <1>7. ASSUME NEW r \in Runs, RunParks(r) PROVE NotRecorded'
    BY <1>1, <1>2, <1>7 DEF RunParks, Driven, Delivered
  <1>8. ASSUME NEW r \in Runs, NEW s \in Delivered, RunEnds(r, s) PROVE NotRecorded'
    BY <1>1, <1>2, <1>8 DEF RunEnds, Driven, Delivered
  <1>9. ASSUME NEW h \in Hooks, FindOwner(h) PROVE NotRecorded'
    BY <1>1, <1>9 DEF FindOwner, NoHook
  <1>10. ASSUME NEW h \in Hooks, ReadOutcome(h) \/ CheckInbox(h) \/ InsertItem(h) PROVE NotRecorded'
    BY <1>1, <1>3, <1>10 DEF ReadOutcome, CheckInbox, InsertItem
  <1>11. ASSUME NEW h \in Hooks, SyncJob(h) PROVE NotRecorded'
    BY <1>1, <1>11 DEF SyncJob, NoHook
  <1>12. CASE Restarts
    BY <1>1, <1>12 DEF Restarts, NoHook
  <1>13. CASE Reconcile
    <2>1. /\ UNCHANGED <<job, jobRun, firing>> /\ early' = early \ {job.run}
          /\ IF job.run # 0 THEN Begin(job.run, "reconcile") ELSE UNCHANGED <<hook, crossed, cut>>
      BY <1>13 DEF Reconcile
    <2>2. CASE job.run # 0
      <3>1. job.run \in Runs /\ jobRun[job.run] # "none" /\ early \subseteq early' \cup {job.run}
        BY <1>1, <2>1, <2>2
      <3>. HIDE DEF JobsTypeOK, NotRecorded
      <3>. QED
        BY <1>2, <2>1, <2>2, <3>1
    <2>3. CASE job.run = 0
      BY <1>1, <2>1, <2>3
    <2>. QED
      BY <2>2, <2>3
  <1>14. CASE UNCHANGED jobVars
    BY <1>1, <1>14 DEF jobVars
  <1>. QED
    BY JobsSteps, <1>4, <1>5, <1>6, <1>7, <1>8, <1>9, <1>10, <1>11, <1>12, <1>13, <1>14,
       <1>16, <1>17

LEMMA SettlingStep ==
    UserJobsAssumption /\ JobsInv /\ [JobsNext]_jobVars => Settling'
  <1>. SUFFICES ASSUME UserJobsAssumption, JobsInv, [JobsNext]_jobVars PROVE Settling'
    OBVIOUS
  <1>1. JobsTypeOK /\ NotRecorded /\ HooksAlone /\ Settling
    BY DEF JobsInv
  <1>. USE HookFacts, RunFacts DEF Settling, JobsTypeOK, Upset
  <1>2. ASSUME NEW r \in Runs, NEW k \in {"parked", "ended", "reconcile"}, Begin(r, k),
               UNCHANGED <<job, inbox>>, early \subseteq early' \cup {r},
               boot' = boot \/ job.run = r,
               \A q \in Runs \ {r} : jobRun'[q] = jobRun[q]
        PROVE  Settling'
    <2>1. PICK b \in Hooks :
            /\ b[1] = r
            /\ hook'[b].at = "owner" /\ \A h \in Hooks : h # b => hook'[h] = hook[h]
            /\ hook[b].at = "idle" /\ crossed \subseteq crossed' /\ cut' = cut \ {r}
      <3>. HIDE DEF JobsTypeOK, Settling, Upset
      <3>. QED
        BY <1>1, <1>2, BeginEffect
    <2>. SUFFICES ASSUME NEW q \in Runs, job'.run = q, jobRun'[q] \in Delivered,
                         q \notin Upset'
                  PROVE  \/ boot'
                         \/ \E h \in Hooks : h[1] = q /\ hook'[h].at \in {"owner", "read", "sync"}
                         \/ /\ job'.status = jobRun'[q]
                            /\ \/ inbox'[q] > 0
                               \/ \E h \in Hooks : h[1] = q /\ hook'[h].at \in {"check", "insert"}
      BY DEF Settling
    <2>2. CASE q = r
      BY <2>1, <2>2
    <2>3. CASE q # r
      <3>1. \A h \in Hooks : h[1] = q => hook'[h] = hook[h]
        BY <2>1, <2>3
      <3>2. jobRun'[q] = jobRun[q] /\ job.run = q /\ q \notin Upset
        BY <1>2, <2>1, <2>3
      <3>3. (boot \/ boot') => boot'
        BY <1>2, <2>3, <3>2 DEF JobsTypeOK
      <3>. QED
        BY <1>1, <1>2, <3>1, <3>2, <3>3
    <2>. QED
      BY <2>2, <2>3
  <1>4. ASSUME NEW f \in Triggers, NEW r \in Runs, StartRun(f, r) PROVE Settling'
    BY <1>1, <1>4 DEF StartRun, Delivered
  <1>5. ASSUME NEW f \in Triggers, RecordFails(f) \/ StartFails(f) PROVE Settling'
    BY <1>1, <1>5 DEF RecordFails, StartFails
  <1>16. ASSUME NEW f \in Triggers, RecordRun(f) PROVE Settling'
    <2>1. /\ firing[f] \in Runs /\ job'.run = firing[f] /\ UNCHANGED <<hook, jobRun, early, cut>>
          /\ <<firing[f], "ended">> \in Hooks /\ <<firing[f], "ended">>[1] = firing[f]
      BY <1>1, <1>16 DEF RecordRun
    <2>2. jobRun[firing[f]] \in Delivered /\ firing[f] \notin early \cup cut =>
              hook[<<firing[f], "ended">>].at = "owner"
      BY <1>1, <2>1 DEF NotRecorded
    <2>. QED
      BY <2>1, <2>2
  <1>17. ASSUME NEW h \in Hooks, EndsEarly(h), UNCHANGED <<job, inbox, boot, early, crossed>>,
                \A q \in Runs : jobRun'[q] = jobRun[q] \/ jobRun'[q] \notin Delivered
         PROVE  Settling'
    <2>1. /\ h[1] \in Runs /\ cut' = cut \cup {h[1]}
          /\ \A g \in Hooks : g # h => hook'[g] = hook[g]
      <3>. HIDE DEF JobsTypeOK, Settling, Upset
      <3>. QED
        BY <1>1, <1>17, EndsEarlyEffect
    <2>. QED
      BY <1>1, <1>17, <2>1
  <1>6. ASSUME NEW r \in Runs, RunResumes(r) \/ RunCancelled(r) PROVE Settling'
    <2>1. CASE RunResumes(r)
      BY <1>1, <2>1 DEF RunResumes, Delivered
    <2>2. CASE RunCancelled(r)
      <3>1. /\ UNCHANGED <<hook, cut>> \/ \E h \in Hooks : EndsEarly(h)
            /\ UNCHANGED <<job, inbox, boot, early, crossed>>
            /\ \A q \in Runs : jobRun'[q] = jobRun[q] \/ jobRun'[q] \notin Delivered
        <4>. HIDE DEF JobsTypeOK, Settling, Upset
        <4>. QED
          BY <1>1, <2>2, CancelEffect DEF Delivered
      <3>2. CASE UNCHANGED <<hook, cut>>
        BY <1>1, <3>1, <3>2
      <3>. HIDE DEF JobsTypeOK, Settling, Upset
      <3>. QED
        BY <1>17, <3>1, <3>2
    <2>. QED
      BY <1>6, <2>1, <2>2
  <1>18. ASSUME NEW h \in Hooks, HookFails(h) PROVE Settling'
    <2>1. EndsEarly(h) /\ UNCHANGED <<job, jobRun, inbox, boot, early, crossed>>
      BY <1>18 DEF HookFails
    <2>. HIDE DEF JobsTypeOK, Settling, Upset
    <2>. QED
      BY <1>17, <2>1
  <1>19. CASE ReconcileFails
    BY <1>1, <1>19 DEF ReconcileFails
  <1>7. ASSUME NEW r \in Runs, RunParks(r) \/ \E s \in Delivered : RunEnds(r, s) PROVE Settling'
    BY <1>1, <1>2, <1>7 DEF RunParks, RunEnds
  <1>8. ASSUME NEW h \in Hooks, FindOwner(h) PROVE Settling'
    BY <1>1, <1>8 DEF FindOwner, NoHook
  <1>9. ASSUME NEW h \in Hooks, ReadOutcome(h) PROVE Settling'
    BY <1>1, <1>9 DEF ReadOutcome, NoHook
  <1>10. ASSUME NEW h \in Hooks, CheckInbox(h) PROVE Settling'
    BY <1>1, <1>10 DEF CheckInbox, NoHook
  <1>11. ASSUME NEW h \in Hooks, InsertItem(h) PROVE Settling'
    BY <1>1, <1>11 DEF InsertItem, NoHook
  <1>12. ASSUME NEW h \in Hooks, SyncJob(h) PROVE Settling'
    BY <1>1, <1>12 DEF SyncJob, NoHook, HooksAlone
  <1>13. CASE Restarts
    BY <1>1, <1>13 DEF Restarts, NoHook
  <1>14. CASE Reconcile
    <2>1. UNCHANGED <<job, jobRun, firing, inbox, disturbances>> /\ early' = early \ {job.run}
      BY <1>14 DEF Reconcile
    <2>2. CASE job.run # 0
      <3>1. job.run \in Runs
        BY <1>1, <2>2 DEF Runs
      <3>2. Begin(job.run, "reconcile") /\ boot' = FALSE
        BY <1>14, <2>2 DEF Reconcile
      <3>3. \A q \in Runs : jobRun'[q] = jobRun[q]
        BY <2>1
      <3>. HIDE DEF Settling, JobsTypeOK, Upset
      <3>. QED
        BY <1>2, <2>1, <3>1, <3>2, <3>3
    <2>3. CASE job.run = 0
      BY <2>1, <2>3
    <2>. QED
      BY <2>2, <2>3
  <1>15. CASE UNCHANGED jobVars
    BY <1>1, <1>15 DEF jobVars
  <1>. QED
    BY JobsSteps, <1>4, <1>5, <1>6, <1>7, <1>8, <1>9, <1>10, <1>11, <1>12, <1>13, <1>14, <1>15,
       <1>16, <1>18, <1>19

\* A finished run's output reaches the inbox at most once unless two of its events
\* crossed, and once all is quiet the run the row points at has been delivered and
\* the row tells its end, unless its event came before the job knew of it or its
\* last hook ended early, by an exception or a cancel, with no boot since.
THEOREM OutputsDelivered ==
    ASSUME UserJobsAssumption
    PROVE  JobsSpec => []DeliveredOnce
  <1>1. JobsInit => JobsInv
    BY JobsInitInv
  <1>2. JobsInv /\ [JobsNext]_jobVars => JobsInv'
    BY JobsTypeStep, AloneStep, NotRecordedStep, SettlingStep DEF JobsInv
  <1>3. JobsInv => DeliveredOnce
    BY DEF JobsInv, JobsTypeOK, DeliveredOnce, NeverTwice, Settling, LastRunSettled, Quiet, Upset
  <1>. QED
    BY <1>1, <1>2, <1>3, PTL DEF JobsSpec

-----------------------------------------------------------------------------
\* A set of numbers has a least one.
LEMMA LeastNumber ==
    ASSUME NEW S, S \subseteq Nat, S # {}
    PROVE  \E m \in S : \A y \in S : m <= y
  <1>. DEFINE R == OpToRel(<, Nat)
  <1>1. \A a, b \in Nat : a < b => <<a, b>> \in R
    BY DEF OpToRel
  <1>2. IsWellFoundedOn(R, Nat)
    BY NatLessThanWellFounded
  <1>. HIDE DEF R
  <1>3. PICK m \in S : \A y \in S : ~(<<y, m>> \in R)
    BY <1>2, WFMin
  <1>4. ASSUME NEW y \in S PROVE m <= y
    <2>1. m \in Nat /\ y \in Nat /\ ~(y < m)
      BY <1>1, <1>3
    <2>. QED
      BY <2>1
  <1>. QED
    BY <1>4

-----------------------------------------------------------------------------
(* Why next_due gives the first time a cadence names, for any slots and days: *)
(* each day is the date of one year and month, and a month begins where the   *)
(* one before it ends.                                                        *)

\* The days before each month: what the recursion of DaysBefore comes to.
Sums == <<0, 31, 59, 90, 120, 151, 181, 212, 243, 273, 304, 334, 365>>

LEMMA DaysBeforeIs ==
    DaysBefore = [m \in 1..13 |-> IF m = 1 THEN 0 ELSE DaysBefore[m - 1] + MonthLengths[m - 1]]
<1> DEFINE F(g) == [m \in 1..13 |-> IF m = 1 THEN 0 ELSE g[m - 1] + MonthLengths[m - 1]]
           t == [m \in 1..13 |-> Sums[m]]
<1>1. t = F(t)
  <2>1. ASSUME NEW m \in 1..13
        PROVE  Sums[m] = IF m = 1 THEN 0 ELSE t[m - 1] + MonthLengths[m - 1]
    BY DEF Sums, MonthLengths
  <2> QED BY <2>1, Zenon
<1>2. DaysBefore = CHOOSE g : g = F(g)
  BY Zenon DEF DaysBefore
<1> QED BY <1>1, <1>2, Zenon

LEMMA DaysBeforeValues ==
    /\ DaysBefore[1] = 0 /\ DaysBefore[2] = 31 /\ DaysBefore[3] = 59 /\ DaysBefore[4] = 90
    /\ DaysBefore[5] = 120 /\ DaysBefore[6] = 151 /\ DaysBefore[7] = 181
    /\ DaysBefore[8] = 212 /\ DaysBefore[9] = 243 /\ DaysBefore[10] = 273
    /\ DaysBefore[11] = 304 /\ DaysBefore[12] = 334 /\ DaysBefore[13] = 365
<1> DEFINE D == DaysBefore
<1>0. ASSUME NEW m \in 1..12
      PROVE  D[m + 1] = D[m] + MonthLengths[m]
  <2>1. m + 1 \in 1..13 /\ m + 1 # 1 /\ (m + 1) - 1 = m
    OBVIOUS
  <2>2. D[m + 1] = IF m + 1 = 1 THEN 0 ELSE D[(m + 1) - 1] + MonthLengths[(m + 1) - 1]
    BY <2>1, DaysBeforeIs, Zenon
  <2> QED BY <2>1, <2>2, Zenon
<1>1. D[1] = 0
  <2>1. 1 \in 1..13
    OBVIOUS
  <2> QED BY <2>1, DaysBeforeIs, Zenon
<1> HIDE DEF D
<1>2. D[2] = 31 /\ D[3] = 59 /\ D[4] = 90 /\ D[5] = 120
  BY <1>0, <1>1 DEF MonthLengths
<1>3. D[6] = 151 /\ D[7] = 181 /\ D[8] = 212 /\ D[9] = 243
  BY <1>0, <1>2 DEF MonthLengths
<1>4. D[10] = 273 /\ D[11] = 304 /\ D[12] = 334 /\ D[13] = 365
  BY <1>0, <1>3 DEF MonthLengths
<1> QED BY <1>1, <1>2, <1>3, <1>4, Zenon DEF D

\* The first day of a month of a year, and its length.
First(y, m) == 365 * (y - 1) + DaysBefore[m]
Long(m) == DaysBefore[m + 1] - DaysBefore[m]

LEMMA MonthFacts ==
    /\ \A m \in 1..13 : DaysBefore[m] \in 0..365
    /\ \A m \in 1..12 : Long(m) \in 28..31 /\ DaysBefore[m + 1] = DaysBefore[m] + Long(m)
    /\ \A m, k \in 1..13 : m < k => DaysBefore[m] < DaysBefore[k]
<1> DEFINE D == DaysBefore
<1>1. /\ D[1] = 0 /\ D[2] = 31 /\ D[3] = 59 /\ D[4] = 90
      /\ D[5] = 120 /\ D[6] = 151 /\ D[7] = 181
      /\ D[8] = 212 /\ D[9] = 243 /\ D[10] = 273
      /\ D[11] = 304 /\ D[12] = 334 /\ D[13] = 365
  BY DaysBeforeValues
<1> HIDE DEF D
<1>2. \A m \in 1..13 : D[m] \in 0..365
  BY <1>1
<1>3. \A m \in 1..12 : D[m + 1] - D[m] \in 28..31 /\ D[m + 1] = D[m] + (D[m + 1] - D[m])
  BY <1>1
<1>4. \A m, k \in 1..13 : m < k => D[m] < D[k]
  BY <1>1
<1> QED BY <1>2, <1>3, <1>4, Zenon DEF D, Long

\* A day of the month of a year is that date ...
LEMMA DateOfDay ==
    ASSUME NEW y \in Nat \ {0}, NEW m \in 1..12, NEW d \in 1..Long(m)
    PROVE  /\ DateOf(First(y, m) + d - 1) = Date(y, m, d)
           /\ DayOf(Date(y, m, d)) = First(y, m) + d - 1
           /\ First(y, m) + d - 1 \in Nat
<1> DEFINE n == First(y, m) + d - 1
           rest == DaysBefore[m] + d - 1
           Holds(k) == DaysBefore[k] <= rest /\ rest < DaysBefore[k + 1]
<1>1. /\ DaysBefore[m] \in 0..365 /\ DaysBefore[m + 1] \in 0..365 /\ Long(m) \in 28..31
      /\ DaysBefore[m + 1] = DaysBefore[m] + Long(m)
  BY MonthFacts
<1>2. rest \in 0..364 /\ Holds(m) /\ n = 365 * (y - 1) + rest /\ n \in Nat
  <2> DEFINE a == DaysBefore[m]
             b == DaysBefore[m + 1]
             l == Long(m)
  <2>1. a \in 0..365 /\ b \in 0..365 /\ l \in 28..31 /\ b = a + l /\ d \in 1..l
    BY <1>1
  <2> HIDE DEF a, b, l
  <2>2. a + d - 1 \in 0..364 /\ a <= a + d - 1 /\ a + d - 1 < b
    BY <2>1
  <2>3. 365 * (y - 1) + a + d - 1 = 365 * (y - 1) + (a + d - 1)
        /\ 365 * (y - 1) + a + d - 1 \in Nat
    BY <2>1
  <2> QED BY <2>2, <2>3, Zenon DEF First, a, b
<1>3. n \div 365 + 1 = y /\ n % 365 = rest
  <2> HIDE DEF n, rest
  <2> QED BY <1>2
<1>4. ASSUME NEW k \in 1..12, Holds(k)
      PROVE  k = m
  <2>1. \A a, b \in 1..13 : a < b => DaysBefore[a] < DaysBefore[b]
    BY MonthFacts
  <2>2. \A a \in 1..13 : DaysBefore[a] \in 0..365
    BY MonthFacts
  <2> HIDE DEF rest
  <2>3. ~(k < m)
    <3> SUFFICES ASSUME k < m PROVE FALSE
      OBVIOUS
    <3>1. k + 1 = m \/ k + 1 < m
      OBVIOUS
    <3> DEFINE u == DaysBefore[k + 1]
               v == DaysBefore[m]
    <3>2. k + 1 \in 1..13 /\ m \in 1..13
      OBVIOUS
    <3>3. u = v \/ u < v
      BY <2>1, <3>1, <3>2, Zenon
    <3>4. u \in 0..365 /\ v \in 0..365
      BY <2>2, <3>2, Zenon
    <3>5. v <= rest /\ rest < u
      BY <1>2, <1>4, Zenon
    <3>6. rest \in 0..364
      BY <1>2
    <3> HIDE DEF u, v
    <3> QED BY <3>3, <3>4, <3>5, <3>6
  <2>4. ~(m < k)
    <3> SUFFICES ASSUME m < k PROVE FALSE
      OBVIOUS
    <3>1. m + 1 = k \/ m + 1 < k
      OBVIOUS
    <3> DEFINE u == DaysBefore[m + 1]
               v == DaysBefore[k]
    <3>2. m + 1 \in 1..13 /\ k \in 1..13
      OBVIOUS
    <3>3. u = v \/ u < v
      BY <2>1, <3>1, <3>2, Zenon
    <3>4. u \in 0..365 /\ v \in 0..365
      BY <2>2, <3>2, Zenon
    <3>5. v <= rest /\ rest < u
      BY <1>2, <1>4, Zenon
    <3>6. rest \in 0..364
      BY <1>2
    <3> HIDE DEF u, v
    <3> QED BY <3>3, <3>4, <3>5, <3>6
  <2> QED BY <2>3, <2>4
<1>5. m = CHOOSE k \in 1..12 : Holds(k)
  <2> HIDE DEF Holds
  <2> QED BY <1>2, <1>4, Zenon
<1>6. rest - DaysBefore[m] + 1 = d
  BY <1>1
<1>7. DateOf(n) = Date(y, m, d)
  <2>1. DateOf(n) = LET r == n % 365
                        k == CHOOSE k \in 1..12 : DaysBefore[k] <= r /\ r < DaysBefore[k + 1]
                    IN Date(n \div 365 + 1, k, r - DaysBefore[k] + 1)
    BY Zenon DEF DateOf
  <2>2. DateOf(n) = Date(y, m, rest - DaysBefore[m] + 1)
    <3> HIDE DEF n, rest
    <3> QED BY <1>3, <1>5, <2>1, Zenon
  <2> QED BY <1>6, <2>2, Zenon
<1>8. DayOf(Date(y, m, d)) = n
  BY DEF DayOf, Date, First
<1> QED BY <1>2, <1>7, <1>8, Zenon

\* ... and each day is one.
LEMMA EachDay ==
    ASSUME NEW n \in Nat
    PROVE  \E y \in Nat \ {0}, m \in 1..12 : \E d \in 1..Long(m) :
               n = First(y, m) + d - 1 /\ DateOf(n) = Date(y, m, d)
<1>1. PICK y \in Nat \ {0}, r \in 0..364 : n = 365 * (y - 1) + r
  <2>1. n \div 365 + 1 \in Nat \ {0} /\ n % 365 \in 0..364
        /\ n = 365 * ((n \div 365 + 1) - 1) + (n % 365)
    OBVIOUS
  <2> QED BY <2>1, Zenon
<1>2. PICK m \in 1..12 : DaysBefore[m] <= r /\ r < DaysBefore[m + 1]
  <2> DEFINE D == DaysBefore
  <2>1. /\ D[1] = 0 /\ D[2] = 31 /\ D[3] = 59 /\ D[4] = 90
        /\ D[5] = 120 /\ D[6] = 151 /\ D[7] = 181
        /\ D[8] = 212 /\ D[9] = 243 /\ D[10] = 273
        /\ D[11] = 304 /\ D[12] = 334 /\ D[13] = 365
    BY DaysBeforeValues
  <2> HIDE DEF D
  <2>2. \E m \in 1..12 : D[m] <= r /\ r < D[m + 1]
    <3> SUFFICES ASSUME \A m \in 1..12 : D[m] <= r => r >= D[m + 1]
                 PROVE  FALSE
      BY <2>1
    <3>1. r >= D[2]
      BY <2>1
    <3>2. r >= D[3]
      BY <2>1, <3>1
    <3>3. r >= D[4]
      BY <2>1, <3>2
    <3>4. r >= D[5]
      BY <2>1, <3>3
    <3>5. r >= D[6]
      BY <2>1, <3>4
    <3>6. r >= D[7]
      BY <2>1, <3>5
    <3>7. r >= D[8]
      BY <2>1, <3>6
    <3>8. r >= D[9]
      BY <2>1, <3>7
    <3>9. r >= D[10]
      BY <2>1, <3>8
    <3>10. r >= D[11]
      BY <2>1, <3>9
    <3>11. r >= D[12]
      BY <2>1, <3>10
    <3> QED BY <2>1, <3>11
  <2> QED BY <2>2 DEF D
<1>3. DaysBefore[m] \in 0..365 /\ DaysBefore[m + 1] = DaysBefore[m] + Long(m) /\ Long(m) \in 28..31
  BY MonthFacts
<1>4. r - DaysBefore[m] + 1 \in 1..Long(m) /\ n = First(y, m) + (r - DaysBefore[m] + 1) - 1
  <2> DEFINE a == DaysBefore[m]
             b == DaysBefore[m + 1]
             l == Long(m)
  <2>1. a \in 0..365 /\ l \in 28..31 /\ b = a + l /\ a <= r /\ r < b
    BY <1>2, <1>3
  <2> HIDE DEF a, b, l
  <2>2. r - a + 1 \in 1..l /\ n = 365 * (y - 1) + a + (r - a + 1) - 1
    BY <1>1, <2>1
  <2> QED BY <2>2, Zenon DEF First, a, l
<1> QED BY <1>4, DateOfDay, Zenon

DaySlots == 0..(Slots - 1)
Times == [day : Nat, slot : DaySlots]

\* What next_due promises of a cadence and a time, for the due time `due`.
IsLeastDue(c, from, due) ==
    /\ After(due, from)
    /\ Falls(c, due)
    /\ \A t \in [day : from.day..due.day, slot : DaySlots] :
          After(t, from) /\ After(due, t) => ~Falls(c, t)

LEMMA DailyIsLeast ==
    ASSUME Slots \in Nat, NEW u \in Times, NEW c \in [type : {"daily_at"}, slot : DaySlots]
    PROVE  IsLeastDue(c, u, NextDue(c, u))
<1> DEFINE due == DailyAt(c.slot, u)
<1>1. NextDue(c, u) = due
  BY DEF NextDue
<1>2. u.day \in Nat /\ u.slot \in Nat /\ c.slot \in DaySlots /\ c.slot \in Nat /\ c.type = "daily_at"
  BY DEF Times, DaySlots
<1>3. due.slot = c.slot /\ due.day = IF c.slot > u.slot THEN u.day ELSE u.day + 1
  BY <1>2 DEF DailyAt, Time, After
<1>4. After(due, u)
  BY <1>2, <1>3 DEF After
<1>5. Falls(c, due)
  BY <1>2, <1>3 DEF Falls
<1>6. ASSUME NEW t \in [day : u.day..due.day, slot : DaySlots],
             After(t, u), After(due, t), t.slot = c.slot
      PROVE  FALSE
  <2>1. t.day \in u.day..due.day /\ t.slot \in Nat
    BY DEF DaySlots
  <2> QED BY <1>2, <1>3, <1>6, <2>1 DEF After
<1> QED BY <1>1, <1>4, <1>5, <1>6 DEF IsLeastDue, Falls

LEMMA WeeklyIsLeast ==
    ASSUME Slots \in Nat, NEW u \in Times,
           NEW c \in [type : {"weekly_at"}, weekdays : (SUBSET (0..6)) \ {{}}, slot : DaySlots]
    PROVE  IsLeastDue(c, u, NextDue(c, u))
<1> DEFINE days == {d \in u.day..(u.day + 7) :
                       Weekday(d) \in c.weekdays /\ After(Time(d, c.slot), u)}
           best == CHOOSE d \in days : \A e \in days : d <= e
           due == Time(best, c.slot)
<1>1. NextDue(c, u) = due
  BY DEF NextDue, WeeklyAt
<1>2. u.day \in Nat /\ u.slot \in Nat /\ c.slot \in DaySlots /\ c.slot \in Nat
      /\ c.type = "weekly_at" /\ c.weekdays \subseteq 0..6 /\ c.weekdays # {}
  <2>1. u.day \in Nat /\ u.slot \in DaySlots /\ DaySlots \subseteq Nat
    BY DEF Times, DaySlots
  <2> DEFINE W == (SUBSET (0..6)) \ {{}}
  <2>2. c \in [type : {"weekly_at"}, weekdays : W, slot : DaySlots]
    OBVIOUS
  <2>3. c.weekdays \in W
    <3> HIDE DEF W
    <3> QED BY <2>2
  <2>4. c.type = "weekly_at" /\ c.slot \in DaySlots
    <3> HIDE DEF W
    <3> QED BY <2>2
  <2>5. c.weekdays \subseteq 0..6 /\ c.weekdays # {}
    BY <2>3
  <2> QED BY <2>1, <2>4, <2>5
<1>3. PICK w \in 0..6 : w \in c.weekdays
  BY <1>2
<1>4. \E d \in (u.day + 1)..(u.day + 7) : d % 7 = w
  <2> DEFINE a == u.day
             r == a % 7
             d == IF w > r THEN a + (w - r) ELSE a + 7 - (r - w)
  <2>1. a \in Nat /\ w \in 0..6
    BY <1>2
  <2> HIDE DEF a
  <2>2. r \in 0..6 /\ a = 7 * (a \div 7) + r /\ a \div 7 \in Nat
    BY <2>1
  <2>3. d \in (a + 1)..(a + 7) /\ d % 7 = w
    BY <2>1, <2>2
  <2> QED BY <2>3, Zenon DEF a
<1>5. PICK d \in (u.day + 1)..(u.day + 7) : d % 7 = w
  BY <1>4
<1>6. d \in days
  BY <1>2, <1>3, <1>5 DEF Weekday, After, Time
<1>7. best \in days /\ \A e \in days : best <= e
  <2>1. days \in SUBSET Nat /\ days # {}
    BY <1>2, <1>6
  <2> HIDE DEF days
  <2>2. \E n \in days : \A e \in days : n <= e
    BY <2>1, LeastNumber
  <2> QED BY <2>2, Zenon
<1> HIDE DEF best
<1>8. /\ due.day = best /\ due.slot = c.slot /\ due = Time(best, c.slot)
      /\ best \in u.day..(u.day + 7) /\ Weekday(best) \in c.weekdays /\ After(due, u)
  BY <1>7 DEF Time
<1>9. Falls(c, due)
  BY <1>2, <1>8 DEF Falls
<1>10. ASSUME NEW t \in [day : u.day..due.day, slot : DaySlots],
              After(t, u), After(due, t), Falls(c, t)
       PROVE  FALSE
  <2>1. t.day \in u.day..best /\ t.slot \in Nat /\ t.slot = c.slot /\ Weekday(t.day) \in c.weekdays
    BY <1>2, <1>8, <1>10 DEF DaySlots, Falls
  <2>2. t.day < best
    BY <1>2, <1>8, <1>10, <2>1 DEF After
  <2>3. t.day \in u.day..(u.day + 7)
    BY <1>2, <1>8, <2>1
  <2>4. After(Time(t.day, c.slot), u)
    BY <1>10, <2>1 DEF After, Time
  <2>5. t.day \in days
    BY <2>1, <2>3, <2>4
  <2> QED BY <1>2, <1>7, <1>8, <2>1, <2>2, <2>5
<1> QED BY <1>1, <1>8, <1>9, <1>10 DEF IsLeastDue

\* The day a date of this month falls on, and that no other day does.
LEMMA InMonth ==
    ASSUME NEW y \in Nat \ {0}, NEW m \in 1..12, NEW n \in Nat,
           First(y, m) <= n, n < First(y, m) + Long(m)
    PROVE  DateOf(n).day = n - First(y, m) + 1
<1> DEFINE f == First(y, m)
           d == n - f + 1
<1>1. f \in Nat /\ Long(m) \in 28..31
  <2>1. DaysBefore[m] \in 0..365 /\ Long(m) \in 28..31
    BY MonthFacts
  <2> QED BY <2>1 DEF First
<1>2. d \in 1..Long(m) /\ f + d - 1 = n
  <2> HIDE DEF f
  <2> QED BY <1>1 DEF f
<1>3. DateOf(n) = Date(y, m, d)
  <2> HIDE DEF d
  <2> QED BY <1>2, DateOfDay
<1> QED BY <1>3 DEF Date

\* The month after this one begins where this one ends.
LEMMA NextMonth ==
    ASSUME NEW y \in Nat \ {0}, NEW m \in 1..12
    PROVE  /\ y + m \div 12 \in Nat \ {0} /\ (m % 12) + 1 \in 1..12
           /\ First(y + m \div 12, (m % 12) + 1) = First(y, m) + Long(m)
           /\ First(y, m) \in Nat /\ Long(m) \in 28..31
<1>1. /\ DaysBefore[m] \in 0..365 /\ DaysBefore[m + 1] = DaysBefore[m] + Long(m)
      /\ Long(m) \in 28..31
  BY MonthFacts
<1>2. DaysBefore[1] = 0 /\ DaysBefore[13] = 365
  BY DaysBeforeValues
<1>3. First(y, m) \in Nat
  BY <1>1 DEF First
<1>4. CASE m = 12
  <2>1. m \div 12 = 1 /\ m % 12 = 0
    BY <1>4
  <2>2. First(y + 1, 1) = 365 * y
    BY <1>2 DEF First
  <2>3. First(y, m) + Long(m) = 365 * (y - 1) + DaysBefore[13]
    BY <1>1, <1>4 DEF First
  <2> QED BY <1>1, <1>2, <1>3, <2>1, <2>2, <2>3
<1>5. CASE m # 12
  <2>1. m \div 12 = 0 /\ m % 12 = m
    BY <1>5
  <2>2. First(y, m + 1) = First(y, m) + Long(m)
    BY <1>1 DEF First
  <2>3. y + 0 = y /\ m + 1 \in 1..12
    BY <1>5
  <2> QED BY <1>1, <1>3, <2>1, <2>2, <2>3
<1> QED BY <1>4, <1>5

LEMMA MonthlyIsLeast ==
    ASSUME Slots \in Nat, NEW u \in Times,
           NEW c \in [type : {"monthly_at"}, day : 1..28, slot : DaySlots]
    PROVE  IsLeastDue(c, u, NextDue(c, u))
<1>1. u.day \in Nat /\ u.slot \in Nat /\ c.slot \in DaySlots /\ c.slot \in Nat
      /\ c.type = "monthly_at" /\ c.day \in 1..28
  BY DEF Times, DaySlots
<1>2. PICK y \in Nat \ {0}, m \in 1..12 : \E d \in 1..Long(m) :
               u.day = First(y, m) + d - 1 /\ DateOf(u.day) = Date(y, m, d)
  BY <1>1, EachDay
<1>3. PICK d \in 1..Long(m) : u.day = First(y, m) + d - 1 /\ DateOf(u.day) = Date(y, m, d)
  BY <1>2
<1> DEFINE f == First(y, m)
           y2 == y + m \div 12
           m2 == (m % 12) + 1
           f2 == First(y2, m2)
           this == Time(f + c.day - 1, c.slot)
           then == Time(f2 + c.day - 1, c.slot)
           due == IF After(this, u) THEN this ELSE then
<1>4. /\ y2 \in Nat \ {0} /\ m2 \in 1..12 /\ f2 = f + Long(m) /\ f \in Nat
      /\ Long(m) \in 28..31 /\ Long(m2) \in 28..31
  BY NextMonth, MonthFacts
<1>5. c.day \in 1..Long(m) /\ c.day \in 1..Long(m2)
  BY <1>1, <1>4
<1>6. /\ DateOf(f + c.day - 1) = Date(y, m, c.day) /\ DayOf(Date(y, m, c.day)) = f + c.day - 1
      /\ DateOf(f2 + c.day - 1) = Date(y2, m2, c.day)
      /\ DayOf(Date(y2, m2, c.day)) = f2 + c.day - 1
  BY <1>4, <1>5, DateOfDay, Zenon
<1>7. NextDue(c, u) = due
  <2>1. /\ DateOf(u.day).year = y /\ DateOf(u.day).month = m
        /\ [DateOf(u.day) EXCEPT !.day = c.day] = Date(y, m, c.day)
    BY <1>3 DEF Date
  <2>2. (IF c.day > 28 THEN 28 ELSE c.day) = c.day
    BY <1>1
  <2>3. MonthlyAt(c.day, c.slot, u) = due
    <3> HIDE DEF f, f2
    <3> QED BY <1>6, <2>1, <2>2, Zenon DEF MonthlyAt
  <2>4. NextDue(c, u) = MonthlyAt(c.day, c.slot, u)
    BY <1>1 DEF NextDue
  <2> QED BY <2>3, <2>4, Zenon
<1>8. Falls(c, this) /\ Falls(c, then)
  BY <1>1, <1>6 DEF Falls, Time, Date
<1>9. After(then, u)
  BY <1>1, <1>3, <1>4 DEF After, Time
<1>10. ASSUME NEW t \in [day : u.day..due.day, slot : DaySlots],
              After(t, u), After(due, t), Falls(c, t)
       PROVE  FALSE
  <2>1. t.day \in u.day..due.day /\ t.slot = c.slot /\ DateOf(t.day).day = c.day /\ t.day \in Nat
    BY <1>1, <1>10 DEF Falls
  <2>2. due.slot = c.slot /\ due.day \in Nat /\ due.day <= f2 + c.day - 1
    BY <1>1, <1>4 DEF Time
  <2>3. t.day < due.day
    BY <1>1, <1>10, <2>1, <2>2 DEF After
  <2>4. CASE t.day < f + Long(m)
    <3>1. f <= t.day
      BY <1>1, <1>3, <1>4, <2>1
    <3>2. t.day - f + 1 = c.day
      BY <2>1, <2>4, <3>1, InMonth
    <3>3. t.day = f + c.day - 1
      BY <1>1, <1>4, <2>1, <3>2
    <3>4. After(this, u)
      BY <1>10, <2>1, <3>3 DEF After, Time
    <3> QED BY <1>1, <1>4, <2>3, <3>3, <3>4 DEF Time
  <2>5. CASE t.day >= f + Long(m)
    <3>1. f2 <= t.day /\ t.day < f2 + Long(m2)
      BY <1>1, <1>4, <1>5, <2>1, <2>2, <2>3, <2>5
    <3>2. t.day - f2 + 1 = c.day
      BY <1>4, <2>1, <3>1, InMonth
    <3> QED BY <1>1, <1>4, <2>1, <2>2, <2>3, <3>2
  <2> QED BY <1>4, <2>1, <2>4, <2>5
<1>11. After(due, u) /\ Falls(c, due)
  BY <1>8, <1>9
<1> QED BY <1>7, <1>10, <1>11, Zenon DEF IsLeastDue

LEMMA EveryCadence ==
    ASSUME Slots \in Nat, NEW u \in Times, NEW c \in Cadences
    PROVE  IsLeastDue(c, u, NextDue(c, u))
  BY DailyIsLeast, WeeklyIsLeast, MonthlyIsLeast DEF Cadences, DaySlots

\* The clock goes on, the cadence stays.
CadInv == cadence \in Cadences /\ clock \in Times

\* For any slots and days: next_due gives the first time after now the cadence
\* names, over weeks, months and years (scheduler.py's next_due functions).
THEOREM CadencesHold ==
    ASSUME CadenceAssumption
    PROVE  CadSpec => []NextDueIsLeast
<1>1. CadInit => CadInv
  BY DEF CadInit, CadInv, Times, Time, DaySlots, CadenceAssumption
<1>2. CadInv /\ [CadNext]_cadVars => CadInv'
  <2> SUFFICES ASSUME CadInv, [CadNext]_cadVars PROVE CadInv'
    OBVIOUS
  <2>1. CASE UNCHANGED cadVars
    BY <2>1 DEF CadInv, cadVars
  <2>2. CASE CadNext
    <3>1. clock.day \in Nat /\ clock.slot \in Nat /\ clock.slot < Slots /\ 0 \in DaySlots /\ Slots \in Nat
      BY DEF CadInv, Times, DaySlots, CadenceAssumption
    <3>2. CASE clock.slot + 1 < Slots
      <4>1. clock' = [clock EXCEPT !.slot = @ + 1]
        BY <2>2, <3>2 DEF CadNext
      <4>2. clock.slot + 1 \in DaySlots
        BY <3>1, <3>2 DEF DaySlots
      <4> QED BY <2>2, <4>1, <4>2 DEF CadNext, CadInv, Times
    <3>3. CASE ~(clock.slot + 1 < Slots)
      BY <2>2, <3>1, <3>3 DEF CadNext, CadInv, Times, Time
    <3> QED BY <3>2, <3>3
  <2> QED BY <2>1, <2>2
<1>3. CadInv => NextDueIsLeast
  <2> SUFFICES ASSUME CadInv PROVE NextDueIsLeast
    OBVIOUS
  <2>1. IsLeastDue(cadence, clock, NextDue(cadence, clock))
    BY EveryCadence DEF CadInv, CadenceAssumption
  <2> QED BY <2>1, Zenon DEF IsLeastDue, NextDueIsLeast, DaySlots
<1> QED BY <1>1, <1>2, <1>3, PTL DEF CadSpec

-----------------------------------------------------------------------------
(* The lists of the scheduler: what is left of one without the objects of a  *)
(* job, and where the rest of it was.                                        *)

Objs == [job : Jobs, ver : 1..MaxVersions, on : BOOLEAN, due : BOOLEAN, obj : Nat]

\* A finite set of job ids as a sequence: each of them, once.
LEMMA EachOnce ==
    ASSUME NEW S, IsFiniteSet(S)
    PROVE  /\ SetToSeq(S) \in [1..Cardinality(S) -> S] /\ Cardinality(S) \in Nat
           /\ SetToSeq(S) \in Seq(S) /\ Len(SetToSeq(S)) = Cardinality(S)
           /\ \A a, b \in 1..Cardinality(S) : SetToSeq(S)[a] = SetToSeq(S)[b] => a = b
           /\ \A x \in S : \E a \in 1..Cardinality(S) : SetToSeq(S)[a] = x
<1> DEFINE n == Cardinality(S)
           D == 1..n
           f == SetToSeq(S)
<1>1. n \in Nat /\ ExistsBijection(D, S)
  BY FS_CardinalityType
<1>2. PICK g \in [D -> S] : IsInjective(g)
  BY <1>1 DEF ExistsBijection, Bijection, Injection
<1>3. f \in [D -> S] /\ IsInjective(f)
  BY <1>2, Zenon DEF SetToSeq
<1> HIDE DEF f, n
<1>4. f \in Injection(D, S)
  BY <1>3, Zenon DEF Injection
<1>5. IsFiniteSet(D) /\ Cardinality(D) = n
  <2>1. 1 \in Int /\ n \in Int /\ (IF 1 > n THEN 0 ELSE n - 1 + 1) = n
    BY <1>1
  <2> QED BY <2>1, FS_Interval
<1>6. f \in Surjection(D, S)
  <2>1. Cardinality(D) = Cardinality(S) <=> f \in Surjection(D, S)
    BY <1>4, FS_Injection
  <2> QED BY <1>5, <2>1 DEF n
<1>7. \A x \in S : \E a \in D : f[a] = x
  BY <1>6 DEF Surjection
<1>8. \A a, b \in D : f[a] = f[b] => a = b
  BY <1>3 DEF IsInjective
<1>9. f \in Seq(S) /\ Len(f) = n
  BY <1>1, <1>3
<1> QED BY <1>1, <1>3, <1>7, <1>8, <1>9, Zenon DEF f, n

\* One step of Without's recursion, and a function that goes through n of them.
RestOf(j, f, i) ==
    IF i = 0 THEN <<>>
    ELSE IF live[i].job = j THEN f[i - 1] ELSE Append(f[i - 1], live[i])
Rests(j, f, n) == f = [i \in 0..n |-> RestOf(j, f, i)]

LEMMA RestsExist ==
    ASSUME NEW j, NEW n \in Nat
    PROVE  \E f : Rests(j, f, n)
  <1>. DEFINE Bad == {m \in Nat : ~ \E f : Rests(j, f, m)}
  <1>. SUFFICES ASSUME Bad # {} PROVE FALSE
    OBVIOUS
  <1>1. PICK m \in Bad : \A y \in Bad : m <= y
    BY LeastNumber
  <1>2. m # 0
    <2>1. Rests(j, [i \in 0..0 |-> <<>>], 0)
      BY DEF Rests, RestOf
    <2>. QED
      BY <2>1
  <1>3. m - 1 \in Nat /\ m - 1 \notin Bad /\ m \in Nat
    BY <1>1, <1>2
  <1>4. PICK f : Rests(j, f, m - 1)
    BY <1>3
  <1>. DEFINE g == [i \in 0..m |-> IF i < m THEN f[i] ELSE RestOf(j, f, m)]
  <1>5. ASSUME NEW i \in 0..m PROVE g[i] = RestOf(j, g, i)
    <2>1. i # 0 => i - 1 \in 0..m /\ i - 1 < m
      BY <1>3
    <2>2. i # 0 => g[i - 1] = f[i - 1]
      BY <2>1
    <2>3. RestOf(j, g, i) = RestOf(j, f, i)
      BY <2>2 DEF RestOf
    <2>4. CASE i < m
      <3>1. i \in 0..(m - 1)
        BY <1>3, <2>4
      <3>2. f[i] = RestOf(j, f, i)
        BY <1>4, <3>1 DEF Rests
      <3>. QED
        BY <2>3, <2>4, <3>2
    <2>5. CASE ~(i < m)
      <3>1. i = m
        BY <1>3, <2>5
      <3>. QED
        BY <2>3, <3>1
    <2>. QED
      BY <2>4, <2>5
  <1>6. Rests(j, g, m)
    <2>1. g = [i \in 0..m |-> g[i]]
      OBVIOUS
    <2>. HIDE DEF g
    <2>. QED
      BY <1>5, <2>1 DEF Rests
  <1>. QED
    BY <1>1, <1>6

\* What of the first i objects is left, and where each of them was: none is
\* lost, none is twice, and nothing moves before the first one taken out.
Kept(j, i, r, g) ==
    /\ r \in Seq(Objs) /\ g \in [1..Len(r) -> 1..i]
    /\ \A a \in 1..Len(r) : r[a] = live[g[a]] /\ live[g[a]].job # j
    /\ \A a, b \in 1..Len(r) : g[a] = g[b] => a = b
    /\ \A k \in 1..i : live[k].job # j => \E a \in 1..Len(r) : g[a] = k
    /\ Len(r) <= i
    /\ \A n \in 0..i : (\A k \in 1..n : live[k].job # j)
                          => n <= Len(r) /\ \A k \in 1..n : g[k] = k

LEMMA KeepsOneMore ==
    ASSUME live \in Seq(Objs), NEW j, NEW i \in Nat, i + 1 <= Len(live),
           NEW r, NEW g, Kept(j, i, r, g), NEW s,
           s = IF live[i + 1].job = j THEN r ELSE Append(r, live[i + 1])
    PROVE  \E h : Kept(j, i + 1, s, h)
  <1>1. /\ r \in Seq(Objs) /\ g \in [1..Len(r) -> 1..i] /\ Len(r) \in Nat /\ Len(r) <= i
        /\ \A a \in 1..Len(r) : r[a] = live[g[a]] /\ live[g[a]].job # j
        /\ \A a, b \in 1..Len(r) : g[a] = g[b] => a = b
        /\ \A k \in 1..i : live[k].job # j => \E a \in 1..Len(r) : g[a] = k
        /\ \A n \in 0..i : (\A k \in 1..n : live[k].job # j)
                          => n <= Len(r) /\ \A k \in 1..n : g[k] = k
    BY DEF Kept
  <1>. DEFINE o == live[i + 1]
             n == Len(r)
  <1>2. o \in Objs
    <2>1. i + 1 \in 1..Len(live)
      OBVIOUS
    <2>. QED
      BY <2>1
  <1>3. CASE o.job = j
    <2>1. s = r
      BY <1>3
    <2>2. g \in [1..Len(s) -> 1..(i + 1)]
      BY <1>1, <2>1
    <2>3. \A k \in 1..(i + 1) : live[k].job # j => \E a \in 1..Len(s) : g[a] = k
      <3>1. \A k \in 1..(i + 1) : live[k].job # j => k \in 1..i
        BY <1>3
      <3>. QED
        BY <1>1, <2>1, <3>1
    <2>4. \A m \in 0..(i + 1) : (\A k \in 1..m : live[k].job # j)
                          => m <= Len(s) /\ \A k \in 1..m : g[k] = k
      <3>1. ASSUME NEW m \in 0..(i + 1), \A k \in 1..m : live[k].job # j PROVE m \in 0..i
        <4>1. m # i + 1
          BY <1>3, <3>1
        <4>. QED
          BY <4>1
      <3>. QED
        BY <1>1, <2>1, <3>1
    <2>5. Kept(j, i + 1, s, g)
      BY <1>1, <2>1, <2>2, <2>3, <2>4 DEF Kept
    <2>. QED
      BY <2>5
  <1>4. CASE o.job # j
    <2>. DEFINE h == [a \in 1..(n + 1) |-> IF a = n + 1 THEN i + 1 ELSE g[a]]
    <2>1. s = Append(r, o)
      BY <1>4
    <2>2. /\ s \in Seq(Objs) /\ Len(s) = n + 1 /\ s[n + 1] = o /\ n \in Nat
          /\ \A a \in 1..n : s[a] = r[a]
      <3>. HIDE DEF o
      <3>. QED
        BY <1>1, <1>2, <2>1
    <2>3. /\ h \in [1..Len(s) -> 1..(i + 1)] /\ h[n + 1] = i + 1
          /\ \A a \in 1..n : h[a] = g[a] /\ g[a] \in 1..i
          /\ \A a \in 1..Len(s) : a \in 1..n \/ a = n + 1
          /\ 1..n \subseteq 1..Len(s) /\ n + 1 \in 1..Len(s)
      <3>1. Len(s) = n + 1 /\ n \in Nat /\ g \in [1..n -> 1..i]
        BY <1>1, <2>2
      <3>. HIDE DEF n, o
      <3>2. h \in [1..(n + 1) -> 1..(i + 1)]
        BY <3>1
      <3>3. h[n + 1] = i + 1 /\ \A a \in 1..n : h[a] = g[a] /\ g[a] \in 1..i
        BY <3>1
      <3>. HIDE DEF h
      <3>. QED
        BY <3>1, <3>2, <3>3
    <2>. HIDE DEF h, n
    <2>4. \A a \in 1..Len(s) : s[a] = live[h[a]] /\ live[h[a]].job # j
      BY <1>1, <1>4, <2>2, <2>3 DEF n
    <2>5. \A a, b \in 1..Len(s) : h[a] = h[b] => a = b
      <3>1. \A a \in 1..n : h[a] # i + 1
        BY <2>3
      <3>2. \A a, b \in 1..n : h[a] = h[b] => a = b
        BY <1>1, <2>3 DEF n
      <3>. QED
        BY <2>3, <3>1, <3>2
    <2>6. \A k \in 1..(i + 1) : live[k].job # j => \E a \in 1..Len(s) : h[a] = k
      <3>1. \A k \in 1..(i + 1) : k \in 1..i \/ k = i + 1
        OBVIOUS
      <3>2. \A k \in 1..i : live[k].job # j => \E a \in 1..n : g[a] = k
        BY <1>1 DEF n
      <3>. QED
        BY <2>3, <3>1, <3>2
    <2>7. ASSUME NEW m \in 0..(i + 1), \A k \in 1..m : live[k].job # j
          PROVE  m <= Len(s) /\ \A k \in 1..m : h[k] = k
      <3>1. CASE m \in 0..i
        <4>1. m <= n /\ \A k \in 1..m : g[k] = k
          BY <1>1, <2>7, <3>1 DEF n
        <4>2. \A k \in 1..m : k \in 1..n
          BY <2>2, <4>1
        <4>. QED
          BY <2>2, <2>3, <4>1, <4>2
      <3>2. CASE m = i + 1
        <4>1. i \in 0..i /\ \A k \in 1..i : live[k].job # j
          BY <2>7, <3>2
        <4>2. i <= n /\ \A k \in 1..i : g[k] = k
          BY <1>1, <4>1 DEF n
        <4>3. n = i
          BY <1>1, <2>2, <4>2 DEF n
        <4>4. \A k \in 1..m : k \in 1..n \/ k = n + 1
          BY <3>2, <4>3
        <4>. QED
          BY <2>2, <2>3, <3>2, <4>2, <4>3, <4>4
      <3>. QED
        BY <3>1, <3>2
    <2>8. Len(s) <= i + 1
      BY <1>1, <2>2 DEF n
    <2>9. Kept(j, i + 1, s, h)
      BY <2>2, <2>3, <2>4, <2>5, <2>6, <2>7, <2>8 DEF Kept
    <2>. QED
      BY <2>9
  <1>. QED
    BY <1>3, <1>4

LEMMA WithoutKeeps ==
    ASSUME live \in Seq(Objs), NEW j
    PROVE  \E g : Kept(j, Len(live), Without(j), g)
  <1>. DEFINE len == Len(live)
  <1>0. len \in Nat
    OBVIOUS
  <1>1. PICK f : Rests(j, f, len) /\ Without(j) = f[len]
    <2>1. Without(j) = (CHOOSE f : Rests(j, f, len))[len]
      BY Zenon DEF Without, Rests, RestOf
    <2>2. Rests(j, CHOOSE f : Rests(j, f, len), len)
      BY <1>0, RestsExist
    <2>. QED
      BY <2>1, <2>2
  <1>. HIDE DEF len
  <1>2. ASSUME NEW i \in 0..len PROVE f[i] = RestOf(j, f, i)
    BY <1>1 DEF Rests
  <1>. DEFINE Bad == {i \in 0..len : ~ \E g : Kept(j, i, f[i], g)}
  <1>3. Bad = {}
    <2>. SUFFICES ASSUME Bad # {} PROVE FALSE
      OBVIOUS
    <2>1. PICK m \in Bad : \A y \in Bad : m <= y
      <3>1. Bad \subseteq Nat
        BY <1>0
      <3>. HIDE DEF Bad
      <3>. QED
        BY <3>1, LeastNumber
    <2>2. m # 0
      <3>1. f[0] = <<>>
        BY <1>0, <1>2 DEF RestOf
      <3>2. Kept(j, 0, <<>>, [a \in 1..0 |-> 1])
        BY DEF Kept
      <3>. QED
        BY <3>1, <3>2
    <2>3. m - 1 \in 0..len /\ m - 1 \notin Bad /\ m - 1 \in Nat /\ (m - 1) + 1 = m /\ m <= len
      BY <1>0, <2>1, <2>2
    <2>4. PICK g : Kept(j, m - 1, f[m - 1], g)
      BY <2>3
    <2>5. f[m] = IF live[(m - 1) + 1].job = j THEN f[m - 1] ELSE Append(f[m - 1], live[(m - 1) + 1])
      BY <1>2, <2>1, <2>2, <2>3 DEF RestOf
    <2>6. \E h : Kept(j, (m - 1) + 1, f[m], h)
      BY <2>3, <2>4, <2>5, KeepsOneMore DEF len
    <2>. QED
      BY <2>1, <2>3, <2>6
  <1>. QED
    BY <1>0, <1>1, <1>3 DEF len

-----------------------------------------------------------------------------
(* Why the scheduler's list agrees with the table, and a tick serves all, for *)
(* any jobs and requests.  A job that no two requests edited together has one *)
(* at most, which holds what the row says until it is done; and while no edit *)
(* closed the list up behind the iterator, it stands at the object it fires   *)
(* and nothing that waits is before it.                                       *)

Rows == [ver : 0..MaxVersions, on : BOOLEAN, there : BOOLEAN]
EditPlaces == {"idle", "fetch", "register", "unregister"}
TableOK ==
    /\ table \in [Jobs -> Rows] /\ writes \in 1..MaxVersions
    /\ \A j \in Jobs : (table[j].there => table[j].ver # 0) /\ (table[j].on => table[j].there)
EditOK ==
    /\ edit \in [Editors -> [at : EditPlaces, job : Jobs \cup {"none"}, row : Rows]]
    /\ \A e \in Editors :
          /\ IF edit[e].at = "idle" THEN edit[e].job = "none" ELSE edit[e].job \in Jobs
          /\ edit[e].at = "register" => edit[e].row.ver # 0
ListOK ==
    /\ made \in Nat /\ live \in Seq(Objs) /\ \A k \in DOMAIN live : live[k].obj \in 1..made
    /\ tick \in [i : Nat, obj : 0..made] /\ overdue \subseteq 1..made

\* What the list holds of a job, and what a request about it knows.
Agrees(j) ==
    /\ \A k, l \in Entries(j) : k = l
    /\ table[j].on => Entries(j) # {}
    /\ \A k \in Entries(j) : live[k].ver = table[j].ver /\ live[k].on = table[j].on
Knows(e, j) ==
    /\ \A d \in Editors : edit[d].job = j => d = e
    /\ edit[e].at = "fetch" => table[j].there
    /\ edit[e].at = "register" => edit[e].row = table[j]
    /\ edit[e].at = "unregister" => ~table[j].on
Edited(j) == \E e \in Editors : edit[e].job = j
JobOK(j) ==
    /\ ~Edited(j) => Agrees(j)
    /\ \A e \in Editors : edit[e].job = j => Knows(e, j)
EveryJob == \A j \in Jobs : j \in raced \/ JobOK(j)

Waits(k) == live[k].on /\ live[k].obj \in overdue
InStep ==
    IF tick = Asleep THEN \A k \in DOMAIN live : ~Waits(k)
    ELSE /\ tick.i \in DOMAIN live /\ live[tick.i].obj = tick.obj
         /\ \A k \in DOMAIN live : Waits(k) => tick.i <= k

JTInv == TableOK /\ EditOK /\ ListOK /\ EveryJob /\ (shifted \/ InStep)

\* What Loaded makes of the rows.
IsLoaded(l, first) ==
    /\ l \in Seq(Objs) /\ Len(l) \in Nat
    /\ \A k \in DOMAIN l : l[k].obj \in (first + 1)..(first + Len(l))
    /\ \A k \in DOMAIN l : l[k].ver = table[l[k].job].ver /\ l[k].on = table[l[k].job].on
    /\ \A k, m \in DOMAIN l : l[k].job = l[m].job => k = m
    /\ \A j \in Jobs : table[j].there => \E k \in DOMAIN l : l[k].job = j

LEMMA LoadedIs ==
    ASSUME JobTableAssumption, TableOK, NEW first \in Nat
    PROVE  IsLoaded(Loaded(first), first)
  <1>. DEFINE l == Loaded(first)
              S == {j \in Jobs : table[j].there}
              rows == SetToSeq(S)
              n == Cardinality(S)
  <1>1. IsFiniteSet(S) /\ S \subseteq Jobs
    BY FS_Subset DEF JobTableAssumption
  <1>2. /\ rows \in [1..n -> S] /\ n \in Nat /\ Len(rows) = n
        /\ \A a, b \in 1..n : rows[a] = rows[b] => a = b
        /\ \A x \in S : \E a \in 1..n : rows[a] = x
    <2>. HIDE DEF S
    <2>. QED
      BY <1>1, EachOnce
  <1>. HIDE DEF rows, n
  <1>3. l = [k \in 1..n |-> [job |-> rows[k], ver |-> table[rows[k]].ver,
                              on |-> table[rows[k]].on, due |-> FALSE, obj |-> first + k]]
    BY <1>2 DEF Loaded, rows
  <1>4. ASSUME NEW k \in 1..n
        PROVE  /\ l[k] \in Objs /\ l[k].job = rows[k] /\ rows[k] \in S
               /\ l[k].ver = table[rows[k]].ver /\ l[k].on = table[rows[k]].on
               /\ l[k].obj = first + k
    <2>1. rows[k] \in Jobs /\ table[rows[k]].there /\ rows[k] \in S
      BY <1>2
    <2>2. table[rows[k]] \in Rows /\ table[rows[k]].ver # 0
      BY <2>1 DEF TableOK
    <2>3. table[rows[k]].ver \in 1..MaxVersions /\ table[rows[k]].on \in BOOLEAN
      BY <2>2 DEF Rows, JobTableAssumption
    <2>. HIDE DEF S
    <2>. QED
      BY <1>3, <2>1, <2>3 DEF Objs
  <1>5. l \in Seq(Objs) /\ Len(l) = n /\ DOMAIN l = 1..n
    BY <1>2, <1>3, <1>4
  <1>. HIDE DEF l
  <1>6. \A k \in DOMAIN l : l[k].obj \in (first + 1)..(first + Len(l))
    BY <1>2, <1>4, <1>5
  <1>7. \A k \in DOMAIN l : l[k].ver = table[l[k].job].ver /\ l[k].on = table[l[k].job].on
    BY <1>4, <1>5
  <1>8. \A k, m \in DOMAIN l : l[k].job = l[m].job => k = m
    BY <1>2, <1>4, <1>5
  <1>9. ASSUME NEW j \in Jobs, table[j].there PROVE \E k \in DOMAIN l : l[k].job = j
    <2>1. j \in S
      BY <1>9
    <2>. HIDE DEF S
    <2>2. PICK a \in 1..n : rows[a] = j
      BY <1>2, <2>1
    <2>. QED
      BY <1>4, <1>5, <2>2
  <1>10. IsLoaded(l, first)
    BY <1>2, <1>5, <1>6, <1>7, <1>8, <1>9 DEF IsLoaded
  <1>. QED
    BY <1>10 DEF l

LEMMA JTInitOK ==
    ASSUME JobTableAssumption, JTInit
    PROVE  JTInv
  <1>1. MaxVersions \in Nat /\ MaxVersions # 0 /\ Existing \subseteq Jobs
    BY DEF JobTableAssumption
  <1>2. TableOK
    BY <1>1 DEF JTInit, TableOK, Rows, NoRow
  <1>3. EditOK
    BY <1>1 DEF JTInit, EditOK, Rows, NoRow, NoEdit, EditPlaces
  <1>4. IsLoaded(live, 0)
    BY <1>2, LoadedIs DEF JTInit
  <1>5. \A k \in DOMAIN live : live[k].obj \in 1..Len(live)
    <2>1. Len(live) \in Nat /\ \A k \in DOMAIN live : live[k].obj \in (0 + 1)..(0 + Len(live))
      BY <1>4 DEF IsLoaded
    <2>2. (0 + 1)..(0 + Len(live)) = 1..Len(live)
      BY <2>1
    <2>. QED
      BY <2>1, <2>2
  <1>6. ListOK
    <2>1. tick = [i |-> 0, obj |-> 0] /\ overdue = {} /\ made = Len(live)
      BY DEF JTInit, Asleep
    <2>2. tick \in [i : Nat, obj : 0..made]
      BY <1>4, <2>1 DEF IsLoaded
    <2>. QED
      BY <1>4, <1>5, <2>1, <2>2 DEF ListOK, IsLoaded
  <1>7. EveryJob
    <2>1. ASSUME NEW j \in Jobs PROVE JobOK(j)
      <3>1. \A e \in Editors : edit[e].job # j
        BY DEF JTInit, NoEdit, JobTableAssumption
      <3>2. Agrees(j)
        BY <1>2, <1>4 DEF Agrees, Entries, TableOK, IsLoaded
      <3>. QED
        BY <3>1, <3>2 DEF JobOK, Edited
    <2>. QED
      BY <2>1 DEF EveryJob
  <1>8. InStep
    BY DEF JTInit, InStep, Waits
  <1>. QED
    BY <1>2, <1>3, <1>6, <1>7, <1>8 DEF JTInv

\* A list with the objects of j taken out, and one for j put at the end or not:
\* where its first n objects come from.
FromOld(j, l, n, g) ==
    /\ n \in Nat /\ l \in Seq(Objs) /\ Len(l) \in n..(n + 1)
    /\ g \in [1..n -> 1..Len(live)]
    /\ \A a \in 1..n : l[a] = live[g[a]] /\ live[g[a]].job # j
    /\ \A a, b \in 1..n : g[a] = g[b] => a = b
    /\ \A k \in 1..Len(live) : live[k].job # j => \E a \in 1..n : g[a] = k
    /\ \A m \in 0..Len(live) : (\A k \in 1..m : live[k].job # j)
                          => m <= n /\ \A k \in 1..m : g[k] = k

LEMMA NewListIs ==
    ASSUME live \in Seq(Objs), NEW j, NEW l,
           l = Without(j) \/ \E o \in Objs : o.job = j /\ l = Append(Without(j), o)
    PROVE  \E g : FromOld(j, l, Len(Without(j)), g)
  <1>. DEFINE r == Without(j)
              n == Len(r)
  <1>1. PICK g : Kept(j, Len(live), r, g)
    BY WithoutKeeps
  <1>. HIDE DEF r
  <1>2. r \in Seq(Objs) /\ n \in Nat
    BY <1>1 DEF Kept
  <1>3. l \in Seq(Objs) /\ Len(l) \in n..(n + 1) /\ \A a \in 1..n : l[a] = r[a]
    <2>1. CASE l = r
      BY <1>2, <2>1
    <2>2. CASE \E o \in Objs : l = Append(r, o)
      <3>1. PICK o \in Objs : l = Append(r, o)
        BY <2>2
      <3>. QED
        BY <1>2, <3>1
    <2>. QED
      BY <2>1, <2>2 DEF r
  <1>4. FromOld(j, l, n, g)
    BY <1>1, <1>2, <1>3 DEF Kept, FromOld
  <1>. QED
    BY <1>4 DEF r

\* What it holds of another job is what it held.
LEMMA OthersAgree ==
    ASSUME live \in Seq(Objs), NEW j, NEW i, i # j, table' = table, Agrees(i),
           NEW n, NEW g, FromOld(j, live', n, g),
           \A k \in 1..Len(live') : k > n => live'[k].job = j
    PROVE  Agrees(i)'
  <1>1. /\ n \in Nat /\ Len(live') \in n..(n + 1) /\ DOMAIN live' = 1..Len(live')
        /\ DOMAIN live = 1..Len(live) /\ g \in [1..n -> 1..Len(live)]
    BY DEF FromOld
  <1>2. ASSUME NEW k \in Entries(i)'
        PROVE  k \in 1..n /\ g[k] \in Entries(i) /\ live'[k] = live[g[k]]
    <2>1. k \in 1..Len(live') /\ live'[k].job = i
      BY <1>1 DEF Entries
    <2>2. k \in 1..n
      BY <1>1, <2>1
    <2>3. live'[k] = live[g[k]] /\ g[k] \in 1..Len(live)
      BY <1>1, <2>2 DEF FromOld
    <2>. QED
      BY <1>1, <2>1, <2>2, <2>3 DEF Entries
  <1>3. ASSUME NEW k \in Entries(i)', NEW m \in Entries(i)' PROVE k = m
    <2>1. g[k] = g[m] /\ k \in 1..n /\ m \in 1..n
      BY <1>2, <1>3 DEF Agrees
    <2>. QED
      BY <2>1 DEF FromOld
  <1>4. ASSUME table[i].on PROVE Entries(i)' # {}
    <2>1. PICK k \in Entries(i) : TRUE
      BY <1>4 DEF Agrees
    <2>2. k \in 1..Len(live) /\ live[k].job = i
      BY <1>1, <2>1 DEF Entries
    <2>3. PICK a \in 1..n : g[a] = k
      BY <2>2 DEF FromOld
    <2>4. live'[a] = live[k] /\ a \in 1..Len(live')
      BY <1>1, <2>3 DEF FromOld
    <2>. QED
      BY <1>1, <2>2, <2>4 DEF Entries
  <1>5. ASSUME NEW k \in Entries(i)'
        PROVE  live'[k].ver = table[i].ver /\ live'[k].on = table[i].on
    BY <1>2, <1>5 DEF Agrees
  <1>. QED
    BY <1>3, <1>4, <1>5 DEF Agrees

\* A step of a request about another job.
LEMMA OtherJob ==
    ASSUME NEW i, NEW e \in Editors, NEW v, JobOK(i), DOMAIN edit = Editors,
           edit' = [edit EXCEPT ![e] = v], edit[e].job # i, v.job # i,
           table'[i] = table[i], Agrees(i) => Agrees(i)'
    PROVE  JobOK(i)'
  <1>1. edit'[e].job # i /\ \A d \in Editors \ {e} : edit'[d] = edit[d]
    OBVIOUS
  <1>2. Edited(i)' <=> Edited(i)
    BY <1>1 DEF Edited
  <1>3. ASSUME NEW d \in Editors, edit'[d].job = i PROVE Knows(d, i)'
    <2>1. d # e /\ edit'[d] = edit[d]
      BY <1>1, <1>3
    <2>2. Knows(d, i)
      BY <1>3, <2>1 DEF JobOK
    <2>. QED
      BY <1>1, <2>1, <2>2 DEF Knows
  <1>. QED
    BY <1>2, <1>3 DEF JobOK

\* The objects at their places, whatever is due.
LEMMA SameObjects ==
    ASSUME ListOK, table' = table, made' = made, live' \in Seq(Objs), Len(live') = Len(live),
           \A k \in DOMAIN live : /\ live'[k].job = live[k].job /\ live'[k].ver = live[k].ver
                                 /\ live'[k].on = live[k].on /\ live'[k].obj = live[k].obj
    PROVE  /\ \A k \in DOMAIN live' : live'[k].obj \in 1..made'
           /\ DOMAIN live' = DOMAIN live
           /\ edit' = edit /\ raced' = raced /\ EveryJob => EveryJob'
  <1>1. DOMAIN live' = DOMAIN live
    BY DEF ListOK
  <1>2. \A k \in DOMAIN live' : live'[k].obj \in 1..made'
    BY <1>1 DEF ListOK
  <1>3. ASSUME edit' = edit, NEW j \in Jobs, JobOK(j) PROVE JobOK(j)'
    <2>1. Entries(j)' = Entries(j)
      BY <1>1 DEF Entries
    <2>2. \A k \in Entries(j) : live'[k].ver = live[k].ver /\ live'[k].on = live[k].on
      BY DEF Entries
    <2>3. Agrees(j) => Agrees(j)'
      BY <2>1, <2>2 DEF Agrees
    <2>4. Edited(j)' <=> Edited(j)
      BY <1>3 DEF Edited
    <2>5. \A e \in Editors : edit'[e].job = j => Knows(e, j)'
      BY <1>3 DEF JobOK, Knows
    <2>. QED
      BY <1>3, <2>3, <2>4, <2>5 DEF JobOK
  <1>. QED
    BY <1>1, <1>2, <1>3 DEF EveryJob

-----------------------------------------------------------------------------
(* The requests.                                                            *)

\* A request's step that leaves the list alone.
LEMMA ListStays ==
    ASSUME ListOK, UNCHANGED <<live, tick, overdue, made, shifted>>, shifted \/ InStep
    PROVE  /\ ListOK' /\ (shifted \/ InStep)'
           /\ \A i \in Jobs : table'[i] = table[i] /\ Agrees(i) => Agrees(i)'
  <1>1. ListOK'
    BY DEF ListOK
  <1>2. (shifted \/ InStep)'
    BY DEF InStep, Waits
  <1>3. \A i \in Jobs : table'[i] = table[i] /\ Agrees(i) => Agrees(i)'
    BY DEF Agrees, Entries
  <1>. QED
    BY <1>1, <1>2, <1>3

LEMMA WriteRowOK ==
    ASSUME JobTableAssumption, JTInv, NEW e \in Editors, NEW j \in Jobs, NEW on \in BOOLEAN,
           WriteRow(e, j, on)
    PROVE  JTInv'
  <1>. DEFINE v == [at |-> "fetch", job |-> j, row |-> NoRow]
              w == [ver |-> writes + 1, on |-> on, there |-> TRUE]
  <1>1. /\ TableOK /\ EditOK /\ ListOK /\ EveryJob /\ (shifted \/ InStep) /\ MaxVersions \in Nat
        /\ "none" \notin Jobs
    BY DEF JTInv, JobTableAssumption
  <1>2. /\ edit[e].at = "idle" /\ edit' = [edit EXCEPT ![e] = v] /\ writes < MaxVersions
        /\ table' = [table EXCEPT ![j] = w] /\ writes' = writes + 1
        /\ raced' = (IF Others(e, j) THEN raced \cup {j} ELSE raced)
        /\ UNCHANGED <<live, tick, overdue, made, shifted>>
    BY DEF WriteRow, Begins
  <1>3. w \in Rows /\ w.ver # 0 /\ v \in [at : EditPlaces, job : Jobs \cup {"none"}, row : Rows]
    BY <1>1, <1>2 DEF TableOK, Rows, EditPlaces, NoRow
  <1>4. /\ table \in [Jobs -> Rows] /\ DOMAIN edit = Editors /\ edit[e].job = "none"
    BY <1>1, <1>2 DEF TableOK, EditOK
  <1>. DEFINE d == edit
  <1>5. TableOK'
    <2>1. writes + 1 \in 1..MaxVersions
      BY <1>1, <1>2 DEF TableOK
    <2>2. table' \in [Jobs -> Rows]
      BY <1>2, <1>3, <1>4
    <2>3. w.there /\ w.ver # 0
      BY <1>3
    <2>4. \A i \in Jobs : table'[i] = IF i = j THEN w ELSE table[i]
      BY <1>2, <1>4
    <2>. QED
      BY <1>1, <1>2, <2>1, <2>2, <2>3, <2>4 DEF TableOK
  <1>6. EditOK'
    <2>1. v.at = "fetch" /\ v.job \in Jobs
      OBVIOUS
    <2>. HIDE DEF v
    <2>. QED
      BY <1>1, <1>2, <1>3, <2>1 DEF EditOK
  <1>7. ListOK' /\ (shifted \/ InStep)'
    BY <1>1, <1>2, ListStays
  <1>8. ASSUME NEW i \in Jobs, i \notin raced' PROVE JobOK(i)'
    <2>1. i \notin raced /\ JobOK(i)
      BY <1>1, <1>2, <1>8 DEF EveryJob
    <2>2. CASE i # j
      <3>1. table'[i] = table[i] /\ edit[e].job # i /\ v.job # i
        BY <1>1, <1>2, <1>4, <2>2
      <3>2. Agrees(i) => Agrees(i)'
        BY <1>1, <1>2, <3>1, ListStays
      <3>. HIDE DEF v
      <3>. QED
        BY <1>2, <1>4, <2>1, <3>1, <3>2, OtherJob
    <2>3. CASE i = j
      <3>1. ~Others(e, j)
        BY <1>2, <1>8, <2>3
      <3>2. \A c \in Editors : edit'[c].job = j => c = e
        BY <1>2, <1>4, <3>1 DEF Others
      <3>3. edit'[e].job = j /\ edit'[e].at = "fetch" /\ table'[j].there
        BY <1>2, <1>4
      <3>. QED
        BY <2>3, <3>2, <3>3 DEF JobOK, Edited, Knows
    <2>. QED
      BY <2>2, <2>3
  <1>. QED
    BY <1>5, <1>6, <1>7, <1>8 DEF JTInv, EveryJob

LEMMA DeleteRowOK ==
    ASSUME JobTableAssumption, JTInv, NEW e \in Editors, NEW j \in Jobs, DeleteRow(e, j)
    PROVE  JTInv'
  <1>. DEFINE v == [at |-> "unregister", job |-> j, row |-> NoRow]
              w == [table[j] EXCEPT !.there = FALSE, !.on = FALSE]
  <1>1. /\ TableOK /\ EditOK /\ ListOK /\ EveryJob /\ (shifted \/ InStep) /\ MaxVersions \in Nat
        /\ "none" \notin Jobs
    BY DEF JTInv, JobTableAssumption
  <1>2. /\ edit[e].at = "idle" /\ edit' = [edit EXCEPT ![e] = v]
        /\ table' = [table EXCEPT ![j].there = FALSE, ![j].on = FALSE]
        /\ raced' = (IF Others(e, j) THEN raced \cup {j} ELSE raced)
        /\ UNCHANGED <<live, tick, overdue, made, shifted, writes>>
    BY DEF DeleteRow, Begins
  <1>4. /\ table \in [Jobs -> Rows] /\ DOMAIN edit = Editors /\ edit[e].job = "none"
    BY <1>1, <1>2 DEF TableOK, EditOK
  <1>3. w \in Rows /\ ~w.there /\ ~w.on /\ v \in [at : EditPlaces, job : Jobs \cup {"none"}, row : Rows]
    <2>1. table[j] \in Rows
      BY <1>4
    <2>2. w \in Rows /\ ~w.there /\ ~w.on
      BY <2>1 DEF Rows
    <2>3. NoRow \in Rows
      BY <1>1 DEF Rows, NoRow
    <2>4. v \in [at : EditPlaces, job : Jobs \cup {"none"}, row : Rows]
      BY <2>3 DEF EditPlaces
    <2>. QED
      BY <2>2, <2>4
  <1>9. table' = [table EXCEPT ![j] = w]
    BY <1>2, <1>4
  <1>. HIDE DEF w
  <1>5. TableOK'
    <2>2. table' \in [Jobs -> Rows]
      BY <1>3, <1>4, <1>9
    <2>4. \A i \in Jobs : table'[i] = IF i = j THEN w ELSE table[i]
      BY <1>4, <1>9
    <2>. QED
      BY <1>1, <1>2, <1>3, <2>2, <2>4 DEF TableOK
  <1>6. EditOK'
    <2>1. v.at = "unregister" /\ v.job \in Jobs
      OBVIOUS
    <2>. HIDE DEF v
    <2>. QED
      BY <1>1, <1>2, <1>3, <2>1 DEF EditOK
  <1>7. ListOK' /\ (shifted \/ InStep)'
    BY <1>1, <1>2, ListStays
  <1>8. ASSUME NEW i \in Jobs, i \notin raced' PROVE JobOK(i)'
    <2>1. i \notin raced /\ JobOK(i)
      BY <1>1, <1>2, <1>8 DEF EveryJob
    <2>2. CASE i # j
      <3>1. table'[i] = table[i] /\ edit[e].job # i /\ v.job # i
        BY <1>1, <1>4, <1>9, <2>2
      <3>2. Agrees(i) => Agrees(i)'
        BY <1>1, <1>2, <3>1, ListStays
      <3>. HIDE DEF v
      <3>. QED
        BY <1>2, <1>4, <2>1, <3>1, <3>2, OtherJob
    <2>3. CASE i = j
      <3>1. ~Others(e, j)
        BY <1>2, <1>8, <2>3
      <3>2. \A c \in Editors : edit'[c].job = j => c = e
        BY <1>2, <1>4, <3>1 DEF Others
      <3>3. edit'[e].job = j /\ edit'[e].at = "unregister" /\ ~table'[j].on
        BY <1>2, <1>3, <1>4, <1>9
      <3>. QED
        BY <2>3, <3>2, <3>3 DEF JobOK, Edited, Knows
    <2>. QED
      BY <2>2, <2>3
  <1>. QED
    BY <1>5, <1>6, <1>7, <1>8 DEF JTInv, EveryJob

LEMMA FetchRowOK ==
    ASSUME JobTableAssumption, JTInv, NEW e \in Editors, FetchRow(e)
    PROVE  JTInv'
  <1>. DEFINE j == edit[e].job
              row == table[j]
              v == IF ~row.there THEN NoEdit ELSE [edit[e] EXCEPT !.at = "register", !.row = row]
  <1>1. /\ TableOK /\ EditOK /\ ListOK /\ EveryJob /\ (shifted \/ InStep) /\ MaxVersions \in Nat
        /\ "none" \notin Jobs
    BY DEF JTInv, JobTableAssumption
  <1>4. table \in [Jobs -> Rows] /\ edit \in [Editors -> [at : EditPlaces, job : Jobs \cup {"none"}, row : Rows]]
    BY <1>1 DEF TableOK, EditOK
  <1>2. /\ edit[e].at = "fetch" /\ edit' = [edit EXCEPT ![e] = v]
        /\ UNCHANGED <<table, live, tick, overdue, made, shifted, writes, raced>>
    BY <1>4 DEF FetchRow
  <1>5. j \in Jobs /\ row \in Rows /\ (row.there => row.ver # 0)
    BY <1>1, <1>2, <1>4 DEF TableOK, EditOK
  <1>3. /\ v \in [at : EditPlaces, job : Jobs \cup {"none"}, row : Rows]
        /\ row.there => v.at = "register" /\ v.job = j /\ v.row = row
        /\ ~row.there => v = NoEdit
    <2>1. CASE row.there
      <3>1. v = [edit[e] EXCEPT !.at = "register", !.row = row]
        BY <2>1
      <3>2. edit[e] \in [at : EditPlaces, job : Jobs \cup {"none"}, row : Rows]
        BY <1>4
      <3>. HIDE DEF v, row
      <3>3. v.at = "register" /\ v.row = row /\ v.job = j
        BY <3>1, <3>2
      <3>4. v \in [at : EditPlaces, job : Jobs \cup {"none"}, row : Rows]
        BY <1>5, <3>1, <3>2 DEF EditPlaces
      <3>. QED
        BY <2>1, <3>3, <3>4
    <2>2. CASE ~row.there
      <3>1. NoRow \in Rows
        BY <1>1 DEF Rows, NoRow
      <3>2. NoEdit \in [at : EditPlaces, job : Jobs \cup {"none"}, row : Rows]
        BY <3>1 DEF NoEdit, EditPlaces
      <3>. QED
        BY <2>2, <3>2
    <2>. QED
      BY <2>1, <2>2
  <1>. HIDE DEF v, row
  <1>6. EditOK'
    <2>1. v.at = "idle" => v.job = "none"
      BY <1>3 DEF NoEdit
    <2>2. v.at # "idle" => v.job \in Jobs
      BY <1>3, <1>5 DEF NoEdit
    <2>3. v.at = "register" => v.row.ver # 0
      BY <1>3, <1>5 DEF NoEdit
    <2>. QED
      BY <1>1, <1>2, <1>3, <2>1, <2>2, <2>3 DEF EditOK
  <1>7. ListOK' /\ (shifted \/ InStep)' /\ TableOK'
    BY <1>1, <1>2, ListStays DEF TableOK
  <1>8. ASSUME NEW i \in Jobs, i \notin raced' PROVE JobOK(i)'
    <2>1. i \notin raced /\ JobOK(i)
      BY <1>1, <1>2, <1>8 DEF EveryJob
    <2>2. CASE i # j
      <3>1. table'[i] = table[i] /\ edit[e].job # i /\ v.job # i
        BY <1>1, <1>2, <1>3, <2>2 DEF NoEdit
      <3>2. Agrees(i) => Agrees(i)'
        BY <1>1, <1>2, <3>1, ListStays
      <3>. QED
        BY <1>2, <1>4, <2>1, <3>1, <3>2, OtherJob
    <2>3. CASE i = j
      <3>1. row.there /\ \A c \in Editors : edit[c].job = j => c = e
        BY <1>2, <2>1, <2>3 DEF JobOK, Knows, row
      <3>2. edit'[e] = v /\ \A c \in Editors \ {e} : edit'[c] = edit[c]
        BY <1>2, <1>4
      <3>3. edit'[e].job = i /\ edit'[e].at = "register" /\ edit'[e].row = table'[i]
        BY <1>2, <1>3, <2>3, <3>1, <3>2 DEF row
      <3>4. \A c \in Editors : edit'[c].job = i => c = e
        BY <2>3, <3>1, <3>2
      <3>. QED
        BY <3>3, <3>4 DEF JobOK, Edited, Knows
    <2>. QED
      BY <2>2, <2>3
  <1>. QED
    BY <1>6, <1>7, <1>8 DEF JTInv, EveryJob

\* The list closes up, and may get a new object at its end.
LEMMA ListMoves ==
    ASSUME ListOK, shifted \/ InStep, NEW j, NEW n, NEW g, FromOld(j, live', n, g),
           UNCHANGED <<tick, overdue>>, Shifts(j), made' \in {made, made + 1},
           \A k \in 1..Len(live') : k > n => live'[k].obj = made + 1 /\ made' = made + 1
    PROVE  ListOK' /\ (shifted \/ InStep)'
  <1>1. /\ n \in Nat /\ Len(live') \in n..(n + 1) /\ DOMAIN live' = 1..Len(live')
        /\ DOMAIN live = 1..Len(live) /\ g \in [1..n -> 1..Len(live)] /\ live' \in Seq(Objs)
        /\ Len(live) \in Nat
    BY DEF FromOld, ListOK
  <1>2. /\ made \in Nat /\ \A k \in 1..Len(live) : live[k].obj \in 1..made
        /\ tick \in [i : Nat, obj : 0..made] /\ overdue \subseteq 1..made
    BY <1>1 DEF ListOK
  <1>3. made' \in Nat /\ 1..made \subseteq 1..made' /\ 0..made \subseteq 0..made'
    BY <1>2
  <1>4. ASSUME NEW k \in 1..Len(live')
        PROVE  \/ k \in 1..n /\ live'[k] = live[g[k]] /\ g[k] \in 1..Len(live)
               \/ k = n + 1 /\ live'[k].obj = made + 1 /\ made' = made + 1
    <2>1. k \in 1..n \/ (k = n + 1 /\ k > n)
      BY <1>1
    <2>2. CASE k \in 1..n
      BY <1>1, <2>2 DEF FromOld
    <2>3. CASE k = n + 1 /\ k > n
      BY <2>3
    <2>. QED
      BY <2>1, <2>2, <2>3
  <1>5. ListOK'
    <2>1. \A k \in 1..Len(live') : live'[k].obj \in 1..made'
      BY <1>2, <1>3, <1>4
    <2>2. tick' \in [i : Nat, obj : 0..made']
      BY <1>2, <1>3
    <2>. QED
      BY <1>1, <1>2, <1>3, <2>1, <2>2 DEF ListOK
  <1>6. ASSUME ~shifted' PROVE InStep'
    <2>1. ~shifted /\ InStep /\ \A k \in 1..tick.i : k \in 1..Len(live) => live[k].job # j
      BY <1>1, <1>6 DEF Shifts
    <2>2. ASSUME NEW k \in 1..Len(live'), live'[k].on, live'[k].obj \in overdue
          PROVE  k \in 1..n /\ Waits(g[k]) /\ g[k] \in 1..Len(live)
      <3>1. live'[k].obj # made + 1
        BY <1>2, <2>2
      <3>2. k \in 1..n /\ live'[k] = live[g[k]] /\ g[k] \in 1..Len(live)
        BY <1>4, <3>1
      <3>. QED
        BY <2>2, <3>2 DEF Waits
    <2>3. CASE tick = Asleep
      BY <1>1, <2>1, <2>2, <2>3 DEF InStep, Waits
    <2>4. CASE tick # Asleep
      <3>. DEFINE t == tick.i
      <3>1. /\ t \in 1..Len(live) /\ live[t].obj = tick.obj
            /\ \A k \in 1..Len(live) : Waits(k) => t <= k
        BY <1>1, <2>1, <2>4 DEF InStep
      <3>2. \A k \in 1..t : live[k].job # j
        BY <1>1, <2>1, <3>1
      <3>3. t <= n /\ \A k \in 1..t : g[k] = k
        BY <1>1, <3>1, <3>2 DEF FromOld
      <3>4. t \in 1..n /\ t \in 1..Len(live') /\ live'[t] = live[t]
        BY <1>1, <3>1, <3>3 DEF FromOld
      <3>5. ASSUME NEW k \in 1..Len(live'), live'[k].on, live'[k].obj \in overdue
            PROVE  t <= k
        <4>1. k \in 1..n /\ t <= g[k]
          BY <2>2, <3>1, <3>5
        <4>2. ~(k \in 1..t) \/ g[k] = k
          BY <3>3
        <4>. QED
          BY <1>1, <3>1, <4>1, <4>2
      <3>. QED
        BY <1>1, <2>4, <3>1, <3>4, <3>5 DEF InStep, Waits
    <2>. QED
      BY <2>3, <2>4
  <1>. QED
    BY <1>5, <1>6

LEMMA RegisterLiveOK ==
    ASSUME JobTableAssumption, JTInv, NEW e \in Editors, RegisterLive(e)
    PROVE  JTInv'
  <1>. DEFINE j == edit[e].job
              row == edit[e].row
              o == [job |-> j, ver |-> row.ver, on |-> TRUE, due |-> FALSE, obj |-> made + 1]
              n == Len(Without(j))
  <1>1. /\ TableOK /\ EditOK /\ ListOK /\ EveryJob /\ (shifted \/ InStep) /\ MaxVersions \in Nat
        /\ "none" \notin Jobs
    BY DEF JTInv, JobTableAssumption
  <1>2. /\ edit[e].at = "register" /\ edit' = [edit EXCEPT ![e] = NoEdit]
        /\ live' = (IF row.on THEN Append(Without(j), o) ELSE Without(j))
        /\ made' = made + 1 /\ Shifts(j)
        /\ UNCHANGED <<table, tick, overdue, writes, raced>>
    BY DEF RegisterLive, Register
  <1>3. /\ edit \in [Editors -> [at : EditPlaces, job : Jobs \cup {"none"}, row : Rows]]
        /\ j \in Jobs /\ row \in Rows /\ row.ver # 0 /\ made \in Nat /\ live \in Seq(Objs)
    BY <1>1, <1>2 DEF EditOK, ListOK
  <1>4. o \in Objs /\ o.job = j /\ o.obj = made + 1 /\ o.ver = row.ver /\ o.on
    <2>1. row.ver \in 1..MaxVersions
      BY <1>1, <1>3 DEF Rows
    <2>. HIDE DEF row, j
    <2>. QED
      BY <1>3, <2>1 DEF Objs
  <1>. HIDE DEF o
  <1>5. PICK g : FromOld(j, live', n, g)
    <2>1. live' = Without(j) \/ \E x \in Objs : x.job = j /\ live' = Append(Without(j), x)
      BY <1>2, <1>4
    <2>. QED
      BY <1>3, <2>1, NewListIs
  <1>6. n \in Nat /\ DOMAIN live' = 1..Len(live') /\ Without(j) \in Seq(Objs)
    <2>1. PICK h : Kept(j, Len(live), Without(j), h)
      BY <1>3, WithoutKeeps
    <2>. QED
      BY <1>5, <2>1 DEF Kept, FromOld
  <1>7. ASSUME NEW k \in 1..Len(live'), k > n
        PROVE  row.on /\ k = n + 1 /\ live'[k] = o
    <2>. DEFINE r == Without(j)
    <2>1. CASE row.on
      <3>1. live' = Append(r, o) /\ r \in Seq(Objs)
        BY <1>2, <1>6, <2>1
      <3>. HIDE DEF r
      <3>2. Len(live') = Len(r) + 1 /\ live'[Len(r) + 1] = o
        BY <3>1
      <3>3. k = Len(r) + 1
        BY <1>6, <1>7, <3>2 DEF r
      <3>. QED
        BY <2>1, <3>2, <3>3 DEF r
    <2>2. CASE ~row.on
      BY <1>2, <1>6, <1>7, <2>2
    <2>. QED
      BY <2>1, <2>2
  <1>. HIDE DEF n
  <1>8. ListOK' /\ (shifted \/ InStep)'
    <2>1. \A k \in 1..Len(live') : k > n => live'[k].obj = made + 1 /\ made' = made + 1
      BY <1>2, <1>4, <1>7
    <2>. QED
      BY <1>1, <1>2, <1>5, <2>1, ListMoves
  <1>9. EditOK' /\ TableOK'
    <2>1. NoRow \in Rows
      BY <1>1 DEF Rows, NoRow
    <2>2. NoEdit \in [at : EditPlaces, job : Jobs \cup {"none"}, row : Rows] /\ NoEdit.at = "idle" /\ NoEdit.job = "none"
      BY <2>1 DEF NoEdit, EditPlaces
    <2>3. EditOK'
      BY <1>1, <1>2, <2>2 DEF EditOK
    <2>4. TableOK'
      BY <1>1, <1>2 DEF TableOK
    <2>. QED
      BY <2>3, <2>4
  <1>10. ASSUME NEW i \in Jobs, i \notin raced' PROVE JobOK(i)'
    <2>1. i \notin raced /\ JobOK(i)
      BY <1>1, <1>2, <1>10 DEF EveryJob
    <2>2. CASE i # j
      <3>1. Agrees(i) => Agrees(i)'
        <4>1. \A k \in 1..Len(live') : k > n => live'[k].job = j
          BY <1>4, <1>7
        <4>. QED
          BY <1>2, <1>3, <1>5, <2>2, <4>1, OthersAgree
      <3>2. NoEdit.job # i /\ edit[e].job # i /\ DOMAIN edit = Editors /\ table'[i] = table[i]
        BY <1>1, <1>2, <1>3, <2>2 DEF NoEdit
      <3>. QED
        BY <1>2, <2>1, <3>1, <3>2, OtherJob
    <2>3. CASE i = j
      <3>1. row = table[i] /\ \A c \in Editors : edit[c].job = j => c = e
        BY <1>2, <2>1, <2>3 DEF JobOK, Knows
      <3>2. \A c \in Editors : edit'[c].job # i
        <4>1. edit'[e].job = "none" /\ \A c \in Editors \ {e} : edit'[c] = edit[c]
          BY <1>2, <1>3 DEF NoEdit
        <4>. QED
          BY <1>1, <1>3, <2>3, <3>1, <4>1
      <3>3. ASSUME NEW k \in Entries(i)'
            PROVE  row.on /\ k = n + 1 /\ live'[k] = o
        <4>1. k \in 1..Len(live') /\ live'[k].job = j
          BY <1>6, <2>3 DEF Entries
        <4>2. ~(k \in 1..n)
          BY <1>5, <4>1 DEF FromOld
        <4>. QED
          BY <1>6, <1>7, <4>1, <4>2
      <3>4. ASSUME row.on PROVE Entries(i)' # {}
        <4>. DEFINE r == Without(j)
        <4>1. live' = Append(r, o) /\ r \in Seq(Objs)
          BY <1>2, <1>6, <3>4
        <4>. HIDE DEF r
        <4>2. Len(live') = Len(r) + 1 /\ live'[Len(r) + 1] = o /\ Len(r) + 1 \in 1..Len(live')
          BY <4>1
        <4>. QED
          BY <1>4, <1>6, <2>3, <4>2 DEF Entries
      <3>5. Agrees(i)'
        <4>1. table' = table /\ (row.on <=> table[i].on) /\ o.ver = table[i].ver
          BY <1>2, <1>4, <3>1
        <4>2. \A k \in Entries(i)' : live'[k].on = table[i].on
          <5>1. o.on \in BOOLEAN /\ table[i].on \in BOOLEAN
            BY <1>1, <1>4 DEF Objs, TableOK, Rows
          <5>. QED
            BY <1>4, <3>3, <4>1, <5>1
        <4>. QED
          BY <3>3, <3>4, <4>1, <4>2 DEF Agrees
      <3>. QED
        BY <3>2, <3>5 DEF JobOK, Edited
    <2>. QED
      BY <2>2, <2>3
  <1>. QED
    BY <1>8, <1>9, <1>10 DEF JTInv, EveryJob

LEMMA UnregisterOK ==
    ASSUME JobTableAssumption, JTInv, NEW e \in Editors, Unregister(e)
    PROVE  JTInv'
  <1>. DEFINE j == edit[e].job
              n == Len(Without(j))
  <1>1. /\ TableOK /\ EditOK /\ ListOK /\ EveryJob /\ (shifted \/ InStep) /\ MaxVersions \in Nat
        /\ "none" \notin Jobs
    BY DEF JTInv, JobTableAssumption
  <1>2. /\ edit[e].at = "unregister" /\ edit' = [edit EXCEPT ![e] = NoEdit]
        /\ live' = Without(j) /\ Shifts(j)
        /\ UNCHANGED <<table, tick, overdue, writes, raced, made>>
    BY DEF Unregister
  <1>3. /\ edit \in [Editors -> [at : EditPlaces, job : Jobs \cup {"none"}, row : Rows]]
        /\ j \in Jobs /\ made \in Nat /\ live \in Seq(Objs)
    BY <1>1, <1>2 DEF EditOK, ListOK
  <1>5. PICK g : FromOld(j, live', n, g)
    BY <1>2, <1>3, NewListIs
  <1>6. n \in Nat /\ DOMAIN live' = 1..Len(live') /\ Len(live') = n
    BY <1>2, <1>5 DEF FromOld
  <1>. HIDE DEF n
  <1>7. \A k \in 1..Len(live') : ~(k > n)
    BY <1>6
  <1>8. ListOK' /\ (shifted \/ InStep)'
    BY <1>1, <1>2, <1>5, <1>7, ListMoves
  <1>9. EditOK' /\ TableOK'
    <2>1. NoRow \in Rows
      BY <1>1 DEF Rows, NoRow
    <2>2. NoEdit \in [at : EditPlaces, job : Jobs \cup {"none"}, row : Rows] /\ NoEdit.at = "idle" /\ NoEdit.job = "none"
      BY <2>1 DEF NoEdit, EditPlaces
    <2>3. EditOK'
      BY <1>1, <1>2, <2>2 DEF EditOK
    <2>4. TableOK'
      BY <1>1, <1>2 DEF TableOK
    <2>. QED
      BY <2>3, <2>4
  <1>10. ASSUME NEW i \in Jobs, i \notin raced' PROVE JobOK(i)'
    <2>1. i \notin raced /\ JobOK(i)
      BY <1>1, <1>2, <1>10 DEF EveryJob
    <2>2. CASE i # j
      <3>1. Agrees(i) => Agrees(i)'
        BY <1>2, <1>3, <1>5, <1>7, <2>2, OthersAgree
      <3>2. NoEdit.job # i /\ edit[e].job # i /\ DOMAIN edit = Editors /\ table'[i] = table[i]
        BY <1>1, <1>2, <1>3, <2>2 DEF NoEdit
      <3>. QED
        BY <1>2, <2>1, <3>1, <3>2, OtherJob
    <2>3. CASE i = j
      <3>1. ~table[i].on /\ \A c \in Editors : edit[c].job = j => c = e
        BY <1>2, <2>1, <2>3 DEF JobOK, Knows
      <3>2. \A c \in Editors : edit'[c].job # i
        <4>1. edit'[e].job = "none" /\ \A c \in Editors \ {e} : edit'[c] = edit[c]
          BY <1>2, <1>3 DEF NoEdit
        <4>. QED
          BY <1>1, <1>3, <2>3, <3>1, <4>1
      <3>3. Entries(i)' = {}
        <4>1. \A k \in 1..n : live'[k].job # j
          BY <1>5 DEF FromOld
        <4>. QED
          BY <1>6, <2>3, <4>1 DEF Entries
      <3>5. Agrees(i)'
        BY <1>2, <3>1, <3>3 DEF Agrees
      <3>. QED
        BY <3>2, <3>5 DEF JobOK, Edited
    <2>. QED
      BY <2>2, <2>3
  <1>. QED
    BY <1>8, <1>9, <1>10 DEF JTInv, EveryJob

-----------------------------------------------------------------------------
(* The loop.                                                                *)

\* The first object that waits from index i on, or none.
LEMMA NextFromIs ==
    ASSUME ListOK, NEW i \in Nat \ {0}, NEW due, NEW t, t = NextFrom(i, live, due)
    PROVE  \/ /\ t = Asleep
              /\ \A k \in DOMAIN live : k >= i => ~(live[k].on /\ live[k].obj \in due)
           \/ /\ t # Asleep /\ t \in [i : Nat, obj : 0..made] /\ t.i \in DOMAIN live
              /\ live[t.i].obj = t.obj
              /\ \A k \in DOMAIN live : k >= i /\ live[k].on /\ live[k].obj \in due => t.i <= k
  <1>. DEFINE found == {k \in DOMAIN live : k >= i /\ live[k].on /\ live[k].obj \in due}
              k == CHOOSE m \in found : \A l \in found : m <= l
  <1>1. DOMAIN live = 1..Len(live) /\ Len(live) \in Nat
    BY DEF ListOK
  <1>2. CASE found = {}
    <2>1. t = Asleep
      BY <1>2 DEF NextFrom
    <2>. QED
      BY <1>2, <2>1
  <1>3. CASE found # {}
    <2>1. t = [i |-> k, obj |-> live[k].obj]
      BY <1>3 DEF NextFrom
    <2>2. found \subseteq Nat
      BY <1>1
    <2>3. k \in found /\ \A l \in found : k <= l
      <3>. HIDE DEF found
      <3>. QED
        BY <1>3, <2>2, LeastNumber
    <2>. HIDE DEF k
    <2>4. k \in DOMAIN live /\ k \in Nat /\ k # 0 /\ live[k].obj \in 1..made /\ made \in Nat
      BY <1>1, <2>3 DEF ListOK
    <2>5. t # Asleep
      BY <2>1, <2>4 DEF Asleep
    <2>. QED
      BY <2>1, <2>3, <2>4, <2>5
  <1>. QED
    BY <1>2, <1>3

LEMMA ComesDueOK ==
    ASSUME JTInv, NEW x \in DOMAIN live, ComesDue(x)
    PROVE  JTInv'
  <1>1. TableOK /\ EditOK /\ ListOK /\ EveryJob /\ (shifted \/ InStep)
    BY DEF JTInv
  <1>2. /\ live' = [live EXCEPT ![x].due = TRUE]
        /\ UNCHANGED <<table, tick, overdue, edit, writes, made, raced, shifted>>
    BY DEF ComesDue
  <1>. DEFINE o == [live[x] EXCEPT !.due = TRUE]
  <1>3. live \in Seq(Objs) /\ DOMAIN live = 1..Len(live) /\ live[x] \in Objs
    BY <1>1 DEF ListOK
  <1>4. /\ o \in Objs /\ o.job = live[x].job /\ o.ver = live[x].ver /\ o.on = live[x].on
        /\ o.obj = live[x].obj
    BY <1>3 DEF Objs
  <1>5. live' = [live EXCEPT ![x] = o]
    BY <1>2, <1>3
  <1>. HIDE DEF o
  <1>6. live' \in Seq(Objs) /\ Len(live') = Len(live)
    BY <1>3, <1>4, <1>5
  <1>7. \A k \in DOMAIN live : /\ live'[k].job = live[k].job /\ live'[k].ver = live[k].ver
                              /\ live'[k].on = live[k].on /\ live'[k].obj = live[k].obj
    BY <1>3, <1>4, <1>5
  <1>8. /\ \A k \in DOMAIN live' : live'[k].obj \in 1..made'
        /\ DOMAIN live' = DOMAIN live /\ EveryJob'
    BY <1>1, <1>2, <1>6, <1>7, SameObjects
  <1>9. ListOK'
    BY <1>1, <1>2, <1>6, <1>8 DEF ListOK
  <1>10. (shifted \/ InStep)'
    BY <1>1, <1>2, <1>7, <1>8 DEF InStep, Waits
  <1>11. TableOK' /\ EditOK'
    BY <1>1, <1>2 DEF TableOK, EditOK
  <1>. QED
    BY <1>8, <1>9, <1>10, <1>11 DEF JTInv

LEMMA WakesOK ==
    ASSUME JTInv, Wakes
    PROVE  JTInv'
  <1>. DEFINE due == {live[k].obj : k \in {l \in DOMAIN live : live[l].due}}
              t == NextFrom(1, live, due)
  <1>1. TableOK /\ EditOK /\ ListOK /\ EveryJob
    BY DEF JTInv
  <1>2. tick' = t /\ overdue' = due /\ UNCHANGED <<table, live, edit, writes, made, raced>>
    BY DEF Wakes
  <1>3. due \subseteq 1..made
    BY <1>1 DEF ListOK
  <1>. HIDE DEF due
  <1>4. \/ /\ t = Asleep
           /\ \A k \in DOMAIN live : k >= 1 => ~(live[k].on /\ live[k].obj \in due)
        \/ /\ t # Asleep /\ t \in [i : Nat, obj : 0..made] /\ t.i \in DOMAIN live
           /\ live[t.i].obj = t.obj
           /\ \A k \in DOMAIN live : k >= 1 /\ live[k].on /\ live[k].obj \in due => t.i <= k
    <2>1. 1 \in Nat \ {0}
      OBVIOUS
    <2>. QED
      BY <1>1, <2>1, NextFromIs
  <1>. HIDE DEF t
  <1>5. /\ made \in Nat /\ \A k \in DOMAIN live : k >= 1
        /\ DOMAIN live = 1..Len(live)
    BY <1>1 DEF ListOK
  <1>6. t \in [i : Nat, obj : 0..made]
    BY <1>4, <1>5 DEF Asleep
  <1>7. ListOK'
    BY <1>1, <1>2, <1>3, <1>6 DEF ListOK
  <1>8. InStep'
    <2>1. CASE t = Asleep
      BY <1>2, <1>4, <1>5, <2>1 DEF InStep, Waits
    <2>2. CASE t # Asleep
      BY <1>2, <1>4, <1>5, <2>2 DEF InStep, Waits
    <2>. QED
      BY <2>1, <2>2
  <1>9. TableOK' /\ EditOK'
    BY <1>1, <1>2 DEF TableOK, EditOK
  <1>10. EveryJob'
    BY <1>1, <1>2 DEF EveryJob, JobOK, Agrees, Knows, Edited, Entries
  <1>. QED
    BY <1>7, <1>8, <1>9, <1>10 DEF JTInv

LEMMA FireReturnsOK ==
    ASSUME JTInv, FireReturns
    PROVE  JTInv'
  <1>. DEFINE due == overdue \ {tick.obj}
              t == NextFrom(tick.i + 1, live, due)
              Fired(k) == IF live[k].obj = tick.obj THEN [live[k] EXCEPT !.due = FALSE] ELSE live[k]
  <1>1. TableOK /\ EditOK /\ ListOK /\ EveryJob /\ (shifted \/ InStep)
    BY DEF JTInv
  <1>2. /\ live' = [k \in DOMAIN live |-> Fired(k)] /\ overdue' = due /\ tick' = t /\ tick.obj > 0
        /\ UNCHANGED <<table, edit, writes, made, raced, shifted>>
    BY DEF FireReturns
  <1>3. /\ live \in Seq(Objs) /\ DOMAIN live = 1..Len(live) /\ Len(live) \in Nat /\ made \in Nat
        /\ overdue \subseteq 1..made /\ tick.i \in Nat
    BY <1>1 DEF ListOK
  <1>4. ASSUME NEW k \in DOMAIN live
        PROVE  /\ Fired(k) \in Objs /\ Fired(k).job = live[k].job /\ Fired(k).ver = live[k].ver
               /\ Fired(k).on = live[k].on /\ Fired(k).obj = live[k].obj
    <2>1. live[k] \in Objs
      BY <1>3
    <2>. QED
      BY <2>1 DEF Objs
  <1>. HIDE DEF Fired
  <1>5. live' \in Seq(Objs) /\ Len(live') = Len(live)
    BY <1>2, <1>3, <1>4
  <1>6. \A k \in DOMAIN live : /\ live'[k].job = live[k].job /\ live'[k].ver = live[k].ver
                              /\ live'[k].on = live[k].on /\ live'[k].obj = live[k].obj
    BY <1>2, <1>4
  <1>7. /\ \A k \in DOMAIN live' : live'[k].obj \in 1..made'
        /\ DOMAIN live' = DOMAIN live /\ EveryJob'
    BY <1>1, <1>2, <1>5, <1>6, SameObjects
  <1>8. \/ /\ t = Asleep
           /\ \A k \in DOMAIN live : k >= tick.i + 1 => ~(live[k].on /\ live[k].obj \in due)
        \/ /\ t # Asleep /\ t \in [i : Nat, obj : 0..made] /\ t.i \in DOMAIN live
           /\ live[t.i].obj = t.obj
           /\ \A k \in DOMAIN live : k >= tick.i + 1 /\ live[k].on /\ live[k].obj \in due => t.i <= k
    <2>1. tick.i + 1 \in Nat \ {0}
      BY <1>3
    <2>. HIDE DEF due
    <2>. QED
      BY <1>1, <2>1, NextFromIs
  <1>. HIDE DEF t
  <1>9. t \in [i : Nat, obj : 0..made]
    BY <1>3, <1>8 DEF Asleep
  <1>10. ListOK'
    BY <1>2, <1>3, <1>5, <1>7, <1>9 DEF ListOK
  <1>11. ASSUME ~shifted' PROVE InStep'
    <2>1. InStep /\ tick # Asleep
      <3>1. InStep
        BY <1>1, <1>2, <1>11
      <3>2. tick # Asleep
        BY <1>2 DEF Asleep
      <3>. QED
        BY <3>1, <3>2
    <2>2. ASSUME NEW k \in DOMAIN live, live[k].on, live[k].obj \in due
          PROVE  k >= tick.i + 1
      <3>1. tick.i <= k /\ k \in Nat /\ live[tick.i].obj = tick.obj
        BY <1>3, <2>1, <2>2 DEF InStep, Waits
      <3>2. k # tick.i
        BY <2>2, <3>1
      <3>. QED
        BY <1>3, <3>1, <3>2
    <2>. HIDE DEF due
    <2>3. CASE t = Asleep
      BY <1>2, <1>6, <1>7, <1>8, <2>2, <2>3 DEF InStep, Waits
    <2>4. CASE t # Asleep
      BY <1>2, <1>6, <1>7, <1>8, <2>2, <2>4 DEF InStep, Waits
    <2>. QED
      BY <2>3, <2>4
  <1>12. TableOK' /\ EditOK'
    BY <1>1, <1>2 DEF TableOK, EditOK
  <1>. QED
    BY <1>7, <1>10, <1>11, <1>12 DEF JTInv

LEMMA RebootOK ==
    ASSUME JobTableAssumption, JTInv, Reboot
    PROVE  JTInv'
  <1>1. /\ TableOK /\ ListOK /\ MaxVersions \in Nat /\ "none" \notin Jobs /\ made \in Nat
    BY DEF JTInv, JobTableAssumption, ListOK
  <1>2. /\ live' = Loaded(made) /\ made' = made + Len(live') /\ tick' = Asleep /\ overdue' = {}
        /\ edit' = [e \in Editors |-> NoEdit] /\ raced' = {} /\ shifted' = FALSE
        /\ UNCHANGED <<table, writes>>
    BY DEF Reboot
  <1>3. IsLoaded(live', made)
    BY <1>1, <1>2, LoadedIs
  <1>4. TableOK'
    BY <1>1, <1>2 DEF TableOK
  <1>5. EditOK'
    <2>1. NoRow \in Rows
      BY <1>1 DEF Rows, NoRow
    <2>2. NoEdit \in [at : EditPlaces, job : Jobs \cup {"none"}, row : Rows] /\ NoEdit.at = "idle" /\ NoEdit.job = "none"
      BY <2>1 DEF NoEdit, EditPlaces
    <2>. QED
      BY <1>2, <2>2 DEF EditOK
  <1>6. ListOK'
    <2>1. Len(live') \in Nat /\ live' \in Seq(Objs) /\ \A k \in DOMAIN live' : live'[k].obj \in (made + 1)..(made + Len(live'))
      BY <1>3 DEF IsLoaded
    <2>2. made' \in Nat /\ (made + 1)..(made + Len(live')) \subseteq 1..made'
      BY <1>1, <1>2, <2>1
    <2>3. tick' \in [i : Nat, obj : 0..made']
      BY <1>2, <2>2 DEF Asleep
    <2>. QED
      BY <1>2, <2>1, <2>2, <2>3 DEF ListOK
  <1>7. InStep'
    BY <1>2 DEF InStep, Waits
  <1>8. ASSUME NEW j \in Jobs PROVE JobOK(j)'
    <2>1. \A e \in Editors : edit'[e].job # j
      BY <1>1, <1>2 DEF NoEdit
    <2>2. Agrees(j)'
      BY <1>1, <1>2, <1>3 DEF IsLoaded, Agrees, Entries, TableOK
    <2>. QED
      BY <2>1, <2>2 DEF JobOK, Edited
  <1>. QED
    BY <1>4, <1>5, <1>6, <1>7, <1>8 DEF JTInv, EveryJob

LEMMA JTStep ==
    ASSUME JobTableAssumption, JTInv, [JTNext]_jtVars
    PROVE  JTInv'
  <1>1. CASE UNCHANGED jtVars
    BY <1>1 DEF jtVars, JTInv, TableOK, EditOK, ListOK, EveryJob, JobOK, Agrees, Knows, Edited,
                Entries, InStep, Waits
  <1>2. CASE \E e \in Editors, j \in Jobs : \E on \in BOOLEAN : WriteRow(e, j, on)
    BY <1>2, WriteRowOK
  <1>3. CASE \E e \in Editors, j \in Jobs : DeleteRow(e, j)
    BY <1>3, DeleteRowOK
  <1>4. CASE \E e \in Editors : FetchRow(e)
    BY <1>4, FetchRowOK
  <1>5. CASE \E e \in Editors : RegisterLive(e)
    BY <1>5, RegisterLiveOK
  <1>6. CASE \E e \in Editors : Unregister(e)
    BY <1>6, UnregisterOK
  <1>7. CASE \E k \in DOMAIN live : ComesDue(k)
    BY <1>7, ComesDueOK
  <1>8. CASE Wakes
    BY <1>8, WakesOK
  <1>9. CASE FireReturns
    BY <1>9, FireReturnsOK
  <1>10. CASE Reboot
    BY <1>10, RebootOK
  <1>. QED
    BY <1>1, <1>2, <1>3, <1>4, <1>5, <1>6, <1>7, <1>8, <1>9, <1>10, Zenon DEF JTNext

LEMMA JTInvShows ==
    ASSUME JobTableAssumption, JTInv
    PROVE  LiveMatchesTable
  <1>1. TableOK /\ EditOK /\ ListOK /\ EveryJob /\ (shifted \/ InStep)
    BY DEF JTInv
  <1>2. JTTypeOK
    <2>. DEFINE T == [job : Jobs, ver : 1..MaxVersions, on : BOOLEAN, due : BOOLEAN, obj : 1..made]
    <2>1. live \in Seq(Objs) /\ \A k \in 1..Len(live) : live[k].obj \in 1..made
      BY <1>1 DEF ListOK
    <2>2. \A k \in 1..Len(live) : live[k] \in T
      <3>1. \A k \in 1..Len(live) : live[k] \in Objs
        BY <2>1
      <3>. QED
        BY <2>1, <3>1 DEF Objs
    <2>3. live \in Seq(T)
      <3>. HIDE DEF T
      <3>. QED
        BY <2>1, <2>2
    <2>4. tick.obj \in 0..made
      BY <1>1 DEF ListOK
    <2>. QED
      BY <1>1, <2>3, <2>4 DEF JTTypeOK, TableOK, Rows
  <1>3. ListAgrees
    <2>1. ASSUME NEW j \in Jobs, j \notin raced, \A e \in Editors : edit[e].job # j
          PROVE  /\ Cardinality(Entries(j)) <= 1
                 /\ table[j].on => Entries(j) # {}
                 /\ \A k \in Entries(j) : live[k].ver = table[j].ver /\ live[k].on = table[j].on
      <3>1. Agrees(j)
        BY <1>1, <2>1 DEF EveryJob, JobOK, Edited
      <3>2. Entries(j) = {} \/ \E k : Entries(j) = {k}
        BY <3>1 DEF Agrees
      <3>3. Cardinality(Entries(j)) <= 1
        <4>1. CASE Entries(j) = {}
          BY <4>1, FS_EmptySet
        <4>2. CASE \E k : Entries(j) = {k}
          BY <4>2, FS_Singleton
        <4>. QED
          BY <3>2, <4>1, <4>2
      <3>. QED
        BY <3>1, <3>3 DEF Agrees
    <2>. QED
      BY <2>1 DEF ListAgrees
  <1>4. TickServesAll
    BY <1>1 DEF TickServesAll, InStep, Waits
  <1>. QED
    BY <1>2, <1>3, <1>4 DEF LiveMatchesTable

\* For any jobs, requests and edits: a job that nobody edits, and no two
\* requests edited together, is in the scheduler once, as its row says, or not
\* at all; and a tick no edit closed up ends with every due job served
\* (user_jobs.py's register and unregister under scheduler.py's _loop).
THEOREM JobTableHolds ==
    ASSUME JobTableAssumption
    PROVE  JTSpec => []LiveMatchesTable
  <1>1. JTInit => JTInv
    BY JTInitOK
  <1>2. JTInv /\ [JTNext]_jtVars => JTInv'
    BY JTStep
  <1>3. JTInv => LiveMatchesTable
    BY JTInvShows
  <1>. QED
    BY <1>1, <1>2, <1>3, PTL DEF JTSpec

-----------------------------------------------------------------------------
(* Why consolidation loses no memory and repeats no work, for any number of  *)
(* calls, memories and episodes.  What a pass is about to close gives way to *)
(* a memory that was there and is no older, whatever became of it since; so  *)
(* a line of heirs goes up until it ends or ties.  And what was derived is   *)
(* derived from something no pass that begins later will find, so that only  *)
(* a pass that had it in hand already can derive it again.                   *)

Passes == {"summarize", "dedup", "conflict_resolve", "merge_promote", "decay",
           "recombine_incubate"}
MemRow == [state : {"none", "open", "closed", "marker"}, key : Keys \cup {"none"},
           tier : {"working", "semantic"}, made : Nat, by : 0..MaxMems,
           epi : 0..MaxEpisodes, vec : BOOLEAN]
NewMems == [id : Mems, key : Keys \cup {"none"}, epi : Episodes]
Works == [in : BOOLEAN, todo : SUBSET (Seq(Nat)), close : SUBSET (Mems \X (0..MaxMems)),
          store : SUBSET NewMems, promote : SUBSET (Mems \X Episodes), begun : Nat]
Tags == {"episode"} \X Episodes \cup {"memory"} \X Mems

ConRowsOK ==
    /\ mem \in [Mems -> MemRow] /\ \A m \in Mems : mem[m].made <= now
    /\ episodes \subseteq Episodes
    /\ call \in [Calls -> [plan : Seq(Passes), work : Works]]
    /\ runs \in Nat /\ now \in Nat
    /\ copies \in [Tags -> Nat]

\* Memories that were there to be found, open or not; once, for ever.
Told(m) == mem[m].state \in {"open", "closed"}

\* The heir of a memory is no older than it, and another; who is closed has one
\* unless it was closed for its own sake.
HeirOK(m, n) == n \in Mems /\ n # m /\ Told(n) /\ mem[m].made <= mem[n].made
LinesUp ==
    \A m \in Mems :
        /\ Told(m) => mem[m].by = 0 \/ HeirOK(m, mem[m].by)
        /\ mem[m].state = "closed" => m \in others \/ mem[m].by # 0
        /\ mem[m].state = "none" => mem[m].epi = 0

\* What each pass has in hand, and what it has written.
Pass(c) == Head(call[c].plan)
WorkIs(p, w) ==
    /\ ~w.in => w = NoWork
    /\ w.begun <= now
    /\ p \in {"dedup", "conflict_resolve"} => \A q \in w.todo :
          q \in Mems \X Mems /\ Told(q[1]) /\ Told(q[2]) /\ q[1] # q[2]
    /\ p = "merge_promote" => \A t \in w.todo : t = <<t[1]>> /\ t[1] \in Mems
    /\ p = "summarize" => \A t \in w.todo : t = <<t[1]>> /\ t[1] \in Episodes
    /\ w.store # {} => p = "summarize"
    /\ w.promote # {} => p = "merge_promote"
    /\ w.close # {} => p \notin {"summarize", "merge_promote"}
    /\ \A x \in w.close : Told(x[1]) /\ (x[2] = 0 \/ HeirOK(x[1], x[2]))
    /\ \A s \in w.store : mem[s.id].state = "none"
    /\ \A s, t \in w.store : s.id = t.id => s = t
WorkOK(c) == (call[c].work.in => call[c].plan # <<>>) /\ WorkIs(Pass(c), call[c].work)

\* What is in the hands of a call whose pass p has done w.
HandOf(p, w) == IF ~w.in THEN {}
                ELSE Tagged(p, w.todo) \cup {<<"episode", s.epi>> : s \in w.store}
                     \cup {<<"memory", q[1]>> : q \in w.promote}

\* No two calls store under one id.
StoresApart ==
    \A c, d \in Calls : c # d =>
        \A s \in call[c].work.store, t \in call[d].work.store : s.id # t.id

\* What was derived is found no more; what is in hand was not derived and is in
\* one hand only: but for what two passes had in hand together.
Spent(x) == IF x[1] = "episode" THEN \E m \in Mems : mem[m].epi = x[2]
                                ELSE mem[x[2]].tier = "semantic"
OneHand(x) ==
    /\ copies[x] <= 1
    /\ copies[x] = 0 \/ Spent(x)
    /\ \A c \in Calls : x \in InHand(c) =>
          copies[x] = 0 /\ \A d \in Calls \ {c} : x \notin InHand(d)
HandsAre == \A x \in Tags \ doubled : OneHand(x)

ConInv == ConRowsOK /\ LinesUp /\ (\A c \in Calls : WorkOK(c)) /\ StoresApart /\ HandsAre

LEMMA LeastIs ==
    ASSUME NEW S, S \subseteq Nat, S # {}
    PROVE  Least(S) \in S
  BY LeastNumber DEF Least

LEMMA ConFacts ==
    ASSUME ConsolidationAssumption
    PROVE  /\ NoWork \in Works /\ ~NoWork.in /\ NoWork.begun = 0
           /\ NoWork.todo = {} /\ NoWork.close = {} /\ NoWork.store = {} /\ NoWork.promote = {}
           /\ NoMem \in MemRow
           /\ NoCall = [plan |-> <<>>, work |-> NoWork] /\ NoCall \in [plan : Seq(Passes), work : Works]
           /\ Mems \subseteq Nat \ {0} /\ Episodes \subseteq Nat \ {0} /\ Mems \subseteq 0..MaxMems
           /\ Episodes \subseteq 0..MaxEpisodes /\ 0 \in 0..MaxMems
  <1>1. MaxMems \in Nat /\ MaxEpisodes \in Nat
    BY DEF ConsolidationAssumption
  <1>2. NoWork \in Works
    BY DEF NoWork, Works
  <1>3. NoCall \in [plan : Seq(Passes), work : Works]
    BY <1>2 DEF NoCall
  <1>4. NoMem \in MemRow
    BY <1>1 DEF NoMem, MemRow
  <1>. QED
    BY <1>1, <1>2, <1>3, <1>4 DEF NoWork, NoCall, Mems, Episodes

LEMMA HandIs == \A c \in Calls : InHand(c) = HandOf(Pass(c), call[c].work)
  BY DEF InHand, HandOf, Pass

\* Tags are what a pass holds of the one kind or the other.
LEMMA TagsIn ==
    ASSUME NEW p, NEW w \in Works
    PROVE  /\ \A e : <<"episode", e>> \in HandOf(p, w) <=>
                 w.in /\ \/ p = "summarize" /\ \E t \in w.todo : t[1] = e
                         \/ \E s \in w.store : s.epi = e
           /\ \A m : <<"memory", m>> \in HandOf(p, w) <=>
                 w.in /\ \/ p = "merge_promote" /\ \E t \in w.todo : t[1] = m
                         \/ \E q \in w.promote : q[1] = m
           /\ \A x \in HandOf(p, w) : x[1] \in {"episode", "memory"} /\ x = <<x[1], x[2]>>
  BY DEF HandOf, Tagged

\* Memories that only grow leave what the other calls have in hand as it was.
MemGrows ==
    /\ mem' \in [Mems -> MemRow] /\ now' \in Nat /\ now <= now'
    /\ \A m \in Mems : mem'[m].made <= now'
    /\ \A m \in Mems : Told(m) => Told(m)' /\ mem'[m].made = mem[m].made
LEMMA WorkStands ==
    ASSUME ConsolidationAssumption, ConRowsOK, MemGrows, NEW p, NEW w \in Works, WorkIs(p, w),
           \A s \in w.store : mem'[s.id].state = "none"
    PROVE  WorkIs(p, w)'
  <1>1. w.begun <= now'
    BY DEF MemGrows, WorkIs, ConRowsOK, Works
  <1>2. \A x \in w.close : Told(x[1])' /\ (x[2] = 0 \/ HeirOK(x[1], x[2])')
    <2>1. \A x \in w.close : x[1] \in Mems
      BY DEF Works
    <2>. QED
      BY <2>1 DEF MemGrows, WorkIs, HeirOK
  <1>3. p \in {"dedup", "conflict_resolve"} => \A q \in w.todo :
          q \in Mems \X Mems /\ Told(q[1])' /\ Told(q[2])' /\ q[1] # q[2]
    BY DEF MemGrows, WorkIs
  <1>. QED
    BY <1>1, <1>2, <1>3 DEF WorkIs

\* The same for what is derived: nothing in hand is new, nothing is spent back.
LEMMA HandsKeep ==
    ASSUME HandsAre, copies' = copies, doubled \subseteq doubled',
           \A x \in Tags : Spent(x) => Spent(x)',
           \A c \in Calls : InHand(c)' \subseteq InHand(c)
    PROVE  HandsAre'
  <1>1. ASSUME NEW x \in Tags, x \notin doubled' PROVE OneHand(x)'
    <2>1. OneHand(x)
      BY <1>1 DEF HandsAre
    <2>2. copies'[x] <= 1 /\ (copies'[x] = 0 \/ Spent(x)')
      BY <2>1, <1>1 DEF OneHand
    <2>3. ASSUME NEW c \in Calls, x \in InHand(c)'
          PROVE  copies'[x] = 0 /\ \A d \in Calls \ {c} : x \notin InHand(d)'
      BY <2>1, <2>3 DEF OneHand
    <2>. QED
      BY <2>2, <2>3 DEF OneHand
  <1>. QED
    BY <1>1 DEF HandsAre

LEMMA SpentStays ==
    ASSUME mem' = mem
    PROVE  \A x \in Tags : Spent(x) => Spent(x)'
  BY DEF Spent

\* A write of a pass: rows it may write, in hand before.
LEMMA DoesKeeps ==
    ASSUME ConsolidationAssumption, ConInv, NEW c \in Calls, NEW p, NEW v, NEW w \in Works,
           p = Pass(c), v = call[c].work, v.in, WorkIs(p, w), w.in,
           HandOf(p, w) \subseteq HandOf(p, v),
           \A s \in w.store \ v.store : s.id \in FreshMems,
           Does(c, w)
    PROVE  ConInv'
  <1>1. /\ call' = [call EXCEPT ![c].work = w]
        /\ mem' = mem /\ episodes' = episodes /\ runs' = runs /\ now' = now
        /\ others' = others /\ copies' = copies /\ doubled' = doubled
    BY DEF Does
  <1>2. call \in [Calls -> [plan : Seq(Passes), work : Works]]
    BY DEF ConInv, ConRowsOK
  <1>3. /\ call'[c].work = w /\ call'[c].plan = call[c].plan
        /\ \A d \in Calls \ {c} : call'[d] = call[d]
        /\ call' \in [Calls -> [plan : Seq(Passes), work : Works]]
    BY <1>1, <1>2
  <1>4. ConRowsOK'
    BY <1>1, <1>3 DEF ConInv, ConRowsOK
  <1>5. LinesUp'
    BY <1>1 DEF ConInv, LinesUp, HeirOK, Told
  <1>6. WorkOK(c)'
    <2>1. Pass(c)' = p
      BY <1>3 DEF Pass
    <2>2. WorkIs(p, w)'
      BY <1>1 DEF WorkIs, Told, HeirOK
    <2>3. call'[c].plan # <<>>
      BY <1>3 DEF ConInv, WorkOK
    <2>. QED
      BY <2>1, <2>2, <2>3, <1>3 DEF WorkOK
  <1>7. ASSUME NEW d \in Calls \ {c} PROVE WorkOK(d)'
    <2>1. WorkOK(d) /\ call'[d] = call[d]
      BY <1>3 DEF ConInv
    <2>. QED
      BY <2>1, <1>1 DEF WorkOK, WorkIs, Told, HeirOK, Pass
  <1>8. StoresApart'
    <2>1. \A s \in w.store, d \in Calls \ {c} : \A t \in call[d].work.store : s.id # t.id
      BY DEF FreshMems, ConInv, StoresApart
    <2>. QED
      BY <2>1, <1>3 DEF ConInv, StoresApart
  <1>9. HandsAre'
    <2>1. \A d \in Calls : InHand(d)' \subseteq InHand(d)
      <3>1. InHand(c)' = HandOf(p, w) /\ InHand(c) = HandOf(p, v)
        BY <1>3, HandIs DEF Pass, HandOf, InHand
      <3>2. \A d \in Calls \ {c} : InHand(d)' = InHand(d)
        BY <1>3 DEF InHand
      <3>. QED
        BY <3>1, <3>2
    <2>. QED
      BY <2>1, <1>1, SpentStays, HandsKeep DEF ConInv
  <1>. QED
    BY <1>4, <1>5, <1>6, <1>7, <1>8, <1>9 DEF ConInv

\* The pass of a call and its work, held fixed.
LEMMA WorkOf ==
    ASSUME ConInv, NEW c \in Calls, NEW pass, Doing(c, pass)
    PROVE  \E p, v : /\ p = Pass(c) /\ p = pass /\ v = call[c].work
                     /\ v \in Works /\ v.in /\ WorkIs(p, v)
  BY DEF ConInv, ConRowsOK, WorkOK, Doing, Pass

LEMMA SupersedeKeeps ==
    ASSUME ConsolidationAssumption, ConInv, NEW c \in Calls, NEW pass \in {"dedup", "conflict_resolve"},
           Doing(c, pass), NEW q \in call[c].work.todo, NEW old, NEW new,
           \/ old = q[1] /\ new = q[2]
           \/ old = q[2] /\ new = q[1],
           mem[old].made <= mem[new].made, Supersede(c, q, old, new)
    PROVE  ConInv'
  <1>1. PICK p, v : /\ p = Pass(c) /\ p = pass /\ v = call[c].work
                    /\ v \in Works /\ v.in /\ WorkIs(p, v)
    BY WorkOf
  <1>2. old \in Mems /\ new \in Mems /\ Told(old) /\ Told(new) /\ old # new
    BY <1>1 DEF WorkIs
  <1>3. PICK w : /\ Does(c, w)
                 /\ \/ w = [v EXCEPT !.todo = @ \ {q}, !.close = @ \cup {<<old, new>>}]
                    \/ w = [v EXCEPT !.todo = @ \ {q}]
    <2>1. \/ Does(c, [v EXCEPT !.todo = @ \ {q}, !.close = @ \cup {<<old, new>>}])
          \/ Does(c, [v EXCEPT !.todo = @ \ {q}, !.close = @])
      BY <1>1 DEF Supersede
    <2>2. [v EXCEPT !.todo = @ \ {q}, !.close = @] = [v EXCEPT !.todo = @ \ {q}]
      BY <1>1 DEF Works
    <2>. QED
      BY <2>1, <2>2
  <1>4. new \in 0..MaxMems
    BY <1>2, ConFacts
  <1>5. /\ w \in Works /\ w.in /\ w.todo = v.todo \ {q} /\ w.begun = v.begun
        /\ w.store = v.store /\ w.promote = v.promote
        /\ w.close = v.close \/ w.close = v.close \cup {<<old, new>>}
    <2>1. <<old, new>> \in Mems \X (0..MaxMems)
      BY <1>2, <1>4
    <2>2. PICK h \in Mems \X (0..MaxMems) : h = <<old, new>>
      BY <2>1
    <2>3. \/ w = [v EXCEPT !.todo = @ \ {q}, !.close = @ \cup {h}]
          \/ w = [v EXCEPT !.todo = @ \ {q}]
      BY <1>3, <2>2
    <2>4. \/ w = [v EXCEPT !.todo = v.todo \ {q}, !.close = v.close \cup {h}]
          \/ w = [v EXCEPT !.todo = v.todo \ {q}]
      BY <1>1, <2>3 DEF Works
    <2>5. v.todo \ {q} \in SUBSET Seq(Nat) /\ v.close \cup {h} \in SUBSET (Mems \X (0..MaxMems))
      BY <1>1, <2>2 DEF Works
    <2>. QED
      BY <1>1, <2>2, <2>4, <2>5 DEF Works
  <1>6. HeirOK(old, new)
    BY <1>2 DEF HeirOK
  <1>7. WorkIs(p, w)
    BY <1>1, <1>2, <1>5, <1>6 DEF WorkIs
  <1>8. HandOf(p, w) \subseteq HandOf(p, v)
    BY <1>1, <1>5 DEF HandOf, Tagged
  <1>. QED
    BY <1>1, <1>3, <1>5, <1>7, <1>8, DoesKeeps

LEMMA DedupKeeps ==
    ASSUME ConsolidationAssumption, ConInv, NEW c \in Calls, Dedup(c)
    PROVE  ConInv'
  <1>1. Doing(c, "dedup")
    BY DEF Dedup
  <1>2. PICK q \in call[c].work.todo :
          \/ mem[q[1]].made <= mem[q[2]].made /\ Supersede(c, q, q[1], q[2])
          \/ mem[q[2]].made <= mem[q[1]].made /\ Supersede(c, q, q[2], q[1])
    BY DEF Dedup
  <1>. QED
    BY <1>1, <1>2, SupersedeKeeps

LEMMA ConflictResolveKeeps ==
    ASSUME ConsolidationAssumption, ConInv, NEW c \in Calls, ConflictResolve(c)
    PROVE  ConInv'
  <1>1. Doing(c, "conflict_resolve")
    BY DEF ConflictResolve
  <1>2. PICK q \in call[c].work.todo :
          \/ mem[q[1]].made <= mem[q[2]].made /\ Supersede(c, q, q[1], q[2])
          \/ ~(mem[q[1]].made <= mem[q[2]].made) /\ Supersede(c, q, q[2], q[1])
    BY DEF ConflictResolve
  <1>3. q[1] \in Mems /\ q[2] \in Mems
    BY <1>1, <1>2, WorkOf DEF WorkIs
  <1>4. mem[q[1]].made \in Nat /\ mem[q[2]].made \in Nat
    BY <1>3 DEF ConInv, ConRowsOK, MemRow
  <1>5. mem[q[1]].made <= mem[q[2]].made \/ mem[q[2]].made <= mem[q[1]].made
    BY <1>4
  <1>6. ~(mem[q[1]].made <= mem[q[2]].made) => mem[q[2]].made <= mem[q[1]].made
    BY <1>4
  <1>. QED
    BY <1>1, <1>2, <1>6, SupersedeKeeps

LEMMA MergePromoteKeeps ==
    ASSUME ConsolidationAssumption, ConInv, NEW c \in Calls, MergePromote(c)
    PROVE  ConInv'
  <1>1. PICK p, v : /\ p = Pass(c) /\ p = "merge_promote" /\ v = call[c].work
                    /\ v \in Works /\ v.in /\ WorkIs(p, v)
    BY WorkOf DEF MergePromote
  <1>2. Least(FreshEpisodes) \in Episodes
    <2>1. FreshEpisodes \subseteq Episodes
      BY DEF FreshEpisodes
    <2>. QED
      BY <2>1, ConFacts, LeastIs DEF MergePromote
  <1>3. PICK n \in Episodes : n = Least(FreshEpisodes)
    BY <1>2
  <1>4. PICK q \in v.todo : Does(c, [v EXCEPT !.todo = @ \ {q}, !.promote = @ \cup {<<q[1], n>>}])
    BY <1>1, <1>3 DEF MergePromote
  <1>5. PICK w : w = [v EXCEPT !.todo = @ \ {q}, !.promote = @ \cup {<<q[1], n>>}]
    OBVIOUS
  <1>6. q[1] \in Mems
    BY <1>1, <1>4 DEF WorkIs
  <1>7. /\ w \in Works /\ w.in /\ w.todo = v.todo \ {q} /\ w.begun = v.begun
        /\ w.store = v.store /\ w.close = v.close /\ w.promote = v.promote \cup {<<q[1], n>>}
    <2>1. PICK h \in Mems \X Episodes : h = <<q[1], n>>
      BY <1>3, <1>6
    <2>2. v.todo \ {q} \in SUBSET Seq(Nat) /\ v.promote \cup {h} \in SUBSET (Mems \X Episodes)
      BY <1>1, <2>1 DEF Works
    <2>3. w = [v EXCEPT !.todo = v.todo \ {q}, !.promote = v.promote \cup {h}]
      BY <1>1, <1>5, <2>1 DEF Works
    <2>. QED
      BY <1>1, <2>1, <2>2, <2>3 DEF Works
  <1>8. WorkIs(p, w)
    BY <1>1, <1>7 DEF WorkIs
  <1>9. HandOf(p, w) \subseteq HandOf(p, v)
    BY <1>1, <1>4, <1>7 DEF HandOf, Tagged
  <1>. QED
    BY <1>1, <1>4, <1>5, <1>7, <1>8, <1>9, DoesKeeps

LEMMA DefersKeeps ==
    ASSUME ConsolidationAssumption, ConInv, NEW c \in Calls, Defers(c)
    PROVE  ConInv'
  <1>1. PICK p, v : /\ p = Pass(c) /\ p = "summarize" /\ v = call[c].work
                    /\ v \in Works /\ v.in /\ WorkIs(p, v)
    BY WorkOf DEF Defers
  <1>2. PICK S \in SUBSET v.todo : Does(c, [v EXCEPT !.todo = S])
    BY <1>1 DEF Defers
  <1>3. PICK w : w = [v EXCEPT !.todo = S]
    OBVIOUS
  <1>4. /\ w \in Works /\ w.in /\ w.todo = S /\ w.begun = v.begun
        /\ w.store = v.store /\ w.close = v.close /\ w.promote = v.promote
    BY <1>1, <1>2, <1>3 DEF Works
  <1>5. WorkIs(p, w)
    BY <1>1, <1>4 DEF WorkIs
  <1>6. HandOf(p, w) \subseteq HandOf(p, v)
    BY <1>1, <1>4 DEF HandOf, Tagged
  <1>. QED
    BY <1>1, <1>2, <1>3, <1>4, <1>5, <1>6, DoesKeeps

LEMMA DistilsKeeps ==
    ASSUME ConsolidationAssumption, ConInv, NEW c \in Calls, Distils(c)
    PROVE  ConInv'
  <1>1. PICK p, v : /\ p = Pass(c) /\ p = "summarize" /\ v = call[c].work
                    /\ v \in Works /\ v.in /\ WorkIs(p, v)
    BY WorkOf DEF Distils
  <1>2. Least(FreshMems) \in FreshMems
    <2>1. FreshMems \subseteq Nat
      BY ConFacts DEF FreshMems
    <2>. QED
      BY <2>1, LeastIs DEF Distils
  <1>3. PICK n \in FreshMems : n = Least(FreshMems)
    BY <1>2
  <1>4. PICK q \in v.todo, k \in Keys \cup {"none"} :
          Does(c, [v EXCEPT !.todo = @ \ {q}, !.store = @ \cup {[id |-> n, key |-> k, epi |-> q[1]]}])
    BY <1>1, <1>3 DEF Distils
  <1>5. PICK w : w = [v EXCEPT !.todo = @ \ {q}, !.store = @ \cup {[id |-> n, key |-> k, epi |-> q[1]]}]
    OBVIOUS
  <1>6. q[1] \in Episodes
    BY <1>1, <1>4 DEF WorkIs
  <1>7. n \in Mems /\ mem[n].state = "none" /\ \A s \in v.store : s.id # n
    <2>1. n \in Mems /\ mem[n].state = "none" /\ \A d \in Calls : n \notin {s.id : s \in call[d].work.store}
      BY <1>3 DEF FreshMems
    <2>2. n \notin {s.id : s \in v.store}
      BY <1>1, <2>1
    <2>. QED
      BY <2>1, <2>2
  <1>8. PICK new \in NewMems : new = [id |-> n, key |-> k, epi |-> q[1]]
    BY <1>4, <1>6, <1>7 DEF NewMems
  <1>9. /\ w \in Works /\ w.in /\ w.todo = v.todo \ {q} /\ w.begun = v.begun
        /\ w.store = v.store \cup {new} /\ w.close = v.close /\ w.promote = v.promote
    BY <1>1, <1>5, <1>8 DEF Works
  <1>10. new.id = n /\ new.epi = q[1]
    BY <1>8
  <1>11. WorkIs(p, w)
    BY <1>1, <1>7, <1>9, <1>10 DEF WorkIs
  <1>12. HandOf(p, w) \subseteq HandOf(p, v)
    BY <1>1, <1>4, <1>9, <1>10 DEF HandOf, Tagged
  <1>13. \A s \in w.store \ v.store : s.id \in FreshMems
    BY <1>3, <1>9, <1>10
  <1>. QED
    BY <1>1, <1>4, <1>5, <1>9, <1>11, <1>12, <1>13, DoesKeeps

LEMMA DecayKeeps ==
    ASSUME ConsolidationAssumption, ConInv, NEW c \in Calls, Decay(c)
    PROVE  ConInv'
  <1>1. PICK p, v : /\ p = Pass(c) /\ p = "decay" /\ v = call[c].work
                    /\ v \in Works /\ v.in /\ WorkIs(p, v)
    BY WorkOf DEF Decay
  <1>2. PICK m \in Mems : /\ IsOpen(m)
                          /\ Does(c, [v EXCEPT !.close = @ \cup {<<m, 0>>}])
    BY <1>1 DEF Decay
  <1>3. PICK w : w = [v EXCEPT !.close = @ \cup {<<m, 0>>}]
    OBVIOUS
  <1>4. /\ w \in Works /\ w.in /\ w.todo = v.todo /\ w.begun = v.begun
        /\ w.store = v.store /\ w.close = v.close \cup {<<m, 0>>} /\ w.promote = v.promote
    BY <1>1, <1>3, ConFacts DEF Works
  <1>5. Told(m)
    BY <1>2 DEF IsOpen, Told
  <1>6. WorkIs(p, w)
    BY <1>1, <1>4, <1>5 DEF WorkIs
  <1>7. HandOf(p, w) \subseteq HandOf(p, v)
    BY <1>1, <1>4 DEF HandOf, Tagged
  <1>. QED
    BY <1>1, <1>2, <1>3, <1>4, <1>6, <1>7, DoesKeeps

\* A call that lets its work go has nothing in hand.
LEMMA NoWorkIs ==
    ASSUME ConsolidationAssumption, ConInv, NEW p
    PROVE  WorkIs(p, NoWork)
  BY ConFacts DEF WorkIs, ConInv, ConRowsOK

LEMMA DropKeeps ==
    ASSUME ConsolidationAssumption, ConInv, NEW c \in Calls, NEW plan \in Seq(Passes),
           call' = [call EXCEPT ![c] = [plan |-> plan, work |-> NoWork]],
           UNCHANGED <<mem, episodes, runs, now, others, copies, doubled>>
    PROVE  ConInv'
  <1>1. call \in [Calls -> [plan : Seq(Passes), work : Works]]
    BY DEF ConInv, ConRowsOK
  <1>2. /\ call'[c].work = NoWork /\ call'[c].plan = plan
        /\ \A d \in Calls \ {c} : call'[d] = call[d]
        /\ call' \in [Calls -> [plan : Seq(Passes), work : Works]]
    BY <1>1, ConFacts
  <1>3. ConRowsOK'
    BY <1>2 DEF ConInv, ConRowsOK
  <1>4. LinesUp'
    BY DEF ConInv, LinesUp, HeirOK, Told
  <1>5. WorkOK(c)'
    <2>1. PICK p : p = Pass(c)'
      OBVIOUS
    <2>2. WorkIs(p, NoWork)
      BY NoWorkIs
    <2>3. WorkIs(p, NoWork)'
      BY <2>2 DEF WorkIs, Told, HeirOK
    <2>. QED
      BY <1>2, <2>1, <2>3, ConFacts DEF WorkOK
  <1>6. ASSUME NEW d \in Calls \ {c} PROVE WorkOK(d)'
    <2>1. WorkOK(d) /\ call'[d] = call[d]
      BY <1>2 DEF ConInv
    <2>. QED
      BY <2>1 DEF WorkOK, WorkIs, Told, HeirOK, Pass
  <1>7. StoresApart'
    BY <1>2, ConFacts DEF ConInv, StoresApart
  <1>8. HandsAre'
    <2>1. InHand(c)' = {}
      BY <1>2, ConFacts DEF InHand
    <2>2. \A d \in Calls \ {c} : InHand(d)' = InHand(d)
      BY <1>2 DEF InHand
    <2>3. \A d \in Calls : InHand(d)' \subseteq InHand(d)
      BY <2>1, <2>2
    <2>. QED
      BY <2>3, SpentStays, HandsKeep DEF ConInv
  <1>. QED
    BY <1>3, <1>4, <1>5, <1>6, <1>7, <1>8 DEF ConInv

LEMMA TailIs ==
    ASSUME NEW s \in Seq(Passes), s # <<>>
    PROVE  Tail(s) \in Seq(Passes)
  OBVIOUS

LEMMA LosesPassKeeps ==
    ASSUME ConsolidationAssumption, ConInv, NEW c \in Calls, LosesPass(c)
    PROVE  ConInv'
  <1>1. call[c].work.in
    BY DEF LosesPass, Doing
  <1>2. call[c].plan \in Seq(Passes) /\ call[c].plan # <<>>
    BY <1>1 DEF ConInv, ConRowsOK, WorkOK
  <1>3. PICK plan \in Seq(Passes) : plan = Tail(call[c].plan)
    BY <1>2, TailIs
  <1>4. call' = [call EXCEPT ![c] = [plan |-> plan, work |-> NoWork]]
    BY <1>3 DEF LosesPass
  <1>5. UNCHANGED <<mem, episodes, runs, now, others, copies, doubled>>
    BY DEF LosesPass
  <1>. QED
    BY <1>4, <1>5, DropKeeps

LEMMA CallCrashesKeeps ==
    ASSUME ConsolidationAssumption, ConInv, NEW c \in Calls, CallCrashes(c)
    PROVE  ConInv'
  <1>1. <<>> \in Seq(Passes)
    OBVIOUS
  <1>2. call' = [call EXCEPT ![c] = [plan |-> <<>>, work |-> NoWork]]
    BY ConFacts DEF CallCrashes
  <1>3. UNCHANGED <<mem, episodes, runs, now, others, copies, doubled>>
    BY DEF CallCrashes
  <1>. QED
    BY <1>1, <1>2, <1>3, DropKeeps

\* Steps that write memories and leave all work as it is.
LEMMA MemWriteKeeps ==
    ASSUME ConsolidationAssumption, ConInv, MemGrows, LinesUp', call' \in [Calls -> [plan : Seq(Passes), work : Works]],
           \A c \in Calls : WorkOK(c)',
           \A c \in Calls : call'[c].work = call[c].work /\ InHand(c)' = InHand(c),
           \A m \in Mems : mem'[m].epi = mem[m].epi /\ mem'[m].tier = mem[m].tier,
           runs' \in Nat, UNCHANGED <<episodes, now, copies, doubled>>
    PROVE  ConInv'
  <1>1. ConRowsOK'
    <2>1. mem' \in [Mems -> MemRow] /\ now' \in Nat
      BY DEF MemGrows
    <2>2. \A m \in Mems : mem'[m].made <= now'
      BY DEF MemGrows
    <2>3. episodes' \subseteq Episodes /\ copies' \in [Tags -> Nat]
      BY DEF ConInv, ConRowsOK
    <2>. QED
      BY <2>1, <2>2, <2>3 DEF ConRowsOK
  <1>2. \A c \in Calls : WorkOK(c)'
    BY DEF ConInv
  <1>3. StoresApart'
    BY DEF ConInv, StoresApart
  <1>4. HandsAre'
    <2>1. \A x \in Tags : Spent(x) => Spent(x)'
      <3>1. \A x \in Tags : x[1] = "episode" \/ x[2] \in Mems
        BY DEF Tags
      <3>. QED
        BY <3>1 DEF Spent
    <2>. QED
      BY <2>1, HandsKeep DEF ConInv
  <1>. QED
    BY <1>1, <1>2, <1>3, <1>4 DEF ConInv

LEMMA UserClosesKeeps ==
    ASSUME ConsolidationAssumption, ConInv, NEW m \in Mems, UserCloses(m)
    PROVE  ConInv'
  <1>1. /\ mem[m].state = "open" /\ mem' = [mem EXCEPT ![m].state = "closed"]
        /\ others' = others \cup {m}
        /\ episodes' = episodes /\ call' = call /\ runs' = runs /\ now' = now
        /\ copies' = copies /\ doubled' = doubled
    BY DEF UserCloses, IsOpen
  <1>2. mem \in [Mems -> MemRow] /\ now \in Nat /\ \A n \in Mems : mem[n].made <= now
    BY DEF ConInv, ConRowsOK
  <1>3. /\ mem' \in [Mems -> MemRow] /\ mem'[m].state = "closed"
        /\ \A n \in Mems \ {m} : mem'[n] = mem[n]
        /\ \A n \in Mems : /\ mem'[n].epi = mem[n].epi /\ mem'[n].tier = mem[n].tier
                            /\ mem'[n].made = mem[n].made /\ mem'[n].by = mem[n].by
    BY <1>1, <1>2 DEF MemRow
  <1>4. \A n \in Mems : /\ Told(n)' <=> Told(n)
                        /\ mem'[n].state = "none" <=> mem[n].state = "none"
    BY <1>1, <1>3 DEF Told
  <1>5. MemGrows
    BY <1>1, <1>2, <1>3, <1>4 DEF MemGrows
  <1>6. LinesUp'
    BY <1>1, <1>3, <1>4 DEF ConInv, LinesUp, HeirOK
  <1>7. ASSUME NEW c \in Calls PROVE WorkOK(c)'
    <2>1. PICK p, w : p = Pass(c) /\ w = call[c].work
      OBVIOUS
    <2>2. w \in Works /\ WorkIs(p, w) /\ (w.in => call[c].plan # <<>>)
      BY <2>1 DEF ConInv, WorkOK, ConRowsOK
    <2>3. \A s \in w.store : mem'[s.id].state = "none"
      BY <2>2, <1>4 DEF WorkIs, Works, NewMems
    <2>4. WorkIs(p, w)'
      BY <2>2, <2>3, <1>5, WorkStands DEF ConInv
    <2>. QED
      BY <2>1, <2>2, <2>4, <1>1 DEF WorkOK, Pass
  <1>8. \A c \in Calls : InHand(c)' = InHand(c)
    BY <1>1 DEF InHand
  <1>. QED
    BY <1>1, <1>3, <1>5, <1>6, <1>7, <1>8, MemWriteKeeps DEF ConInv, ConRowsOK

LEMMA StartCallKeeps ==
    ASSUME ConsolidationAssumption, ConInv, NEW c \in Calls, StartCall(c)
    PROVE  ConInv'
  <1>1. /\ call[c].plan = <<>> /\ runs' = runs + 1
        /\ episodes' = episodes /\ now' = now /\ others' = others
        /\ copies' = copies /\ doubled' = doubled
    BY DEF StartCall
  <1>2. Fast \in Seq(Passes) /\ Deep \in Seq(Passes)
    BY DEF Fast, Deep, Passes
  <1>3. PICK plan \in Seq(Passes) : call' = [call EXCEPT ![c].plan = plan]
    BY <1>2 DEF StartCall
  <1>4. call \in [Calls -> [plan : Seq(Passes), work : Works]] /\ runs \in Nat
    BY DEF ConInv, ConRowsOK
  <1>5. /\ call' \in [Calls -> [plan : Seq(Passes), work : Works]] /\ call'[c].plan = plan
        /\ call'[c].work = call[c].work /\ \A d \in Calls \ {c} : call'[d] = call[d]
    BY <1>3, <1>4
  <1>6. ~call[c].work.in /\ call[c].work = NoWork
    BY <1>1 DEF ConInv, WorkOK, WorkIs
  <1>7. mem \in [Mems -> MemRow] /\ now \in Nat /\ \A n \in Mems : mem[n].made <= now
    BY DEF ConInv, ConRowsOK
  <1>8. /\ mem' \in [Mems -> MemRow]
        /\ \A n \in Mems : /\ mem'[n].epi = mem[n].epi /\ mem'[n].tier = mem[n].tier
                            /\ mem'[n].made = mem[n].made /\ mem'[n].by = mem[n].by
                            /\ mem'[n].state = mem[n].state
    <2>1. CASE mem' = mem
      BY <2>1, <1>7
    <2>2. CASE mem' = [m \in Mems |-> [mem[m] EXCEPT !.vec = IsOpen(m)]]
      <3>1. \A n \in Mems : IsOpen(n) \in BOOLEAN
        BY DEF IsOpen
      <3>. QED
        BY <2>2, <3>1, <1>7 DEF MemRow
    <2>. QED
      BY <2>1, <2>2 DEF StartCall
  <1>9. MemGrows
    BY <1>1, <1>7, <1>8 DEF MemGrows, Told
  <1>10. LinesUp'
    BY <1>1, <1>8 DEF ConInv, LinesUp, HeirOK, Told
  <1>11. ASSUME NEW d \in Calls PROVE WorkOK(d)'
    <2>1. PICK p, w : p = Pass(d)' /\ w = call[d].work
      OBVIOUS
    <2>2. w \in Works /\ WorkIs(p, w) /\ (w.in => call'[d].plan # <<>>) /\ call'[d].work = w
      <3>1. CASE d = c
        BY <3>1, <2>1, <1>5, <1>6, NoWorkIs, ConFacts
      <3>2. CASE d # c
        BY <3>2, <2>1, <1>4, <1>5 DEF ConInv, WorkOK, Pass
      <3>. QED
        BY <3>1, <3>2
    <2>3. \A s \in w.store : mem'[s.id].state = "none"
      BY <2>2, <1>8 DEF WorkIs, Works, NewMems
    <2>4. WorkIs(p, w)'
      BY <2>2, <2>3, <1>9, WorkStands DEF ConInv
    <2>. QED
      BY <2>1, <2>2, <2>4 DEF WorkOK
  <1>12. \A d \in Calls : call'[d].work = call[d].work /\ InHand(d)' = InHand(d)
    BY <1>5, <1>6 DEF InHand
  <1>13. runs' \in Nat
    BY <1>1, <1>4
  <1>. QED
    BY <1>1, <1>5, <1>8, <1>9, <1>10, <1>11, <1>12, <1>13, MemWriteKeeps

\* What a pass finds when it begins.
LEMMA PairIn ==
    ASSUME ConsolidationAssumption, NEW q \in Mems \X Mems
    PROVE  q \in Seq(Nat)
  <1>1. PICK a \in Mems, b \in Mems : q = <<a, b>>
    OBVIOUS
  <1>2. a \in Nat /\ b \in Nat
    BY ConFacts
  <1>. QED
    BY <1>1, <1>2

LEMMA OneIn ==
    ASSUME ConsolidationAssumption, NEW t, t = <<t[1]>>, t[1] \in Mems \cup Episodes
    PROVE  t \in Seq(Nat)
  <1>1. PICK a \in Nat : a = t[1]
    BY ConFacts
  <1>2. t = <<a>>
    BY <1>1
  <1>3. <<a>> \in Seq(Nat)
    OBVIOUS
  <1>. QED
    BY <1>2, <1>3

LEMMA CandidatesAre ==
    ASSUME ConsolidationAssumption, ConRowsOK, NEW p, NEW todo, todo = Candidates(p)
    PROVE  /\ todo \in SUBSET (Seq(Nat))
           /\ p \in {"dedup", "conflict_resolve"} => \A q \in todo :
                 q \in Mems \X Mems /\ Told(q[1]) /\ Told(q[2]) /\ q[1] # q[2]
           /\ p = "merge_promote" => \A t \in todo : /\ t = <<t[1]>> /\ t[1] \in Mems
                                                    /\ mem[t[1]].tier = "working"
           /\ p = "summarize" => \A t \in todo : /\ t = <<t[1]>> /\ t[1] \in Episodes
                                                /\ \A m \in Mems : mem[m].epi # t[1]
  <1>1. CASE p \in {"dedup", "conflict_resolve"}
    <2>1. todo \subseteq Pairs({m \in Mems : IsOpen(m)})
      <3>1. CASE p = "dedup"
        BY <3>1 DEF Candidates, Pairs
      <3>2. CASE p = "conflict_resolve"
        BY <3>2 DEF Candidates, Pairs
      <3>. QED
        BY <1>1, <3>1, <3>2
    <2>2. \A q \in todo : q \in Mems \X Mems /\ IsOpen(q[1]) /\ IsOpen(q[2]) /\ q[1] < q[2]
      BY <2>1 DEF Pairs
    <2>3. \A q \in todo : q[1] # q[2]
      <3>1. \A q \in todo : q[1] \in Nat /\ q[2] \in Nat /\ q[1] < q[2]
        BY <2>2, ConFacts
      <3>. QED
        BY <3>1
    <2>. QED
      BY <1>1, <2>2, <2>3, PairIn DEF IsOpen, Told
  <1>2. CASE p = "merge_promote"
    <2>1. todo = {<<m>> : m \in {n \in Mems : IsOpen(n) /\ mem[n].tier = "working"}}
      BY <1>2 DEF Candidates
    <2>2. \A t \in todo : t = <<t[1]>> /\ t[1] \in Mems /\ mem[t[1]].tier = "working"
      BY <2>1
    <2>3. \A t \in todo : t \in Seq(Nat)
      BY <2>2, OneIn
    <2>. QED
      BY <1>2, <2>2, <2>3
  <1>3. CASE p = "summarize"
    <2>1. todo = {<<e>> : e \in FirstOf(Underived, DistilLimit)}
      BY <1>3 DEF Candidates
    <2>2. FirstOf(Underived, DistilLimit) \subseteq Underived
      BY DEF FirstOf
    <2>3. \A t \in todo : t = <<t[1]>> /\ t[1] \in Underived
      BY <2>1, <2>2
    <2>4. \A t \in todo : t = <<t[1]>> /\ t[1] \in Episodes /\ \A m \in Mems : mem[m].epi # t[1]
      BY <2>3 DEF Underived, ConRowsOK
    <2>5. \A t \in todo : t \in Seq(Nat)
      BY <2>4, OneIn
    <2>. QED
      BY <1>3, <2>4, <2>5
  <1>4. CASE p \notin {"dedup", "conflict_resolve", "merge_promote", "summarize"}
    BY <1>4 DEF Candidates
  <1>. QED
    BY <1>1, <1>2, <1>3, <1>4

LEMMA BeginPassKeeps ==
    ASSUME ConsolidationAssumption, ConInv, NEW c \in Calls, BeginPass(c)
    PROVE  ConInv'
  <1>1. PICK p, todo : p = Pass(c) /\ todo = Candidates(p)
    OBVIOUS
  <1>2. PICK w : w = [NoWork EXCEPT !.in = TRUE, !.todo = todo, !.begun = now]
    OBVIOUS
  <1>3. /\ call[c].plan # <<>> /\ ~call[c].work.in
        /\ call' = [call EXCEPT ![c].work = w]
        /\ doubled' = doubled \cup (Tagged(p, todo) \cap UNION {InHand(d) : d \in Calls \ {c}})
        /\ now' = now \/ now' = now + 1
        /\ mem' = mem /\ episodes' = episodes /\ runs' = runs /\ others' = others
        /\ copies' = copies
    BY <1>1, <1>2 DEF BeginPass, Pass
  <1>4. ConRowsOK /\ LinesUp /\ StoresApart /\ HandsAre /\ \A d \in Calls : WorkOK(d)
    BY DEF ConInv
  <1>5. /\ todo \in SUBSET (Seq(Nat))
        /\ p \in {"dedup", "conflict_resolve"} => \A q \in todo :
              q \in Mems \X Mems /\ Told(q[1]) /\ Told(q[2]) /\ q[1] # q[2]
        /\ p = "merge_promote" => \A t \in todo : /\ t = <<t[1]>> /\ t[1] \in Mems
                                                 /\ mem[t[1]].tier = "working"
        /\ p = "summarize" => \A t \in todo : /\ t = <<t[1]>> /\ t[1] \in Episodes
                                             /\ \A m \in Mems : mem[m].epi # t[1]
    BY <1>1, <1>4, CandidatesAre
  <1>6. now \in Nat /\ now' \in Nat /\ now <= now'
    BY <1>3, <1>4 DEF ConRowsOK
  <1>7. /\ w \in Works /\ w.in /\ w.todo = todo /\ w.begun = now /\ w.close = {}
        /\ w.store = {} /\ w.promote = {}
    BY <1>2, <1>5, <1>6, ConFacts DEF Works, NoWork
  <1>8. call \in [Calls -> [plan : Seq(Passes), work : Works]]
    BY <1>4 DEF ConRowsOK
  <1>9. /\ call'[c].work = w /\ call'[c].plan = call[c].plan
        /\ \A d \in Calls \ {c} : call'[d] = call[d]
        /\ call' \in [Calls -> [plan : Seq(Passes), work : Works]]
    BY <1>3, <1>7, <1>8
  <1>10. mem \in [Mems -> MemRow] /\ \A m \in Mems : mem[m].made <= now' /\ mem[m].made \in Nat
    <2>1. mem \in [Mems -> MemRow] /\ \A m \in Mems : mem[m].made <= now
      BY <1>4 DEF ConRowsOK
    <2>2. \A m \in Mems : mem[m].made \in Nat
      BY <2>1 DEF MemRow
    <2>. QED
      BY <2>1, <2>2, <1>6
  <1>11. MemGrows
    BY <1>3, <1>6, <1>10 DEF MemGrows, Told
  <1>12. ConRowsOK'
    BY <1>3, <1>4, <1>6, <1>9, <1>10 DEF ConRowsOK
  <1>13. LinesUp'
    BY <1>3, <1>4 DEF LinesUp, HeirOK, Told
  <1>14. WorkOK(c)'
    <2>1. Pass(c)' = p
      BY <1>1, <1>9 DEF Pass
    <2>2. WorkIs(p, w)
      BY <1>5, <1>6, <1>7 DEF WorkIs
    <2>3. WorkIs(p, w)'
      BY <2>2, <1>4, <1>7, <1>11, WorkStands
    <2>. QED
      BY <2>1, <2>3, <1>3, <1>9 DEF WorkOK
  <1>15. ASSUME NEW d \in Calls \ {c} PROVE WorkOK(d)'
    <2>1. PICK r, v : r = Pass(d) /\ v = call[d].work
      OBVIOUS
    <2>2. v \in Works /\ WorkIs(r, v) /\ (v.in => call[d].plan # <<>>)
      BY <2>1, <1>4, <1>8 DEF WorkOK
    <2>3. WorkIs(r, v)'
      BY <2>2, <1>3, <1>4, <1>11, WorkStands DEF WorkIs
    <2>. QED
      BY <2>1, <2>2, <2>3, <1>9 DEF WorkOK, Pass
  <1>16. StoresApart'
    BY <1>4, <1>7, <1>9 DEF StoresApart
  <1>17. InHand(c)' = Tagged(p, todo) /\ \A d \in Calls \ {c} : InHand(d)' = InHand(d)
    BY <1>1, <1>7, <1>9 DEF InHand, Pass
  <1>18. \A x \in Tags : x \in Tagged(p, todo) => ~Spent(x)
    BY <1>5 DEF Tagged, Spent, Tags
  <1>19. ASSUME NEW x \in Tags, x \notin doubled' PROVE OneHand(x)'
    <2>1. OneHand(x)
      BY <1>3, <1>4, <1>19 DEF HandsAre
    <2>2. x \in Tagged(p, todo) => copies[x] = 0 /\ \A d \in Calls \ {c} : x \notin InHand(d)
      BY <2>1, <1>3, <1>18, <1>19 DEF OneHand
    <2>3. copies'[x] <= 1 /\ (copies'[x] = 0 \/ Spent(x)')
      BY <2>1, <1>3 DEF OneHand, Spent
    <2>4. ASSUME NEW d \in Calls, x \in InHand(d)'
          PROVE  copies'[x] = 0 /\ \A e \in Calls \ {d} : x \notin InHand(e)'
      <3>1. CASE d = c
        BY <3>1, <2>2, <2>4, <1>3, <1>17
      <3>2. CASE d # c
        <4>1. x \in InHand(d)
          BY <3>2, <2>4, <1>17
        <4>2. copies[x] = 0 /\ \A e \in Calls \ {d} : x \notin InHand(e)
          BY <4>1, <2>1 DEF OneHand
        <4>3. x \notin InHand(c)'
          BY <4>1, <3>2, <2>2, <1>17
        <4>. QED
          BY <4>2, <4>3, <1>3, <1>17
      <3>. QED
        BY <3>1, <3>2
    <2>. QED
      BY <2>3, <2>4 DEF OneHand
  <1>20. HandsAre'
    BY <1>19 DEF HandsAre
  <1>. QED
    BY <1>12, <1>13, <1>14, <1>15, <1>16, <1>20 DEF ConInv

\* What a commit makes of each memory.
Becomes(m, row, w) ==
    \/ /\ mem[m].state = "none"
       /\ \E s \in w.store :
             /\ s.id = m
             /\ row = [state |-> IF s.key = "none" THEN "marker" ELSE "open", key |-> s.key,
                       tier |-> "semantic", made |-> w.begun, by |-> 0, epi |-> s.epi, vec |-> FALSE]
    \/ /\ \A s \in w.store : s.id # m
       /\ \E x \in w.close : x[1] = m /\ row = [mem[m] EXCEPT !.state = "closed", !.by = x[2]]
    \/ /\ \A s \in w.store : s.id # m
       /\ \A x \in w.close : x[1] # m
       /\ \/ /\ \E q \in w.promote : q[1] = m
             /\ row = [mem[m] EXCEPT !.tier = "semantic"]
          \/ /\ \A q \in w.promote : q[1] # m
             /\ row = mem[m]

LEMMA AfterCommit ==
    ASSUME ConsolidationAssumption, ConRowsOK, NEW c \in Calls, NEW p, NEW w \in Works,
           w = call[c].work, WorkIs(p, w), CommitPass(c), NEW m \in Mems
    PROVE  Becomes(m, mem'[m], w)
  <1>1. mem'[m] =
            IF \E s \in w.store : s.id = m
            THEN LET s == CHOOSE s \in w.store : s.id = m IN
                 [state |-> IF s.key = "none" THEN "marker" ELSE "open", key |-> s.key,
                  tier |-> "semantic", made |-> w.begun, by |-> 0, epi |-> s.epi, vec |-> FALSE]
            ELSE IF \E x \in w.close : x[1] = m
            THEN [mem[m] EXCEPT !.state = "closed", !.by = Heir(w, m)[2]]
            ELSE IF \E q \in w.promote : q[1] = m THEN [mem[m] EXCEPT !.tier = "semantic"]
            ELSE mem[m]
    BY DEF CommitPass
  <1>2. CASE \E s \in w.store : s.id = m
    <2>1. PICK s \in w.store : s = CHOOSE t \in w.store : t.id = m
      BY <1>2
    <2>2. s.id = m
      BY <1>2, <2>1
    <2>3. mem[m].state = "none"
      BY <2>2 DEF WorkIs
    <2>4. mem'[m] = [state |-> IF s.key = "none" THEN "marker" ELSE "open", key |-> s.key,
                     tier |-> "semantic", made |-> w.begun, by |-> 0, epi |-> s.epi, vec |-> FALSE]
      BY <1>1, <1>2, <2>1
    <2>. QED
      BY <2>2, <2>3, <2>4 DEF Becomes
  <1>3. CASE ~(\E s \in w.store : s.id = m) /\ \E x \in w.close : x[1] = m
    <2>1. PICK x \in w.close : x = Heir(w, m)
      BY <1>3 DEF Heir
    <2>2. x[1] = m
      BY <1>3, <2>1 DEF Heir
    <2>3. mem'[m] = [mem[m] EXCEPT !.state = "closed", !.by = x[2]]
      BY <1>1, <1>3, <2>1
    <2>. QED
      BY <1>3, <2>2, <2>3 DEF Becomes
  <1>4. CASE ~(\E s \in w.store : s.id = m) /\ ~(\E x \in w.close : x[1] = m)
    BY <1>1, <1>4 DEF Becomes
  <1>. QED
    BY <1>2, <1>3, <1>4

LEMMA CommitPassKeeps ==
    ASSUME ConsolidationAssumption, ConInv, NEW c \in Calls, CommitPass(c)
    PROVE  ConInv'
  <1>1. PICK p, w : p = Pass(c) /\ w = call[c].work
    OBVIOUS
  <1>2. ConRowsOK /\ LinesUp /\ StoresApart /\ HandsAre /\ \A d \in Calls : WorkOK(d)
    BY DEF ConInv
  <1>3. call \in [Calls -> [plan : Seq(Passes), work : Works]]
    BY <1>2 DEF ConRowsOK
  <1>4. w \in Works /\ w.in /\ WorkIs(p, w) /\ call[c].plan # <<>>
    BY <1>1, <1>2, <1>3 DEF WorkOK, CommitPass
  <1>5. /\ mem' = [m \in Mems |-> mem'[m]]
        /\ episodes' = episodes \cup {q[2] : q \in w.promote}
        /\ others' = others \cup {x[1] : x \in {y \in w.close : y[2] = 0}}
        /\ copies' = [x \in DOMAIN copies |->
                IF (x[1] = "episode" /\ \E s \in w.store : s.epi = x[2])
                    \/ (x[1] = "memory" /\ \E q \in w.promote : q[1] = x[2])
                THEN copies[x] + 1 ELSE copies[x]]
        /\ runs' = runs /\ now' = now /\ doubled' = doubled
    BY <1>1 DEF CommitPass
  <1>6. PICK plan \in Seq(Passes) : call' = [call EXCEPT ![c] = [plan |-> plan, work |-> NoWork]]
    <2>1. call[c].plan \in Seq(Passes)
      BY <1>3
    <2>2. call' = [call EXCEPT ![c] = [plan |-> Tail(call[c].plan), work |-> NoWork]]
      BY <1>3 DEF CommitPass
    <2>. QED
      BY <2>1, <2>2, <1>4, TailIs
  <1>7. /\ call'[c].work = NoWork /\ call'[c].plan = plan
        /\ \A d \in Calls \ {c} : call'[d] = call[d]
        /\ call' \in [Calls -> [plan : Seq(Passes), work : Works]]
    BY <1>3, <1>6, ConFacts
  <1>8. mem \in [Mems -> MemRow] /\ now \in Nat /\ \A m \in Mems : mem[m].made <= now
    BY <1>2 DEF ConRowsOK
  <1>9. w.begun \in Nat /\ w.begun <= now
    BY <1>4 DEF WorkIs, Works
  <1>10. ASSUME NEW m \in Mems
         PROVE  /\ mem'[m] \in MemRow /\ mem'[m].made <= now
                /\ Told(m) => Told(m)' /\ mem'[m].made = mem[m].made
                /\ (\A s \in w.store : s.id # m) /\ mem[m].state = "none" => mem'[m].state = "none"
                /\ mem'[m].state = "none" => mem'[m].epi = 0
                /\ mem[m].epi # 0 => mem'[m].epi = mem[m].epi
                /\ mem[m].tier = "semantic" => mem'[m].tier = "semantic"
                /\ \A s \in w.store : s.id = m => mem'[m].epi = s.epi
                /\ (\E q \in w.promote : q[1] = m) => mem'[m].tier = "semantic"
                /\ Told(m)' => \/ mem'[m].by = 0
                               \/ Told(m) /\ mem'[m].by = mem[m].by
                               \/ \E x \in w.close : x[1] = m /\ x[2] = mem'[m].by
                /\ mem'[m].state = "closed" =>
                      \/ mem[m].state = "closed" /\ mem'[m].by = mem[m].by
                      \/ \E x \in w.close : x[1] = m /\ x[2] = mem'[m].by
    <2>1. mem[m] \in MemRow /\ mem[m].made <= now
      BY <1>8
    <2>2. mem[m].state = "none" => mem[m].epi = 0
      BY <1>2 DEF LinesUp
    <2>3. \A s \in w.store : s \in NewMems
      BY <1>4 DEF Works
    <2>4. \A x \in w.close : x[1] \in Mems /\ x[2] \in 0..MaxMems /\ Told(x[1])
      BY <1>4 DEF Works, WorkIs
    <2>5. \A s, t \in w.store : s.id = t.id => s = t
      BY <1>4 DEF WorkIs
    <2>6. w.close # {} => w.promote = {}
      BY <1>4 DEF WorkIs
    <2>7. w.store # {} => w.promote = {}
      BY <1>4 DEF WorkIs
    <2>8. Episodes \subseteq 0..MaxEpisodes /\ 0 \in 0..MaxMems /\ Episodes \subseteq Nat \ {0}
      BY ConFacts
    <2>9. Becomes(m, mem'[m], w)
      BY <1>1, <1>2, <1>4, AfterCommit
    <2>10. CASE /\ mem[m].state = "none"
                /\ \E s \in w.store :
                      /\ s.id = m
                      /\ mem'[m] = [state |-> IF s.key = "none" THEN "marker" ELSE "open", key |-> s.key,
                                    tier |-> "semantic", made |-> w.begun, by |-> 0, epi |-> s.epi,
                                    vec |-> FALSE]
      <3>1. PICK s \in w.store :
                      /\ s.id = m
                      /\ mem'[m] = [state |-> IF s.key = "none" THEN "marker" ELSE "open", key |-> s.key,
                                    tier |-> "semantic", made |-> w.begun, by |-> 0, epi |-> s.epi,
                                    vec |-> FALSE]
        BY <2>10
      <3>2. s.key \in Keys \cup {"none"} /\ s.epi \in Episodes
        BY <2>3 DEF NewMems
      <3>3. mem'[m].state \in {"open", "marker"} /\ mem'[m].tier = "semantic" /\ mem'[m].made = w.begun
            /\ mem'[m].by = 0 /\ mem'[m].epi = s.epi
        BY <3>1
      <3>4. mem'[m] \in MemRow
        <4>1. PICK st \in {"open", "marker"} : st = IF s.key = "none" THEN "marker" ELSE "open"
          OBVIOUS
        <4>2. mem'[m] = [state |-> st, key |-> s.key, tier |-> "semantic", made |-> w.begun,
                         by |-> 0, epi |-> s.epi, vec |-> FALSE]
          BY <3>1, <4>1
        <4>3. s.epi \in 0..MaxEpisodes /\ 0 \in 0..MaxMems /\ w.begun \in Nat
          BY <3>2, <2>8, <1>9
        <4>. QED
          BY <4>2, <4>3, <3>2 DEF MemRow
      <3>. QED
        BY <2>2, <2>5, <2>10, <3>1, <3>3, <3>4, <1>9 DEF Told
    <2>11. CASE /\ \A s \in w.store : s.id # m
                /\ \E x \in w.close :
                      x[1] = m /\ mem'[m] = [mem[m] EXCEPT !.state = "closed", !.by = x[2]]
      <3>1. PICK x \in w.close : x[1] = m /\ mem'[m] = [mem[m] EXCEPT !.state = "closed", !.by = x[2]]
        BY <2>11
      <3>2. x[2] \in 0..MaxMems /\ Told(m) /\ w.promote = {}
        BY <3>1, <2>4, <2>6
      <3>3. /\ mem'[m] \in MemRow /\ mem'[m].state = "closed" /\ mem'[m].by = x[2]
            /\ mem'[m].made = mem[m].made /\ mem'[m].epi = mem[m].epi /\ mem'[m].tier = mem[m].tier
        BY <3>1, <3>2, <2>1 DEF MemRow
      <3>. QED
        BY <2>1, <2>11, <3>1, <3>2, <3>3 DEF Told
    <2>12. CASE /\ \A s \in w.store : s.id # m
                /\ \A x \in w.close : x[1] # m
                /\ mem'[m] = [mem[m] EXCEPT !.tier = "semantic"]
      <3>1. /\ mem'[m] \in MemRow /\ mem'[m].state = mem[m].state /\ mem'[m].by = mem[m].by
            /\ mem'[m].made = mem[m].made /\ mem'[m].epi = mem[m].epi /\ mem'[m].tier = "semantic"
        BY <2>12, <2>1 DEF MemRow
      <3>. QED
        BY <2>1, <2>2, <2>12, <3>1 DEF Told
    <2>13. CASE /\ \A s \in w.store : s.id # m
                /\ \A x \in w.close : x[1] # m
                /\ \A q \in w.promote : q[1] # m
                /\ mem'[m] = mem[m]
      BY <2>1, <2>2, <2>13 DEF Told
    <2>. QED
      BY <2>9, <2>10, <2>11, <2>12, <2>13 DEF Becomes
  <1>11. mem' \in [Mems -> MemRow] /\ \A m \in Mems : mem'[m].made <= now'
    BY <1>5, <1>10
  <1>12. MemGrows
    <2>1. \A m \in Mems : Told(m) => Told(m)' /\ mem'[m].made = mem[m].made
      BY <1>10
    <2>. QED
      BY <2>1, <1>5, <1>8, <1>11 DEF MemGrows
  <1>13. DOMAIN copies = Tags /\ \A x \in Tags : copies[x] \in Nat
    BY <1>2 DEF ConRowsOK
  <1>14. ConRowsOK'
    <2>1. episodes' \subseteq Episodes
      BY <1>2, <1>4, <1>5 DEF ConRowsOK, Works
    <2>2. copies' \in [Tags -> Nat]
      BY <1>5, <1>13
    <2>3. runs' \in Nat /\ now' \in Nat
      BY <1>2, <1>5 DEF ConRowsOK
    <2>. QED
      BY <2>1, <2>2, <2>3, <1>7, <1>11 DEF ConRowsOK
  <1>15. LinesUp'
    <2>1. ASSUME NEW m \in Mems, NEW n, HeirOK(m, n), Told(m)
          PROVE  HeirOK(m, n)'
      BY <2>1, <1>12 DEF HeirOK, MemGrows
    <2>2. \A x \in w.close : x[1] \in Mems /\ Told(x[1]) /\ (x[2] = 0 \/ HeirOK(x[1], x[2]))
      BY <1>4 DEF WorkIs, Works
    <2>3. ASSUME NEW m \in Mems, Told(m)'
          PROVE  mem'[m].by = 0 \/ \E n : n = mem'[m].by /\ HeirOK(m, n)'
      <3>1. PICK n : n = mem'[m].by
        OBVIOUS
      <3>2. CASE Told(m) /\ mem[m].by = n
        BY <3>1, <3>2, <2>1, <1>2 DEF LinesUp
      <3>3. CASE \E x \in w.close : x[1] = m /\ x[2] = n
        BY <3>1, <3>3, <2>1, <2>2
      <3>. QED
        BY <2>3, <3>1, <3>2, <3>3, <1>10
    <2>4. ASSUME NEW m \in Mems, mem'[m].state = "closed"
          PROVE  m \in others' \/ mem'[m].by # 0
      <3>1. CASE mem[m].state = "closed" /\ mem'[m].by = mem[m].by
        BY <3>1, <1>2, <1>5 DEF LinesUp
      <3>2. CASE \E x \in w.close : x[1] = m /\ x[2] = mem'[m].by
        BY <3>2, <1>5
      <3>. QED
        BY <2>4, <3>1, <3>2, <1>10
    <2>5. \A m \in Mems : mem'[m].state = "none" => mem'[m].epi = 0
      BY <1>10
    <2>6. \A m \in Mems : Told(m)' => mem'[m].by = 0 \/ HeirOK(m, mem[m].by)'
      BY <2>3 DEF HeirOK
    <2>. QED
      BY <2>4, <2>5, <2>6 DEF LinesUp
  <1>16. WorkOK(c)'
    <2>1. PICK r : r = Pass(c)'
      OBVIOUS
    <2>2. WorkIs(r, NoWork)'
      BY NoWorkIs, WorkStands, <1>2, <1>12, ConFacts
    <2>. QED
      BY <2>1, <2>2, <1>7, ConFacts DEF WorkOK
  <1>17. ASSUME NEW d \in Calls \ {c} PROVE WorkOK(d)'
    <2>1. PICK r, v : r = Pass(d) /\ v = call[d].work
      OBVIOUS
    <2>2. v \in Works /\ WorkIs(r, v) /\ (v.in => call[d].plan # <<>>)
      BY <2>1, <1>2, <1>3 DEF WorkOK
    <2>3. \A s \in v.store : s.id \in Mems /\ mem[s.id].state = "none"
      BY <2>2 DEF WorkIs, Works, NewMems
    <2>4. \A s \in v.store : \A t \in w.store : t.id # s.id
      BY <2>1, <1>1, <1>2 DEF StoresApart
    <2>5. \A s \in v.store : mem'[s.id].state = "none"
      BY <2>3, <2>4, <1>10
    <2>6. WorkIs(r, v)'
      BY <2>2, <2>5, <1>2, <1>12, WorkStands
    <2>. QED
      BY <2>1, <2>2, <2>6, <1>7 DEF WorkOK, Pass
  <1>18. StoresApart'
    BY <1>2, <1>7, ConFacts DEF StoresApart
  <1>19. InHand(c)' = {} /\ \A d \in Calls \ {c} : InHand(d)' = InHand(d)
    BY <1>7, ConFacts DEF InHand
  <1>20. InHand(c) = HandOf(p, w)
    BY <1>1, HandIs
  <1>21. ASSUME NEW x \in Tags PROVE Spent(x) => Spent(x)'
    <2>1. CASE x[1] = "episode"
      <3>1. x[2] # 0
        BY <2>1, ConFacts DEF Tags
      <3>2. \A m \in Mems : mem[m].epi = x[2] => mem'[m].epi = x[2]
        BY <3>1, <1>10
      <3>. QED
        BY <2>1, <3>2 DEF Spent
    <2>2. CASE x[1] # "episode"
      <3>1. x[2] \in Mems
        BY <2>2 DEF Tags
      <3>. QED
        BY <2>2, <3>1, <1>10 DEF Spent
    <2>. QED
      BY <2>1, <2>2
  <1>22. ASSUME NEW x \in Tags, x \notin doubled' PROVE OneHand(x)'
    <2>1. OneHand(x)
      BY <1>22, <1>2, <1>5 DEF HandsAre
    <2>2. CASE copies'[x] = copies[x]
      <3>1. copies'[x] <= 1 /\ (copies'[x] = 0 \/ Spent(x)')
        BY <2>1, <2>2, <1>21 DEF OneHand
      <3>2. ASSUME NEW d \in Calls, x \in InHand(d)'
            PROVE  copies'[x] = 0 /\ \A e \in Calls \ {d} : x \notin InHand(e)'
        BY <2>1, <2>2, <3>2, <1>19 DEF OneHand
      <3>. QED
        BY <3>1, <3>2 DEF OneHand
    <2>3. CASE copies'[x] # copies[x]
      <3>1. /\ \/ x[1] = "episode" /\ \E s \in w.store : s.epi = x[2]
               \/ x[1] = "memory" /\ \E q \in w.promote : q[1] = x[2]
            /\ copies'[x] = copies[x] + 1
        BY <2>3, <1>5, <1>13
      <3>2. x = <<x[1], x[2]>>
        BY DEF Tags
      <3>3. x \in HandOf(p, w)
        BY <3>1, <3>2, <1>4 DEF HandOf
      <3>4. copies[x] = 0 /\ \A d \in Calls \ {c} : x \notin InHand(d)
        BY <3>3, <2>1, <1>20 DEF OneHand
      <3>5. Spent(x)'
        <4>1. CASE x[1] = "episode"
          <5>1. PICK s \in w.store : s.epi = x[2]
            BY <4>1, <3>1
          <5>2. s.id \in Mems
            BY <1>4 DEF Works, NewMems
          <5>3. mem'[s.id].epi = x[2]
            BY <5>1, <5>2, <1>10
          <5>. QED
            BY <4>1, <5>2, <5>3 DEF Spent
        <4>2. CASE x[1] = "memory"
          <5>1. PICK q \in w.promote : q[1] = x[2]
            BY <4>2, <3>1
          <5>2. x[2] \in Mems
            BY <4>2 DEF Tags
          <5>3. mem'[x[2]].tier = "semantic"
            BY <5>1, <5>2, <1>10
          <5>. QED
            BY <4>2, <5>3 DEF Spent
        <4>. QED
          BY <3>1, <4>1, <4>2
      <3>6. \A d \in Calls : x \notin InHand(d)'
        BY <3>4, <1>19
      <3>7. copies'[x] <= 1
        BY <3>1, <3>4
      <3>. QED
        BY <3>5, <3>6, <3>7 DEF OneHand
    <2>. QED
      BY <2>2, <2>3
  <1>23. HandsAre'
    BY <1>22 DEF HandsAre
  <1>. QED
    BY <1>14, <1>15, <1>16, <1>17, <1>18, <1>23 DEF ConInv

LEMMA StartsConsolidation ==
    ASSUME ConsolidationAssumption, ConInit
    PROVE  ConInv
  <1>1. /\ MaxMems \in Nat /\ Len(Stored) \in Nat /\ Len(Stored) <= MaxMems
        /\ Pending \in Nat /\ MaxEpisodes \in Nat /\ Pending <= MaxEpisodes
    BY DEF ConsolidationAssumption
  <1>2. \A m \in Mems : m <= Len(Stored) =>
           /\ Stored[m] \in [key : Keys, tier : {"working", "semantic"}, made : Nat]
           /\ Stored[m].made <= Len(Stored)
    <2>1. /\ \A m \in DOMAIN Stored : Stored[m].made <= Len(Stored)
          /\ DOMAIN Stored = 1..Len(Stored)
          /\ \A m \in DOMAIN Stored :
                Stored[m] \in [key : Keys, tier : {"working", "semantic"}, made : Nat]
      <3>1. PICK R : R = [key : Keys, tier : {"working", "semantic"}, made : Nat]
        OBVIOUS
      <3>2. Stored \in Seq(R)
        BY <3>1 DEF ConsolidationAssumption
      <3>3. DOMAIN Stored = 1..Len(Stored) /\ \A m \in DOMAIN Stored : Stored[m] \in R
        BY <3>2
      <3>4. \A m \in DOMAIN Stored : Stored[m].made <= Len(Stored)
        BY DEF ConsolidationAssumption
      <3>. QED
        BY <3>1, <3>3, <3>4
    <2>2. \A m \in Mems : m <= Len(Stored) => m \in 1..Len(Stored)
      BY <1>1 DEF Mems
    <2>. QED
      BY <2>1, <2>2
  <1>11. now = Len(Stored) + 1 /\ now \in Nat
    <2>1. now = Len(Stored) + 1
      BY DEF ConInit
    <2>. QED
      BY <2>1, <1>1
  <1>3. ASSUME NEW m \in Mems
        PROVE  /\ mem[m] \in MemRow /\ mem[m].made <= now
               /\ mem[m].state \in {"open", "none"} /\ mem[m].by = 0 /\ mem[m].epi = 0
    <2>1. CASE m <= Len(Stored)
      <3>1. PICK row \in [key : Keys, tier : {"working", "semantic"}, made : Nat] :
               row = Stored[m] /\ row.made <= Len(Stored)
        BY <2>1, <1>2
      <3>2. mem[m] = [NoMem EXCEPT !.state = "open", !.key = row.key, !.tier = row.tier,
                                   !.made = row.made]
        BY <2>1, <3>1 DEF ConInit
      <3>3. /\ mem[m] \in MemRow /\ mem[m].made = row.made /\ mem[m].state = "open"
            /\ mem[m].by = 0 /\ mem[m].epi = 0
        BY <3>2, ConFacts DEF MemRow, NoMem
      <3>4. row.made <= Len(Stored) + 1
        BY <3>1, <1>1
      <3>. QED
        BY <3>3, <3>4, <1>11
    <2>2. CASE ~(m <= Len(Stored))
      <3>1. mem[m] = NoMem
        BY <2>2 DEF ConInit
      <3>2. NoMem.made = 0 /\ NoMem.state = "none" /\ NoMem.by = 0 /\ NoMem.epi = 0
        BY DEF NoMem
      <3>3. 0 <= now
        BY <1>11
      <3>. QED
        BY <3>1, <3>2, <3>3, ConFacts
    <2>. QED
      BY <2>1, <2>2
  <1>4. mem \in [Mems -> MemRow]
    <2>1. mem = [m \in Mems |-> mem[m]]
      BY DEF ConInit
    <2>. QED
      BY <2>1, <1>3
  <1>5. \A c \in Calls : call[c].work = NoWork /\ InHand(c) = {}
    <2>1. call = [c \in Calls |-> NoCall]
      BY DEF ConInit
    <2>2. NoCall.work = NoWork /\ ~NoWork.in
      BY DEF NoCall, NoWork
    <2>. QED
      BY <2>1, <2>2 DEF InHand
  <1>6. ConRowsOK
    <2>1. episodes \subseteq Episodes
      <3>1. 1..Pending \subseteq 1..MaxEpisodes
        BY <1>1
      <3>2. episodes = 1..Pending
        BY DEF ConInit
      <3>. QED
        BY <3>1, <3>2 DEF Episodes
    <2>2. call \in [Calls -> [plan : Seq(Passes), work : Works]]
      BY ConFacts DEF ConInit
    <2>3. runs \in Nat /\ now \in Nat
      <3>1. runs = 0
        BY DEF ConInit
      <3>. QED
        BY <3>1, <1>11
    <2>4. copies \in [Tags -> Nat]
      BY DEF ConInit, Tags
    <2>. QED
      BY <1>3, <1>4, <2>1, <2>2, <2>3, <2>4 DEF ConRowsOK
  <1>7. LinesUp
    BY <1>3 DEF LinesUp
  <1>8. ASSUME NEW c \in Calls PROVE WorkOK(c)
    <2>1. WorkIs(Pass(c), NoWork)
      BY <1>6, ConFacts DEF WorkIs, ConRowsOK
    <2>. QED
      BY <2>1, <1>5, ConFacts DEF WorkOK
  <1>9. StoresApart
    BY <1>5, ConFacts DEF StoresApart
  <1>10. HandsAre
    <2>1. \A x \in Tags : copies[x] = 0
      BY DEF ConInit, Tags
    <2>. QED
      BY <2>1, <1>5 DEF HandsAre, OneHand
  <1>. QED
    BY <1>6, <1>7, <1>8, <1>9, <1>10 DEF ConInv

LEMMA ConStep ==
    ASSUME ConsolidationAssumption, ConInv, [ConNext]_conVars
    PROVE  ConInv'
  <1>1. CASE \E c \in Calls : \/ StartCall(c) \/ BeginPass(c) \/ Dedup(c) \/ ConflictResolve(c)
                            \/ MergePromote(c) \/ Defers(c) \/ Distils(c) \/ Decay(c)
                            \/ CommitPass(c) \/ LosesPass(c) \/ CallCrashes(c)
    BY <1>1, StartCallKeeps, BeginPassKeeps, DedupKeeps, ConflictResolveKeeps, MergePromoteKeeps,
       DefersKeeps, DistilsKeeps, DecayKeeps, CommitPassKeeps, LosesPassKeeps, CallCrashesKeeps
  <1>2. CASE \E m \in Mems : UserCloses(m)
    BY <1>2, UserClosesKeeps
  <1>3. CASE UNCHANGED conVars
    <2>1. /\ mem' = mem /\ episodes' = episodes /\ call' = call /\ runs' = runs /\ now' = now
          /\ others' = others /\ copies' = copies /\ doubled' = doubled
      BY <1>3 DEF conVars
    <2>2. ConRowsOK'
      BY <2>1 DEF ConInv, ConRowsOK
    <2>3. LinesUp' /\ StoresApart' /\ HandsAre'
      BY <2>1 DEF ConInv, LinesUp, HeirOK, Told, StoresApart, HandsAre, OneHand, Spent, InHand
    <2>4. \A c \in Calls : WorkOK(c)'
      BY <2>1 DEF ConInv, WorkOK, WorkIs, HeirOK, Told, Pass
    <2>. QED
      BY <2>2, <2>3, <2>4 DEF ConInv
  <1>. QED
    BY <1>1, <1>2, <1>3 DEF ConNext

\* A line of heirs stays among what was there, and goes on from each of them.
LEMMA HeirsAre ==
    ASSUME ConsolidationAssumption, ConInv, NEW m \in Mems, Told(m)
    PROVE  /\ HeirsOf(m) \subseteq Mems /\ m \in HeirsOf(m)
           /\ \A n \in HeirsOf(m) : Told(n) /\ (mem[n].by # 0 => mem[n].by \in HeirsOf(m))
  <1>1. HeirsOf(m) \subseteq Mems /\ m \in HeirsOf(m)
    BY DEF HeirsOf
  <1>2. \A n \in Mems : Told(n) => mem[n].by = 0 \/ HeirOK(n, mem[n].by)
    BY DEF ConInv, LinesUp
  <1>3. PICK S \in SUBSET Mems : S = {n \in Mems : Told(n)}
    OBVIOUS
  <1>4. m \in S /\ {mem[x].by : x \in S} \subseteq S \cup {0}
    BY <1>2, <1>3 DEF HeirOK
  <1>5. HeirsOf(m) \subseteq S
    BY <1>4 DEF HeirsOf
  <1>6. ASSUME NEW n \in HeirsOf(m), mem[n].by # 0 PROVE mem[n].by \in HeirsOf(m)
    <2>1. mem[n].by \in Mems
      BY <1>2, <1>3, <1>5, <1>6 DEF HeirOK
    <2>2. ASSUME NEW R \in SUBSET Mems, m \in R, {mem[x].by : x \in R} \subseteq R \cup {0}
          PROVE  mem[n].by \in R
      <3>1. n \in R
        BY <2>2 DEF HeirsOf
      <3>. QED
        BY <3>1, <2>2, <1>6
    <2>. QED
      BY <2>1, <2>2 DEF HeirsOf
  <1>. QED
    BY <1>1, <1>3, <1>5, <1>6

LEMMA SurvivorIs ==
    ASSUME ConsolidationAssumption, ConInv
    PROVE  SurvivorKept
  <1>. SUFFICES ASSUME NEW m \in Mems, mem[m].state = "closed"
                PROVE  \/ \E n \in HeirsOf(m) : IsOpen(n) \/ n \in others
                       \/ \E n, k \in HeirsOf(m) : n # k /\ mem[n].made = mem[k].made
    BY DEF SurvivorKept
  <1>1. /\ HeirsOf(m) \subseteq Mems /\ m \in HeirsOf(m)
        /\ \A n \in HeirsOf(m) : Told(n) /\ (mem[n].by # 0 => mem[n].by \in HeirsOf(m))
    <2>1. Told(m)
      BY DEF Told
    <2>. QED
      BY <2>1, HeirsAre
  <1>2. now \in Nat /\ \A n \in Mems : mem[n].made \in Nat /\ mem[n].made <= now
    BY DEF ConInv, ConRowsOK, MemRow
  <1>3. PICK x \in HeirsOf(m) : \A n \in HeirsOf(m) : mem[n].made <= mem[x].made
    <2>1. PICK S : S = {now - mem[n].made : n \in HeirsOf(m)}
      OBVIOUS
    <2>2. S # {} /\ S \subseteq Nat
      BY <2>1, <1>1, <1>2
    <2>3. PICK d \in S : \A e \in S : d <= e
      BY <2>2, LeastNumber
    <2>4. PICK x \in HeirsOf(m) : d = now - mem[x].made
      BY <2>1, <2>3
    <2>5. ASSUME NEW n \in HeirsOf(m) PROVE mem[n].made <= mem[x].made
      <3>1. d <= now - mem[n].made
        BY <2>1, <2>3
      <3>2. mem[n].made \in Nat /\ mem[x].made \in Nat
        BY <1>1, <1>2
      <3>. QED
        BY <3>1, <3>2, <2>4, <1>2
    <2>. QED
      BY <2>5
  <1>4. CASE IsOpen(x) \/ x \in others
    BY <1>4
  <1>5. CASE ~IsOpen(x) /\ x \notin others
    <2>1. mem[x].state = "closed" /\ x \in Mems /\ Told(x)
      BY <1>1, <1>5 DEF Told, IsOpen
    <2>2. mem[x].by # 0 /\ HeirOK(x, mem[x].by)
      BY <2>1, <1>5 DEF ConInv, LinesUp
    <2>3. PICK k \in HeirsOf(m) : k = mem[x].by
      BY <2>2, <1>1
    <2>4. k # x /\ mem[x].made <= mem[k].made /\ mem[k].made <= mem[x].made
      BY <2>2, <2>3, <1>3 DEF HeirOK
    <2>5. mem[k].made \in Nat /\ mem[x].made \in Nat
      BY <2>1, <2>3, <1>1, <1>2
    <2>6. mem[k].made = mem[x].made
      BY <2>4, <2>5
    <2>. QED
      BY <2>4, <2>6
  <1>. QED
    BY <1>4, <1>5

LEMMA ConInvShows ==
    ASSUME ConsolidationAssumption, ConInv
    PROVE  PassesSound
  <1>1. ConTypeOK
    <2>1. mem \in [Mems -> MemRow] /\ now \in Nat /\ episodes \subseteq Episodes
          /\ \A m \in Mems : mem[m].made <= now
      BY DEF ConInv, ConRowsOK
    <2>2. ASSUME NEW m \in Mems
          PROVE  mem[m] \in [state : {"none", "open", "closed", "marker"}, key : Keys \cup {"none"},
                             tier : {"working", "semantic"}, made : 0..now, by : 0..MaxMems,
                             epi : 0..MaxEpisodes, vec : BOOLEAN]
      <3>1. mem[m] \in MemRow /\ mem[m].made <= now
        BY <2>1
      <3>2. mem[m].made \in 0..now
        BY <3>1, <2>1 DEF MemRow
      <3>. QED
        BY <3>1, <3>2 DEF MemRow
    <2>. QED
      BY <2>1, <2>2 DEF ConTypeOK
  <1>2. WorkDoneOnce
    BY DEF ConInv, ConRowsOK, HandsAre, OneHand, WorkDoneOnce
  <1>. QED
    BY <1>1, <1>2, SurvivorIs DEF PassesSound

\* Whatever passes and calls overlap, a memory that was closed for another lives
\* on in an open one, or in one closed for its own sake, but for ties of the
\* creation time; and nothing is derived twice but what two passes had in hand.
THEOREM PassesHold ==
    ASSUME ConsolidationAssumption
    PROVE  ConSpec => []PassesSound
  <1>1. ConInit => ConInv
    BY StartsConsolidation
  <1>2. ConInv /\ [ConNext]_conVars => ConInv'
    BY ConStep
  <1>3. ConInv => PassesSound
    BY ConInvShows
  <1>. QED
    BY <1>1, <1>2, <1>3, PTL DEF ConSpec
=============================================================================
