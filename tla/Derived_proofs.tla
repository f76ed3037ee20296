---------------------------- MODULE Derived_proofs ----------------------------
(***************************************************************************)
(* What is derived from the records and shown in their place: the reports    *)
(* and facts of reflection, the principles mirrored as memories, the         *)
(* snapshots of cognition, the memory that Hermes mirrors, and the context   *)
(* a retrieval assembles from the memories there are.                        *)
(***************************************************************************)
EXTENDS Cognition, HermesProvider, Retrieval, FiniteSetTheorems, SequenceTheorems, WellFoundedInduction, TLAPS

-----------------------------------------------------------------------------
(* Why what reflection infers stays a hypothesis, for any number of calls:   *)
(* a sure candidate was proposed, clamped, before its report was stored, and *)
(* a predicate that has had a fact keeps a live one until somebody           *)
(* invalidates it.  And why a goal shows the newest report: whoever stored it *)
(* is on the way to the goal, and nobody on it holds an older one.           *)

InferredRow == [conf : Nat, live : BOOLEAN, by : Nat]
InferredRows == Seq(InferredRow)
Inferring == [at : {"idle", "write"}, conf : Nat, saw : Nat, rows : Nat]
SyncPlaces == {"best", "check", "promote", "promoteWrite", "goals", "land"}
ReflectorPlaces == {"idle", "propose", "write", "report"} \cup SyncPlaces
Reflectors == [at : ReflectorPlaces, draft : Drafts, failed : BOOLEAN, holds : Nat]

RefRowsOK ==
    /\ fact \in InferredRows /\ dropped \in Nat
    /\ proposal \in [Proposers -> Inferring]
    /\ report \in Seq(Drafts) /\ landed \in 0..Len(report)
    /\ reflector \in [Proposers -> Reflectors]
    /\ inferred \subseteq DOMAIN fact /\ unproposed \subseteq DOMAIN report
    /\ slips \in Nat /\ overtaken \in BOOLEAN

\* A transaction is open where the call is about to write, and writes what the
\* call proposed; what reflection is sure of has been proposed before its report
\* is stored; what the sync holds is a report's candidate, and it goes on only
\* where there is no live fact.
SureDraft(p) == reflector[p].draft.cand >= Confident /\ reflector[p].draft.deep
CallAgrees(p) ==
    /\ proposal[p].at = "write" <=> reflector[p].at \in {"write", "promoteWrite"}
    /\ reflector[p].at = "write" => proposal[p].conf < Confident
    /\ reflector[p].at = "promoteWrite" => proposal[p].conf = reflector[p].holds
    /\ reflector[p].at = "report" /\ SureDraft(p) /\ ~reflector[p].failed => fact # <<>>
    /\ reflector[p].at \in {"check", "promote", "promoteWrite"} =>
          \E r \in DOMAIN report : report[r].cand = reflector[p].holds
    /\ reflector[p].at \in {"promote", "promoteWrite"} /\ reflector[p].holds >= Confident =>
          unproposed # {} \/ dropped > 0
    /\ reflector[p].at = "land" => reflector[p].holds \in DOMAIN report

\* Some fact is live unless there was none, or one was invalidated.
FactsLast == dropped = 0 /\ fact # <<>> => Live # {}

\* There was a fact before a sure report, or the report was not proposed.
ReportsProposed ==
    \A r \in DOMAIN report : report[r].cand >= Confident => fact # <<>> \/ r \in unproposed

\* The newest report is on its way or has landed.
Landing ==
    slips = 0 /\ ~overtaken =>
        /\ \A p \in Proposers : reflector[p].at = "land" => reflector[p].holds = Len(report)
        /\ report # <<>> /\ report[Len(report)].deep =>
              landed = Len(report) \/ \E p \in Proposers : reflector[p].at \in SyncPlaces

RefInv ==
    /\ RefRowsOK /\ FactsLast /\ ReportsProposed /\ InferredStaysHypothesis /\ Landing
    /\ \A p \in Proposers : CallAgrees(p)

LEMMA ReflectionFacts ==
    ASSUME ReflectionAssumption
    PROVE  /\ Clamp = 2 /\ Confident = 3 /\ Clamp < Confident
           /\ NoReport \in Drafts /\ NoReflection \in Reflectors /\ NoReflection.at = "idle"
           /\ NoProposal \in Inferring /\ NoProposal.at = "idle"
           /\ \A d \in Drafts : d.cand \in Nat /\ d.deep \in BOOLEAN
           /\ RefRowsOK => \A p \in Proposers : Proposed(p) \in Nat /\ Proposed(p) < Confident
  <1>1. \A d \in Drafts : d.cand \in Nat /\ d.deep \in BOOLEAN
    <2>1. {0} \cup Confidences \subseteq Nat
      BY DEF ReflectionAssumption
    <2>. QED
      BY <2>1 DEF Drafts
  <1>2. ASSUME NEW p \in Proposers, RefRowsOK PROVE Proposed(p) \in Nat /\ Proposed(p) < Confident
    <2>1. reflector[p].draft \in Drafts
      BY <1>2 DEF RefRowsOK, Reflectors
    <2>. QED
      BY <1>1, <2>1 DEF Proposed, Clamp, Confident
  <1>3. NoReport \in Drafts
    BY DEF NoReport, Drafts
  <1>4. NoReflection \in Reflectors /\ NoReflection.at = "idle"
    BY <1>3 DEF NoReflection, Reflectors, ReflectorPlaces
  <1>5. NoProposal \in Inferring /\ NoProposal.at = "idle"
    BY DEF NoProposal, Inferring
  <1>. QED
    BY <1>1, <1>2, <1>3, <1>4, <1>5 DEF Clamp, Confident

LEMMA StartsReflection ==
    ASSUME ReflectionAssumption, RefInit
    PROVE  RefInv
  <1>1. fact \in InferredRows /\ report \in Seq(Drafts) /\ Len(report) = 0
    BY DEF RefInit, IdInit, InferredRows
  <1>5. RefRowsOK
    <2>1. proposal \in [Proposers -> Inferring] /\ reflector \in [Proposers -> Reflectors]
      BY ReflectionFacts DEF RefInit, IdInit
    <2>2. dropped \in Nat /\ landed \in 0..Len(report) /\ slips \in Nat
      BY <1>1 DEF RefInit, IdInit
    <2>3. inferred \subseteq DOMAIN fact /\ unproposed \subseteq DOMAIN report /\ overtaken \in BOOLEAN
      BY DEF RefInit
    <2>. QED
      BY <1>1, <2>1, <2>2, <2>3 DEF RefRowsOK
  <1>2. \A p \in Proposers : reflector[p].at = "idle" /\ proposal[p].at = "idle"
    BY ReflectionFacts DEF RefInit, IdInit
  <1>3. ReportsProposed /\ \A p \in Proposers : CallAgrees(p)
    BY <1>2 DEF RefInit, IdInit, CallAgrees, ReportsProposed
  <1>4. FactsLast /\ InferredStaysHypothesis /\ Landing
    BY <1>2 DEF RefInit, IdInit, FactsLast, InferredStaysHypothesis, Landing
  <1>. QED
    BY <1>5, <1>3, <1>4 DEF RefInv

\* One call's record.
LEMMA ReflectorMoves ==
    ASSUME RefRowsOK, NEW p \in Proposers, NEW r \in Reflectors,
           reflector' = [reflector EXCEPT ![p] = r]
    PROVE  /\ reflector' \in [Proposers -> Reflectors]
           /\ reflector'[p] = r /\ \A q \in Proposers \ {p} : reflector'[q] = reflector[q]
  BY DEF RefRowsOK

\* And one proposal's.
LEMMA ProposalMoves ==
    ASSUME RefRowsOK, NEW p \in Proposers, NEW r \in Inferring,
           proposal' = [proposal EXCEPT ![p] = r]
    PROVE  /\ proposal' \in [Proposers -> Inferring]
           /\ proposal'[p] = r /\ \A q \in Proposers \ {p} : proposal'[q] = proposal[q]
  BY DEF RefRowsOK

LEMMA GoesMoves ==
    ASSUME RefRowsOK, NEW p \in Proposers, NEW place \in ReflectorPlaces, Goes(p, place)
    PROVE  /\ reflector' \in [Proposers -> Reflectors]
           /\ reflector'[p].at = place /\ reflector'[p].draft = reflector[p].draft
           /\ reflector'[p].failed = reflector[p].failed /\ reflector'[p].holds = reflector[p].holds
           /\ \A q \in Proposers \ {p} : reflector'[q] = reflector[q]
  BY DEF RefRowsOK, Reflectors, Goes

\* A call that did not move, while facts, reports and invalidations only came.
LEMMA OthersAgree ==
    ASSUME RefInv, NEW q \in Proposers, reflector'[q] = reflector[q], proposal'[q] = proposal[q],
           fact # <<>> => fact' # <<>>,
           \A r \in DOMAIN report : r \in DOMAIN report' /\ report'[r] = report[r],
           unproposed \subseteq unproposed', dropped' \in Nat, dropped' >= dropped
    PROVE  CallAgrees(q)'
  <1>1. CallAgrees(q) /\ dropped \in Nat
    BY DEF RefInv, RefRowsOK
  <1>. QED
    BY <1>1 DEF CallAgrees, SureDraft

\* A step that moves one call only.
LEMMA QuietMove ==
    ASSUME RefInv, NEW p \in Proposers, reflector' \in [Proposers -> Reflectors],
           \A q \in Proposers \ {p} : reflector'[q] = reflector[q],
           UNCHANGED <<idVars, report, landed, inferred, unproposed, overtaken, slips>>,
           CallAgrees(p)',
           reflector'[p].at = "land" => reflector'[p].holds = Len(report),
           reflector[p].at \in SyncPlaces /\ report # <<>> => reflector'[p].at \in SyncPlaces
    PROVE  RefInv'
  <1>1. RefRowsOK'
    BY DEF RefInv, RefRowsOK, idVars
  <1>2. \A q \in Proposers \ {p} : CallAgrees(q)'
    BY OthersAgree DEF RefInv, RefRowsOK, idVars
  <1>3. FactsLast' /\ ReportsProposed' /\ InferredStaysHypothesis'
    BY DEF RefInv, FactsLast, ReportsProposed, InferredStaysHypothesis, Live, idVars
  <1>4. Landing'
    BY DEF RefInv, Landing
  <1>. QED
    BY <1>1, <1>2, <1>3, <1>4 DEF RefInv

LEMMA ReflectsKeeps ==
    ASSUME ReflectionAssumption, RefInv, NEW p \in Proposers, NEW draft \in Drafts, Reflects(p, draft)
    PROVE  RefInv'
  <1>. DEFINE place == IF draft.deep /\ draft.cand >= Confident THEN "propose" ELSE "report"
              r == [NoReflection EXCEPT !.at = place, !.draft = draft]
  <1>1. reflector' = [reflector EXCEPT ![p] = r] /\ proposal[p].at = "idle" /\ reflector[p].at = "idle"
        /\ UNCHANGED <<idVars, report, landed, inferred, unproposed, overtaken, slips>>
    BY DEF Reflects, At
  <1>2. r \in Reflectors /\ r.at = place /\ r.draft = draft
    BY DEF NoReflection, Reflectors, ReflectorPlaces
  <1>. HIDE DEF r
  <1>3. reflector' \in [Proposers -> Reflectors] /\ reflector'[p] = r
        /\ \A q \in Proposers \ {p} : reflector'[q] = reflector[q]
    BY <1>1, <1>2, ReflectorMoves DEF RefInv
  <1>4. CallAgrees(p)'
    BY <1>1, <1>2, <1>3 DEF CallAgrees, SureDraft, idVars
  <1>. QED
    BY <1>1, <1>2, <1>3, <1>4, QuietMove DEF SyncPlaces

LEMMA NothingKeeps ==
    ASSUME ReflectionAssumption, RefInv, NEW p \in Proposers, NothingToReflect(p)
    PROVE  RefInv'
  <1>1. proposal[p].at = "idle" /\ Goes(p, "best") /\ reflector[p].at = "idle"
        /\ UNCHANGED <<idVars, report, landed, inferred, unproposed, overtaken, slips>>
    BY DEF NothingToReflect, At
  <1>2. /\ reflector' \in [Proposers -> Reflectors] /\ reflector'[p].at = "best"
        /\ \A q \in Proposers \ {p} : reflector'[q] = reflector[q]
    BY <1>1, GoesMoves DEF RefInv, ReflectorPlaces, SyncPlaces
  <1>3. CallAgrees(p)'
    BY <1>1, <1>2 DEF CallAgrees, idVars
  <1>. QED
    BY <1>1, <1>2, <1>3, QuietMove DEF SyncPlaces

\* A read for a proposal opens a transaction and touches nothing else; a proposal
\* that changes nothing has found a live fact.
LEMMA ReadOpens ==
    ASSUME RefRowsOK, NEW p \in Proposers, NEW c \in Nat, ReadLive(p, c)
    PROVE  /\ proposal' \in [Proposers -> Inferring]
           /\ proposal'[p].at = "write" /\ proposal'[p].conf = c
           /\ \A q \in Proposers \ {p} : proposal'[q] = proposal[q]
           /\ UNCHANGED <<fact, dropped>>
  <1>1. PICK saw \in IF Live = {} THEN {0} ELSE Live :
           proposal' = [proposal EXCEPT ![p] = [at |-> "write", conf |-> c, saw |-> saw, rows |-> Len(fact)]]
    BY DEF ReadLive
  <1>2. saw \in Nat /\ Len(fact) \in Nat
    BY DEF Live, RefRowsOK, InferredRows
  <1>3. [at |-> "write", conf |-> c, saw |-> saw, rows |-> Len(fact)] \in Inferring
    BY <1>2 DEF Inferring
  <1>. QED
    BY <1>1, <1>3, ProposalMoves DEF ReadLive

LEMMA ProposesKeeps ==
    ASSUME ReflectionAssumption, RefInv, NEW p \in Proposers, Proposes(p)
    PROVE  RefInv'
  <1>1. reflector[p].at = "propose" /\ CallAgrees(p) /\ proposal[p].at # "write"
        /\ UNCHANGED <<report, landed, inferred, unproposed, overtaken, slips>>
    BY DEF Proposes, At, RefInv, CallAgrees
  <1>2. Proposed(p) \in Nat /\ Proposed(p) < Confident
    BY ReflectionFacts DEF RefInv
  <1>3. CASE ReadLive(p, Proposed(p)) /\ Goes(p, "write")
    <2>1. /\ reflector' \in [Proposers -> Reflectors] /\ reflector'[p].at = "write"
          /\ \A q \in Proposers \ {p} : reflector'[q] = reflector[q]
      BY <1>3, GoesMoves DEF RefInv, ReflectorPlaces
    <2>2. /\ proposal' \in [Proposers -> Inferring]
          /\ proposal'[p].at = "write" /\ proposal'[p].conf = Proposed(p)
          /\ \A q \in Proposers \ {p} : proposal'[q] = proposal[q]
          /\ UNCHANGED <<fact, dropped>>
      BY <1>2, <1>3, ReadOpens DEF RefInv
    <2>3. RefRowsOK'
      BY <1>1, <2>1, <2>2 DEF RefInv, RefRowsOK
    <2>4. CallAgrees(p)'
      BY <1>2, <2>1, <2>2 DEF CallAgrees, Confident
    <2>5. \A q \in Proposers \ {p} : CallAgrees(q)'
      BY <1>1, <2>1, <2>2, OthersAgree DEF RefInv, RefRowsOK
    <2>6. FactsLast' /\ ReportsProposed' /\ InferredStaysHypothesis'
      BY <1>1, <2>2 DEF RefInv, FactsLast, ReportsProposed, InferredStaysHypothesis, Live
    <2>7. Landing'
      BY <1>1, <2>1 DEF RefInv, Landing, SyncPlaces
    <2>. QED
      BY <2>3, <2>4, <2>5, <2>6, <2>7 DEF RefInv
  <1>4. CASE NoChange(Proposed(p)) /\ Goes(p, "report")
    <2>1. /\ reflector' \in [Proposers -> Reflectors] /\ reflector'[p].at = "report"
          /\ \A q \in Proposers \ {p} : reflector'[q] = reflector[q]
      BY <1>4, GoesMoves DEF RefInv, ReflectorPlaces
    <2>2. UNCHANGED idVars /\ fact # <<>>
      BY <1>4 DEF NoChange, Live
    <2>3. CallAgrees(p)'
      BY <1>1, <2>1, <2>2 DEF CallAgrees, idVars
    <2>. QED
      BY <1>1, <2>1, <2>2, <2>3, QuietMove DEF SyncPlaces
  <1>. QED
    BY <1>3, <1>4 DEF Proposes

\* A function from 1 to n is a sequence of length n.
LEMMA IsTable ==
    ASSUME NEW T, NEW n \in Nat, NEW f \in [1..n -> T]
    PROVE  f \in Seq(T) /\ Len(f) = n
  OBVIOUS

\* A write adds a live fact as sure as its proposal; the others keep theirs.
LEMMA WriteAdds ==
    ASSUME RefRowsOK, NEW p \in Proposers, WriteFact(p)
    PROVE  /\ fact' \in InferredRows /\ Len(fact') = Len(fact) + 1 /\ fact' # <<>>
           /\ DOMAIN fact' = DOMAIN fact \cup {Len(fact')}
           /\ \A i \in DOMAIN fact : fact'[i].conf = fact[i].conf
           /\ fact'[Len(fact')].conf = proposal[p].conf /\ Live' # {}
           /\ proposal' \in [Proposers -> Inferring] /\ proposal'[p].at = "idle"
           /\ \A q \in Proposers \ {p} : proposal'[q] = proposal[q]
           /\ dropped' = dropped /\ proposal[p].at = "write"
  <1>. DEFINE new == Len(fact) + 1
              body == [i \in DOMAIN fact |->
                            IF Closes(i, p) THEN [fact[i] EXCEPT !.live = FALSE, !.by = new] ELSE fact[i]]
              row == [conf |-> proposal[p].conf, live |-> TRUE, by |-> 0]
  <1>1. fact \in Seq(InferredRow) /\ DOMAIN fact = 1..Len(fact) /\ Len(fact) \in Nat /\ proposal[p] \in Inferring
    BY DEF RefRowsOK, InferredRows
  <1>2. row \in InferredRow
    BY <1>1 DEF Inferring, InferredRow
  <1>3. \A i \in DOMAIN fact : body[i] \in InferredRow /\ body[i].conf = fact[i].conf
    <2>. SUFFICES ASSUME NEW i \in DOMAIN fact PROVE body[i] \in InferredRow /\ body[i].conf = fact[i].conf
      OBVIOUS
    <2>1. fact[i] \in InferredRow /\ new \in Nat
      BY <1>1
    <2>2. CASE Closes(i, p)
      <3>1. body[i] = [fact[i] EXCEPT !.live = FALSE, !.by = new]
        BY <2>2
      <3>. QED
        BY <2>1, <3>1 DEF InferredRow
    <2>. QED
      BY <2>1, <2>2
  <1>4. body \in [1..Len(fact) -> InferredRow]
    BY <1>1, <1>3
  <1>5. body \in Seq(InferredRow) /\ Len(body) = Len(fact)
    <2>. HIDE DEF body
    <2>. QED
      BY <1>1, <1>4, IsTable
  <1>6. fact' = Append(body, row) /\ proposal' = [proposal EXCEPT ![p] = NoProposal]
        /\ dropped' = dropped /\ proposal[p].at = "write"
    BY DEF WriteFact
  <1>. HIDE DEF body, row
  <1>7. /\ fact' \in Seq(InferredRow) /\ Len(fact') = Len(fact) + 1 /\ fact'[Len(fact) + 1] = row
        /\ \A i \in 1..Len(fact) : fact'[i] = body[i]
    BY <1>1, <1>2, <1>5, <1>6
  <1>8. DOMAIN fact' = 1..(Len(fact) + 1) /\ fact' # <<>>
    BY <1>1, <1>7
  <1>9. row.conf = proposal[p].conf /\ row.live
    BY DEF row
  <1>10. Live' # {}
    <2>1. Len(fact) + 1 \in DOMAIN fact' /\ fact'[Len(fact) + 1].live
      BY <1>1, <1>7, <1>8, <1>9
    <2>. QED
      BY <2>1 DEF Live
  <1>11. /\ proposal' \in [Proposers -> Inferring] /\ proposal'[p].at = "idle"
         /\ \A q \in Proposers \ {p} : proposal'[q] = proposal[q]
    BY <1>6, ProposalMoves DEF NoProposal, Inferring
  <1>12. DOMAIN fact' = DOMAIN fact \cup {Len(fact')} /\ Len(fact') = Len(fact) + 1
    BY <1>1, <1>7, <1>8
  <1>13. \A i \in DOMAIN fact : fact'[i].conf = fact[i].conf
    BY <1>1, <1>3, <1>7
  <1>14. fact'[Len(fact')].conf = proposal[p].conf
    BY <1>7, <1>9, <1>12
  <1>. QED
    BY <1>6, <1>7, <1>8, <1>10, <1>11, <1>12, <1>13, <1>14 DEF InferredRows

LEMMA WritesKeeps ==
    ASSUME ReflectionAssumption, RefInv, NEW p \in Proposers, NEW from, NEW to, WritesFact(p, from, to),
           <<from, to>> \in {<<"write", "report">>, <<"promoteWrite", "goals">>}
    PROVE  RefInv'
  <1>1. /\ reflector[p].at = from /\ from \in {"write", "promoteWrite"} /\ to \in {"report", "goals"}
        /\ from = "promoteWrite" => to = "goals"
        /\ WriteFact(p) /\ Goes(p, to) /\ CallAgrees(p) /\ inferred' = inferred \cup {Len(fact')}
        /\ UNCHANGED <<report, landed, unproposed, overtaken, slips>>
    BY DEF WritesFact, At, RefInv
  <1>2. /\ reflector' \in [Proposers -> Reflectors] /\ reflector'[p].at = to
        /\ \A q \in Proposers \ {p} : reflector'[q] = reflector[q]
    BY <1>1, GoesMoves DEF RefInv, ReflectorPlaces, SyncPlaces
  <1>3. /\ fact' \in InferredRows /\ Len(fact') = Len(fact) + 1 /\ fact' # <<>>
        /\ DOMAIN fact' = DOMAIN fact \cup {Len(fact')}
        /\ \A i \in DOMAIN fact : fact'[i].conf = fact[i].conf
        /\ fact'[Len(fact')].conf = proposal[p].conf /\ Live' # {}
        /\ proposal' \in [Proposers -> Inferring] /\ proposal'[p].at = "idle"
        /\ \A q \in Proposers \ {p} : proposal'[q] = proposal[q]
        /\ dropped' = dropped
    BY <1>1, WriteAdds DEF RefInv
  <1>4. RefRowsOK'
    BY <1>1, <1>2, <1>3 DEF RefInv, RefRowsOK
  <1>5. CallAgrees(p)'
    BY <1>1, <1>2, <1>3 DEF CallAgrees
  <1>6. \A q \in Proposers \ {p} : CallAgrees(q)'
    BY <1>1, <1>2, <1>3, OthersAgree DEF RefInv, RefRowsOK
  <1>7. FactsLast' /\ ReportsProposed'
    BY <1>1, <1>3 DEF RefInv, FactsLast, ReportsProposed
  <1>8. InferredStaysHypothesis'
    <2>1. proposal[p].conf >= Confident => unproposed # {} \/ dropped > 0
      <3>1. proposal[p].conf \in Nat
        BY DEF RefInv, RefRowsOK, Inferring
      <3>. QED
        BY <1>1, <3>1 DEF CallAgrees, Confident
    <2>2. \A i \in inferred : i \in DOMAIN fact /\ (fact[i].conf >= Confident => unproposed # {} \/ dropped > 0)
      BY DEF RefInv, InferredStaysHypothesis, RefRowsOK
    <2>. QED
      BY <1>1, <1>3, <2>1, <2>2 DEF InferredStaysHypothesis
  <1>9. Landing'
    BY <1>1, <1>2 DEF RefInv, Landing, SyncPlaces
  <1>. QED
    BY <1>4, <1>5, <1>6, <1>7, <1>8, <1>9 DEF RefInv

LEMMA FailsKeeps ==
    ASSUME ReflectionAssumption, RefInv, NEW p \in Proposers, ProposalFails(p)
    PROVE  RefInv'
  <1>1. /\ slips \in Nat /\ slips' = slips + 1 /\ proposal' = [proposal EXCEPT ![p] = NoProposal]
        /\ UNCHANGED <<fact, dropped, report, landed, inferred, unproposed, overtaken>>
    BY DEF ProposalFails, Slips, RefInv, RefRowsOK
  <1>2. PICK r \in Reflectors : /\ reflector' = [reflector EXCEPT ![p] = r]
                               /\ (r.at = "goals" \/ (r.at = "report" /\ r.failed))
    <2>1. CASE reflector' = [reflector EXCEPT ![p].at = "report", ![p].failed = TRUE]
      <3>. DEFINE r == [reflector[p] EXCEPT !.at = "report", !.failed = TRUE]
      <3>1. r \in Reflectors /\ r.at = "report" /\ r.failed
        BY DEF RefInv, RefRowsOK, Reflectors, ReflectorPlaces
      <3>2. reflector' = [reflector EXCEPT ![p] = r]
        BY <2>1
      <3>. QED
        BY <3>1, <3>2
    <2>2. CASE Goes(p, "goals")
      <3>. DEFINE r == [reflector[p] EXCEPT !.at = "goals"]
      <3>1. r \in Reflectors /\ r.at = "goals"
        BY DEF RefInv, RefRowsOK, Reflectors, ReflectorPlaces, SyncPlaces
      <3>2. reflector' = [reflector EXCEPT ![p] = r]
        BY <2>2 DEF Goes
      <3>. QED
        BY <3>1, <3>2
    <2>. QED
      BY <2>1, <2>2 DEF ProposalFails
  <1>3. /\ reflector' \in [Proposers -> Reflectors] /\ reflector'[p] = r
        /\ \A q \in Proposers \ {p} : reflector'[q] = reflector[q]
    BY <1>2, ReflectorMoves DEF RefInv
  <1>4. /\ proposal' \in [Proposers -> Inferring] /\ proposal'[p].at = "idle"
        /\ \A q \in Proposers \ {p} : proposal'[q] = proposal[q]
    BY <1>1, ReflectionFacts, ProposalMoves DEF RefInv
  <1>5. RefRowsOK'
    BY <1>1, <1>3, <1>4 DEF RefInv, RefRowsOK
  <1>6. CallAgrees(p)'
    BY <1>1, <1>2, <1>3, <1>4 DEF CallAgrees
  <1>7. \A q \in Proposers \ {p} : CallAgrees(q)'
    BY <1>1, <1>3, <1>4, OthersAgree DEF RefInv, RefRowsOK
  <1>8. FactsLast' /\ ReportsProposed' /\ InferredStaysHypothesis'
    BY <1>1 DEF RefInv, FactsLast, ReportsProposed, InferredStaysHypothesis, Live
  <1>9. Landing'
    BY <1>1 DEF Landing
  <1>. QED
    BY <1>5, <1>6, <1>7, <1>8, <1>9 DEF RefInv

LEMMA CutKeeps ==
    ASSUME ReflectionAssumption, RefInv, NEW p \in Proposers, CutShort(p)
    PROVE  RefInv'
  <1>1. /\ slips \in Nat /\ slips' = slips + 1 /\ proposal' = [proposal EXCEPT ![p] = NoProposal]
        /\ reflector' = [reflector EXCEPT ![p] = NoReflection]
        /\ UNCHANGED <<fact, dropped, report, landed, inferred, unproposed, overtaken>>
    BY DEF CutShort, Slips, RefInv, RefRowsOK
  <1>3. /\ reflector' \in [Proposers -> Reflectors] /\ reflector'[p].at = "idle"
        /\ \A q \in Proposers \ {p} : reflector'[q] = reflector[q]
    BY <1>1, ReflectionFacts, ReflectorMoves DEF RefInv
  <1>4. /\ proposal' \in [Proposers -> Inferring] /\ proposal'[p].at = "idle"
        /\ \A q \in Proposers \ {p} : proposal'[q] = proposal[q]
    BY <1>1, ReflectionFacts, ProposalMoves DEF RefInv
  <1>5. RefRowsOK'
    BY <1>1, <1>3, <1>4 DEF RefInv, RefRowsOK
  <1>6. CallAgrees(p)'
    BY <1>3, <1>4 DEF CallAgrees
  <1>7. \A q \in Proposers \ {p} : CallAgrees(q)'
    BY <1>1, <1>3, <1>4, OthersAgree DEF RefInv, RefRowsOK
  <1>8. FactsLast' /\ ReportsProposed' /\ InferredStaysHypothesis'
    BY <1>1 DEF RefInv, FactsLast, ReportsProposed, InferredStaysHypothesis, Live
  <1>9. Landing'
    BY <1>1 DEF Landing
  <1>. QED
    BY <1>5, <1>6, <1>7, <1>8, <1>9 DEF RefInv

LEMMA StoresKeeps ==
    ASSUME ReflectionAssumption, RefInv, NEW p \in Proposers, StoresReport(p)
    PROVE  RefInv'
  <1>. DEFINE draft == reflector[p].draft
              r == [NoReflection EXCEPT !.at = IF draft.deep THEN "best" ELSE "idle"]
  <1>1. /\ reflector[p].at = "report" /\ report' = Append(report, draft)
        /\ reflector' = [reflector EXCEPT ![p] = r]
        /\ unproposed' = IF draft.cand >= Confident /\ (reflector[p].failed \/ ~draft.deep)
                         THEN unproposed \cup {Len(report')} ELSE unproposed
        /\ overtaken' = (overtaken \/ \E q \in Proposers : reflector[q].at = "land")
        /\ UNCHANGED <<idVars, landed, inferred, slips>>
    BY DEF StoresReport, At
  <1>2. draft \in Drafts /\ draft.cand \in Nat /\ draft.deep \in BOOLEAN
    BY ReflectionFacts DEF RefInv, RefRowsOK, Reflectors
  <1>3. r \in Reflectors /\ r.at = (IF draft.deep THEN "best" ELSE "idle")
    BY ReflectionFacts DEF NoReflection, Reflectors, ReflectorPlaces, SyncPlaces
  <1>4. /\ reflector' \in [Proposers -> Reflectors] /\ reflector'[p] = r
        /\ \A q \in Proposers \ {p} : reflector'[q] = reflector[q]
    BY <1>1, <1>3, ReflectorMoves DEF RefInv
  <1>5. /\ report' \in Seq(Drafts) /\ Len(report') = Len(report) + 1 /\ report'[Len(report')] = draft
        /\ \A i \in DOMAIN report : i \in DOMAIN report' /\ report'[i] = report[i]
        /\ DOMAIN report' = DOMAIN report \cup {Len(report')} /\ Len(report) \in Nat
    BY <1>1, <1>2 DEF RefInv, RefRowsOK
  <1>6. RefRowsOK'
    <2>1. overtaken' \in BOOLEAN
      BY <1>1
    <2>2. landed' \in 0..Len(report') /\ unproposed' \subseteq DOMAIN report'
      BY <1>1, <1>5 DEF RefInv, RefRowsOK
    <2>. QED
      BY <1>1, <1>4, <1>5, <2>1, <2>2 DEF RefInv, RefRowsOK, idVars
  <1>7. CallAgrees(p)'
    BY <1>1, <1>3, <1>4 DEF CallAgrees, RefInv, idVars
  <1>8. \A q \in Proposers \ {p} : CallAgrees(q)'
    BY <1>1, <1>4, <1>5, OthersAgree DEF RefInv, RefRowsOK, idVars
  <1>9. ReportsProposed'
    <2>1. draft.cand >= Confident => fact # <<>> \/ Len(report') \in unproposed'
      BY <1>1, <1>2 DEF RefInv, CallAgrees, SureDraft
    <2>. QED
      BY <1>1, <1>5, <2>1 DEF RefInv, ReportsProposed, idVars
  <1>10. FactsLast' /\ InferredStaysHypothesis'
    BY <1>1 DEF RefInv, FactsLast, InferredStaysHypothesis, Live, idVars
  <1>11. Landing'
    <2>1. ASSUME ~overtaken', NEW q \in Proposers PROVE reflector'[q].at # "land"
      <3>1. reflector[q].at # "land"
        BY <1>1, <2>1
      <3>2. CASE q = p
        <4>. HIDE DEF r
        <4>. QED
          BY <1>3, <1>4, <3>2
      <3>. QED
        BY <1>4, <3>1, <3>2
    <2>2. draft.deep => reflector'[p].at = "best"
      BY <1>3, <1>4
    <2>. QED
      BY <1>5, <2>1, <2>2 DEF Landing, SyncPlaces
  <1>. QED
    BY <1>6, <1>7, <1>8, <1>9, <1>10, <1>11 DEF RefInv

LEMMA FindsKeeps ==
    ASSUME ReflectionAssumption, RefInv, NEW p \in Proposers, FindsBest(p)
    PROVE  RefInv'
  <1>. DEFINE cands == {report[i].cand : i \in DOMAIN report} \ {0}
  <1>1. /\ reflector[p].at = "best" /\ proposal[p].at # "write"
        /\ UNCHANGED <<idVars, report, landed, inferred, unproposed, overtaken, slips>>
    BY DEF FindsBest, At, RefInv, CallAgrees
  <1>2. CASE Goes(p, "goals")
    <2>1. /\ reflector' \in [Proposers -> Reflectors] /\ reflector'[p].at = "goals"
          /\ \A q \in Proposers \ {p} : reflector'[q] = reflector[q]
      BY <1>2, GoesMoves DEF RefInv, ReflectorPlaces, SyncPlaces
    <2>2. CallAgrees(p)'
      BY <1>1, <2>1 DEF CallAgrees, idVars
    <2>. QED
      BY <1>1, <2>1, <2>2, QuietMove DEF SyncPlaces
  <1>3. CASE \E best \in cands :
                reflector' = [reflector EXCEPT ![p].at = "check", ![p].holds = best]
    <2>1. PICK best \in cands : reflector' = [reflector EXCEPT ![p].at = "check", ![p].holds = best]
      BY <1>3
    <2>2. PICK i \in DOMAIN report : report[i].cand = best
      OBVIOUS
    <2>3. best \in Nat
      BY <2>2, ReflectionFacts DEF RefInv, RefRowsOK
    <2>. DEFINE r == [reflector[p] EXCEPT !.at = "check", !.holds = best]
    <2>4. r \in Reflectors /\ r.at = "check" /\ r.holds = best /\ reflector' = [reflector EXCEPT ![p] = r]
      <3>1. r \in Reflectors /\ r.at = "check" /\ r.holds = best
        BY <2>3 DEF RefInv, RefRowsOK, Reflectors, ReflectorPlaces, SyncPlaces
      <3>2. reflector' = [reflector EXCEPT ![p] = r]
        BY <2>1
      <3>. QED
        BY <3>1, <3>2
    <2>. HIDE DEF r
    <2>5. /\ reflector' \in [Proposers -> Reflectors] /\ reflector'[p] = r
          /\ \A q \in Proposers \ {p} : reflector'[q] = reflector[q]
      BY <2>4, ReflectorMoves DEF RefInv
    <2>6. CallAgrees(p)'
      BY <1>1, <2>2, <2>4, <2>5 DEF CallAgrees, idVars
    <2>. QED
      BY <1>1, <2>4, <2>5, <2>6, QuietMove DEF SyncPlaces
  <1>. QED
    BY <1>2, <1>3 DEF FindsBest

\* The predicate is vacant: if what the sync holds is sure, its report had been
\* proposed, so a fact was invalidated, or it had not.
LEMMA ChecksKeeps ==
    ASSUME ReflectionAssumption, RefInv, NEW p \in Proposers, ChecksVacant(p)
    PROVE  RefInv'
  <1>1. /\ reflector[p].at = "check" /\ proposal[p].at # "write" /\ CallAgrees(p)
        /\ Goes(p, IF Vacant THEN "promote" ELSE "goals")
        /\ UNCHANGED <<idVars, report, landed, inferred, unproposed, overtaken, slips>>
    BY DEF ChecksVacant, At, RefInv, CallAgrees
  <1>. DEFINE place == IF Vacant THEN "promote" ELSE "goals"
  <1>2. /\ reflector' \in [Proposers -> Reflectors] /\ reflector'[p].at = place
        /\ reflector'[p].holds = reflector[p].holds
        /\ \A q \in Proposers \ {p} : reflector'[q] = reflector[q]
    BY <1>1, GoesMoves DEF RefInv, ReflectorPlaces, SyncPlaces
  <1>3. Vacant /\ reflector[p].holds >= Confident => unproposed # {} \/ dropped > 0
    <2>1. PICK i \in DOMAIN report : report[i].cand = reflector[p].holds
      BY <1>1 DEF CallAgrees
    <2>2. dropped \in Nat
      BY DEF RefInv, RefRowsOK
    <2>. QED
      BY <2>1, <2>2 DEF RefInv, ReportsProposed, FactsLast, Vacant
  <1>4. CallAgrees(p)'
    BY <1>1, <1>2, <1>3 DEF CallAgrees, idVars
  <1>. QED
    BY <1>1, <1>2, <1>4, QuietMove DEF SyncPlaces

LEMMA PromotesKeeps ==
    ASSUME ReflectionAssumption, RefInv, NEW p \in Proposers, Promotes(p)
    PROVE  RefInv'
  <1>1. reflector[p].at = "promote" /\ CallAgrees(p) /\ proposal[p].at # "write" /\ reflector[p].holds \in Nat
        /\ UNCHANGED <<report, landed, inferred, unproposed, overtaken, slips>>
    BY DEF Promotes, At, RefInv, CallAgrees, RefRowsOK, Reflectors
  <1>3. CASE ReadLive(p, reflector[p].holds) /\ Goes(p, "promoteWrite")
    <2>1. /\ reflector' \in [Proposers -> Reflectors] /\ reflector'[p].at = "promoteWrite"
          /\ reflector'[p].holds = reflector[p].holds
          /\ \A q \in Proposers \ {p} : reflector'[q] = reflector[q]
      BY <1>3, GoesMoves DEF RefInv, ReflectorPlaces, SyncPlaces
    <2>2. /\ proposal' \in [Proposers -> Inferring]
          /\ proposal'[p].at = "write" /\ proposal'[p].conf = reflector[p].holds
          /\ \A q \in Proposers \ {p} : proposal'[q] = proposal[q]
          /\ UNCHANGED <<fact, dropped>>
      BY <1>1, <1>3, ReadOpens DEF RefInv
    <2>3. RefRowsOK'
      BY <1>1, <2>1, <2>2 DEF RefInv, RefRowsOK
    <2>4. CallAgrees(p)'
      BY <1>1, <2>1, <2>2 DEF CallAgrees
    <2>5. \A q \in Proposers \ {p} : CallAgrees(q)'
      BY <1>1, <2>1, <2>2, OthersAgree DEF RefInv, RefRowsOK
    <2>6. FactsLast' /\ ReportsProposed' /\ InferredStaysHypothesis'
      BY <1>1, <2>2 DEF RefInv, FactsLast, ReportsProposed, InferredStaysHypothesis, Live
    <2>7. Landing'
      BY <1>1, <2>1 DEF RefInv, Landing, SyncPlaces
    <2>. QED
      BY <2>3, <2>4, <2>5, <2>6, <2>7 DEF RefInv
  <1>4. CASE NoChange(reflector[p].holds) /\ Goes(p, "goals")
    <2>1. /\ reflector' \in [Proposers -> Reflectors] /\ reflector'[p].at = "goals"
          /\ \A q \in Proposers \ {p} : reflector'[q] = reflector[q]
      BY <1>4, GoesMoves DEF RefInv, ReflectorPlaces, SyncPlaces
    <2>2. UNCHANGED idVars
      BY <1>4 DEF NoChange
    <2>3. CallAgrees(p)'
      BY <1>1, <2>1, <2>2 DEF CallAgrees, idVars
    <2>. QED
      BY <1>1, <2>1, <2>2, <2>3, QuietMove DEF SyncPlaces
  <1>. QED
    BY <1>3, <1>4 DEF Promotes

LEMMA ReadsKeeps ==
    ASSUME ReflectionAssumption, RefInv, NEW p \in Proposers, ReadsDelta(p)
    PROVE  RefInv'
  <1>1. /\ reflector[p].at = "goals" /\ proposal[p].at # "write" /\ Len(report) \in Nat
        /\ UNCHANGED <<idVars, report, landed, inferred, unproposed, overtaken, slips>>
    BY DEF ReadsDelta, At, RefInv, CallAgrees, RefRowsOK
  <1>2. PICK r \in Reflectors : /\ reflector' = [reflector EXCEPT ![p] = r]
                               /\ \/ r.at = "land" /\ r.holds = Len(report) /\ Len(report) \in DOMAIN report
                                  \/ r.at = "idle" /\ report = <<>>
    <2>1. CASE Newest # 0
      <3>. DEFINE r == [reflector[p] EXCEPT !.at = "land", !.holds = Newest]
      <3>1. r \in Reflectors /\ r.at = "land" /\ r.holds = Len(report)
        BY <1>1 DEF RefInv, RefRowsOK, Reflectors, ReflectorPlaces, SyncPlaces, Newest
      <3>3. Len(report) \in DOMAIN report
        BY <1>1, <2>1 DEF RefInv, RefRowsOK, Newest
      <3>2. reflector' = [reflector EXCEPT ![p] = r]
        BY <2>1 DEF ReadsDelta
      <3>. QED
        BY <3>1, <3>2, <3>3
    <2>2. CASE Newest = 0
      <3>1. reflector' = [reflector EXCEPT ![p] = NoReflection]
        BY <2>2 DEF ReadsDelta
      <3>2. report = <<>>
        BY <2>2 DEF Newest, RefInv, RefRowsOK
      <3>. QED
        BY <3>1, <3>2, ReflectionFacts
    <2>. QED
      BY <2>1, <2>2
  <1>3. /\ reflector' \in [Proposers -> Reflectors] /\ reflector'[p] = r
        /\ \A q \in Proposers \ {p} : reflector'[q] = reflector[q]
    BY <1>2, ReflectorMoves DEF RefInv
  <1>4. CallAgrees(p)'
    BY <1>1, <1>2, <1>3 DEF CallAgrees, idVars
  <1>. QED
    BY <1>1, <1>2, <1>3, <1>4, QuietMove DEF SyncPlaces

LEMMA LandsKeeps ==
    ASSUME ReflectionAssumption, RefInv, NEW p \in Proposers, Lands(p)
    PROVE  RefInv'
  <1>1. /\ reflector[p].at = "land" /\ landed' = reflector[p].holds
        /\ reflector' = [reflector EXCEPT ![p] = NoReflection]
        /\ UNCHANGED <<idVars, report, inferred, unproposed, overtaken, slips>>
        /\ proposal[p].at # "write" /\ reflector[p].holds \in 0..Len(report)
    BY DEF Lands, At, RefInv, CallAgrees, RefRowsOK
  <1>2. /\ reflector' \in [Proposers -> Reflectors] /\ reflector'[p].at = "idle"
        /\ \A q \in Proposers \ {p} : reflector'[q] = reflector[q]
    BY <1>1, ReflectionFacts, ReflectorMoves DEF RefInv
  <1>3. CallAgrees(p)'
    BY <1>1, <1>2 DEF CallAgrees, idVars
  <1>4. \A q \in Proposers \ {p} : CallAgrees(q)'
    BY <1>1, <1>2, OthersAgree DEF RefInv, RefRowsOK, idVars
  <1>5. RefRowsOK'
    BY <1>1, <1>2 DEF RefInv, RefRowsOK, idVars
  <1>6. FactsLast' /\ ReportsProposed' /\ InferredStaysHypothesis'
    BY <1>1 DEF RefInv, FactsLast, ReportsProposed, InferredStaysHypothesis, Live, idVars
  <1>7. Landing'
    BY <1>1, <1>2 DEF RefInv, Landing
  <1>. QED
    BY <1>3, <1>4, <1>5, <1>6, <1>7 DEF RefInv

LEMMA InvalidatesKeeps ==
    ASSUME ReflectionAssumption, RefInv, Invalidates
    PROVE  RefInv'
  <1>1. PICK i \in DOMAIN fact : Drop(i) /\ UNCHANGED reflectionVars
    BY DEF Invalidates
  <1>2. fact' \in InferredRows /\ DOMAIN fact' = DOMAIN fact /\ \A j \in DOMAIN fact : fact'[j].conf = fact[j].conf
    <2>. DEFINE row == [fact[i] EXCEPT !.live = FALSE]
    <2>1. fact[i] \in InferredRow /\ fact \in Seq(InferredRow)
      BY DEF RefInv, RefRowsOK, InferredRows
    <2>2. row \in InferredRow /\ row.conf = fact[i].conf
      BY <2>1 DEF InferredRow
    <2>3. fact' = [fact EXCEPT ![i] = row]
      BY <1>1 DEF Drop
    <2>. HIDE DEF row
    <2>4. fact' \in Seq(InferredRow) /\ DOMAIN fact' = DOMAIN fact
      BY <2>1, <2>2, <2>3
    <2>5. \A j \in DOMAIN fact : fact'[j] = IF j = i THEN row ELSE fact[j]
      BY <2>1, <2>3
    <2>. QED
      BY <2>2, <2>4, <2>5 DEF InferredRows
  <1>3. dropped' = dropped + 1 /\ dropped \in Nat /\ dropped' \in Nat /\ dropped' >= dropped
    BY <1>1 DEF Drop, RefInv, RefRowsOK
  <1>4. /\ UNCHANGED <<report, reflector, landed, inferred, unproposed, overtaken, slips>> /\ proposal' = proposal
        /\ (fact # <<>> => fact' # <<>>)
    BY <1>1, <1>2 DEF Drop, reflectionVars
  <1>5. RefRowsOK'
    BY <1>2, <1>3, <1>4 DEF RefInv, RefRowsOK
  <1>6. \A q \in Proposers : CallAgrees(q)'
    BY <1>3, <1>4, OthersAgree DEF RefInv, RefRowsOK
  <1>7. FactsLast' /\ ReportsProposed' /\ InferredStaysHypothesis'
    BY <1>2, <1>3, <1>4 DEF RefInv, FactsLast, ReportsProposed, InferredStaysHypothesis
  <1>8. Landing'
    BY <1>4 DEF RefInv, Landing
  <1>. QED
    BY <1>5, <1>6, <1>7, <1>8 DEF RefInv

\* Every step of the endpoints, and of whoever invalidates a fact.
LEMMA RefStep ==
    ASSUME ReflectionAssumption, RefInv, [RefNext]_refVars
    PROVE  RefInv'
  <1>1. ASSUME NEW p \in Proposers, NEW draft \in Drafts, Reflects(p, draft) PROVE RefInv'
    BY <1>1, ReflectsKeeps
  <1>2. ASSUME NEW p \in Proposers, NothingToReflect(p) \/ FindsBest(p) \/ ChecksVacant(p) PROVE RefInv'
    BY <1>2, NothingKeeps, FindsKeeps, ChecksKeeps
  <1>3. ASSUME NEW p \in Proposers, Proposes(p) \/ Promotes(p) PROVE RefInv'
    BY <1>3, ProposesKeeps, PromotesKeeps
  <1>4. ASSUME NEW p \in Proposers,
               WritesFact(p, "write", "report") \/ WritesFact(p, "promoteWrite", "goals")
        PROVE  RefInv'
    <2>1. CASE WritesFact(p, "write", "report")
      BY <2>1, WritesKeeps
    <2>2. CASE WritesFact(p, "promoteWrite", "goals")
      BY <2>2, WritesKeeps
    <2>. QED
      BY <1>4, <2>1, <2>2
  <1>5. ASSUME NEW p \in Proposers, ProposalFails(p) \/ CutShort(p) PROVE RefInv'
    BY <1>5, FailsKeeps, CutKeeps
  <1>6. ASSUME NEW p \in Proposers, StoresReport(p) \/ ReadsDelta(p) \/ Lands(p) PROVE RefInv'
    BY <1>6, StoresKeeps, ReadsKeeps, LandsKeeps
  <1>7. CASE UNCHANGED refVars
    <2>1. UNCHANGED <<fact, proposal, dropped, report, reflector, landed, inferred, unproposed, overtaken, slips>>
      BY <1>7 DEF refVars, idVars, reflectionVars
    <2>2. RefRowsOK' /\ \A p \in Proposers : CallAgrees(p)'
      BY <2>1, OthersAgree DEF RefInv, RefRowsOK
    <2>. QED
      BY <2>1, <2>2 DEF RefInv, FactsLast, ReportsProposed, InferredStaysHypothesis, Landing, Live
  <1>. QED
    BY <1>1, <1>2, <1>3, <1>4, <1>5, <1>6, <1>7, InvalidatesKeeps DEF RefNext

\* With every call at rest the newest report can only have landed.
LEMMA RefInvShows ==
    ASSUME RefInv
    PROVE  RefTypeOK /\ InferredStaysHypothesis /\ GoalShowsNewest
  <1>1. GoalShowsNewest
    BY DEF RefInv, Landing, GoalShowsNewest, At, SyncPlaces
  <1>2. RefTypeOK
    BY DEF RefInv, RefRowsOK, RefTypeOK
  <1>. QED
    BY <1>1, <1>2 DEF RefInv

\* What reflection infers stays a hypothesis but for a report it proposed nothing
\* of, or an invalidation, and a goal shows the newest report, for any callers,
\* reports, facts and failures (run_reflection, _sync_identity_from_reflection,
\* _sync_goals_from_reflection).
THEOREM ReflectionHolds ==
    ASSUME ReflectionAssumption
    PROVE  RefSpec => [](RefTypeOK /\ InferredStaysHypothesis /\ GoalShowsNewest)
  <1>1. RefInit => RefInv
    BY StartsReflection
  <1>2. RefInv /\ [RefNext]_refVars => RefInv'
    BY RefStep
  <1>. QED
    BY <1>1, <1>2, RefInvShows, PTL DEF RefSpec

-----------------------------------------------------------------------------
(* Why decisions, principles and their memories are recorded once, for any   *)
(* number of callers: a call that looked for a text and saw no insert of it   *)
(* since still finds none.  And why a sync mirrors what it read: each text is *)
(* still to be looked for, in hand, mirrored or failed.                       *)

Counts == [WisTables -> [Sayings -> Nat]]
ThinkerPlaces == {"idle", "embeds"} \cup WisTables
ThinkerStates == [at : ThinkerPlaces, todo : SUBSET Sayings, read : SUBSET Sayings,
                  text : Sayings \cup {""}, saw : Nat, fell : BOOLEAN]

WisRowsOK ==
    /\ held \in Counts /\ made \in Counts /\ crossings \in Counts
    /\ bare \subseteq Sayings \X (1..MaxMade) /\ failed \subseteq Sayings
    /\ thinker \in [Thinkers -> ThinkerStates]

\* What a call has in hand is missing from its table unless it was inserted since,
\* and what it has mirrored without its embedding is there.
Looked(k) ==
    /\ thinker[k].at = "idle" => thinker[k].todo = {} /\ thinker[k].text = ""
    /\ thinker[k].at = "embeds" => thinker[k].text # "" /\ thinker[k].text \in HeldIn("memories")
    /\ thinker[k].text # "" /\ thinker[k].at \in WisTables =>
          /\ thinker[k].saw <= made[thinker[k].at][thinker[k].text]
          /\ thinker[k].saw = made[thinker[k].at][thinker[k].text] =>
                held[thinker[k].at][thinker[k].text] = 0

\* MirrorsComplete, of one sync and of one memory.
SyncComplete(k) ==
    thinker[k].at \in {"memories", "embeds"} =>
        thinker[k].read \ (thinker[k].todo \cup {thinker[k].text}) \subseteq HeldIn("memories") \cup failed
Embedding(k, b) == thinker[k].at = "embeds" /\ <<thinker[k].text, thinker[k].saw>> = b
BareExcused(b) == b[1] \in failed \/ \E k \in Thinkers : Embedding(k, b)

WisInv ==
    /\ WisRowsOK /\ SaidOnce
    /\ \A k \in Thinkers : Looked(k) /\ SyncComplete(k)
    /\ \A b \in bare : BareExcused(b)

\* One more of one text in one table.
OneMore(f, t, x) == [f EXCEPT ![t][x] = @ + 1]

LEMMA CountUp ==
    ASSUME NEW f \in Counts, NEW t \in WisTables, NEW x \in Sayings
    PROVE  /\ OneMore(f, t, x) \in Counts /\ OneMore(f, t, x)[t][x] = f[t][x] + 1
           /\ \A s \in WisTables, y \in Sayings : <<s, y>> # <<t, x>> => OneMore(f, t, x)[s][y] = f[s][y]
  <1>. DEFINE h == [f[t] EXCEPT ![x] = f[t][x] + 1]
              g == OneMore(f, t, x)
  <1>1. f[t] \in [Sayings -> Nat] /\ f[t][x] \in Nat
    BY DEF Counts
  <1>2. h \in [Sayings -> Nat] /\ h[x] = f[t][x] + 1 /\ \A y \in Sayings : y # x => h[y] = f[t][y]
    BY <1>1
  <1>3. g = [f EXCEPT ![t] = h]
    BY <1>1 DEF OneMore
  <1>. HIDE DEF h, g
  <1>4. g \in Counts /\ g[t] = h /\ \A s \in WisTables : s # t => g[s] = f[s]
    BY <1>2, <1>3 DEF Counts
  <1>5. \A s \in WisTables, y \in Sayings : <<s, y>> # <<t, x>> => g[s][y] = f[s][y]
    BY <1>2, <1>4
  <1>7. g \in Counts /\ g[t][x] = f[t][x] + 1
    BY <1>2, <1>4
  <1>. QED
    BY <1>5, <1>7 DEF g

LEMMA CountsAre ==
    ASSUME NEW f \in Counts
    PROVE  \A t \in WisTables, x \in Sayings : f[t][x] \in Nat /\ f[t][x] <= f[t][x]
  <1>1. \A t \in WisTables, x \in Sayings : f[t][x] \in Nat
    BY DEF Counts
  <1>. QED
    BY <1>1

LEMMA ThinkerMoves ==
    ASSUME WisRowsOK, NEW k \in Thinkers, NEW r \in ThinkerStates,
           thinker' = [thinker EXCEPT ![k] = r]
    PROVE  /\ thinker' \in [Thinkers -> ThinkerStates]
           /\ thinker'[k] = r /\ \A q \in Thinkers \ {k} : thinker'[q] = thinker[q]
  BY DEF WisRowsOK

LEMMA AwayIs ==
    /\ Away \in ThinkerStates /\ Away.at = "idle" /\ Away.todo = {} /\ Away.read = {} /\ Away.text = ""
  BY DEF Away, ThinkerStates, ThinkerPlaces

LEMMA StartsWisdom ==
    ASSUME WisdomAssumption, WisInit
    PROVE  WisInv
  <1>1. None \in Counts /\ \A t \in WisTables, x \in Sayings : None[t][x] = 0
    BY DEF None, Counts
  <1>2. WisRowsOK
    BY <1>1, AwayIs DEF WisInit, WisRowsOK
  <1>3. SaidOnce
    BY <1>1 DEF WisInit, SaidOnce
  <1>4. \A k \in Thinkers : Looked(k) /\ SyncComplete(k)
    BY AwayIs DEF WisInit, Looked, SyncComplete, WisTables
  <1>. QED
    BY <1>2, <1>3, <1>4 DEF WisInit, WisInv

\* A call that did not move: what others insert or fail, and a refresh, leave it
\* what it knows.
LEMMA OthersLooked ==
    ASSUME WisInv, NEW q \in Thinkers, thinker'[q] = thinker[q], made' \in Counts, held' \in Counts,
           \A t \in WisTables, x \in Sayings :
              \/ made'[t][x] > made[t][x]
              \/ made'[t][x] = made[t][x] /\ held'[t][x] <= held[t][x],
           HeldIn("memories") \subseteq HeldIn("memories")', failed \subseteq failed'
    PROVE  Looked(q)' /\ SyncComplete(q)'
  <1>1. Looked(q) /\ SyncComplete(q) /\ thinker[q] \in ThinkerStates /\ made \in Counts /\ held \in Counts
    BY DEF WisInv, WisRowsOK
  <1>2. SyncComplete(q)'
    BY <1>1 DEF SyncComplete
  <1>3. Looked(q)'
    <2>1. ASSUME thinker[q].text # "", thinker[q].at \in WisTables
          PROVE  /\ thinker[q].saw <= made'[thinker[q].at][thinker[q].text]
                 /\ thinker[q].saw = made'[thinker[q].at][thinker[q].text] =>
                       held'[thinker[q].at][thinker[q].text] = 0
      <3>. DEFINE t == thinker[q].at
                  x == thinker[q].text
                  n == thinker[q].saw
      <3>1. t \in WisTables /\ x \in Sayings /\ n \in Nat
        BY <1>1, <2>1 DEF ThinkerStates
      <3>2. made[t][x] \in Nat /\ made'[t][x] \in Nat /\ held[t][x] \in Nat /\ held'[t][x] \in Nat
        BY <1>1, <3>1 DEF Counts
      <3>3. n <= made[t][x] /\ (n = made[t][x] => held[t][x] = 0)
        BY <1>1, <2>1 DEF Looked
      <3>. QED
        BY <3>1, <3>2, <3>3
    <2>. QED
      BY <1>1, <2>1 DEF Looked
  <1>. QED
    BY <1>2, <1>3

\* A step of one call that inserts nothing.
LEMMA CallMoves ==
    ASSUME WisInv, NEW k \in Thinkers, NEW r \in ThinkerStates, thinker' = [thinker EXCEPT ![k] = r],
           UNCHANGED <<held, made, crossings>>, failed \subseteq failed', failed' \subseteq Sayings,
           bare' \subseteq bare,
           r.at = "idle" => r.todo = {} /\ r.text = "",
           r.at = "embeds" => r.text # "" /\ r.text \in HeldIn("memories"),
           r.text # "" /\ r.at \in WisTables => r.saw = made[r.at][r.text] /\ held[r.at][r.text] = 0,
           r.at \in {"memories", "embeds"} =>
               r.read \ (r.todo \cup {r.text}) \subseteq HeldIn("memories") \cup failed',
           \A b \in bare' : Embedding(k, b) => b[1] \in failed'
    PROVE  WisInv'
  <1>1. /\ thinker' \in [Thinkers -> ThinkerStates]
        /\ thinker'[k] = r /\ \A q \in Thinkers \ {k} : thinker'[q] = thinker[q]
    BY ThinkerMoves DEF WisInv
  <1>2. WisRowsOK' /\ SaidOnce'
    BY <1>1 DEF WisInv, WisRowsOK, SaidOnce
  <1>3. \A q \in Thinkers \ {k} : Looked(q)' /\ SyncComplete(q)'
    <2>1. \A t \in WisTables, x \in Sayings : made'[t][x] = made[t][x] /\ held'[t][x] <= held[t][x]
      <3>1. held' = held /\ made' = made /\ held \in Counts
        BY DEF WisInv, WisRowsOK
      <3>. QED
        BY <3>1, CountsAre
    <2>. QED
      BY <1>1, <2>1, OthersLooked DEF WisInv, WisRowsOK, HeldIn
  <1>4. Looked(k)'
    <2>1. r.text # "" /\ r.at \in WisTables => r.saw <= made[r.at][r.text]
      <3>1. ASSUME r.text # "", r.at \in WisTables PROVE made[r.at][r.text] <= made[r.at][r.text]
        BY <3>1, CountsAre DEF WisInv, WisRowsOK, ThinkerStates
      <3>. QED
        BY <3>1
    <2>. QED
      BY <1>1, <2>1 DEF Looked, HeldIn
  <1>5. SyncComplete(k)'
    BY <1>1 DEF SyncComplete, HeldIn
  <1>6. ASSUME NEW b \in bare' PROVE BareExcused(b)'
    <2>1. b[1] \in failed \/ \E q \in Thinkers : Embedding(q, b)
      BY <1>6 DEF WisInv, BareExcused
    <2>2. CASE b[1] \in failed
      BY <2>2 DEF BareExcused
    <2>3. ASSUME NEW q \in Thinkers, Embedding(q, b) PROVE BareExcused(b)'
      <3>1. CASE q = k
        BY <1>6, <2>3, <3>1 DEF BareExcused
      <3>2. CASE q # k
        BY <1>1, <2>3, <3>2 DEF BareExcused, Embedding
      <3>. QED
        BY <3>1, <3>2
    <2>. QED
      BY <2>1, <2>2, <2>3
  <1>. QED
    BY <1>2, <1>3, <1>4, <1>5, <1>6 DEF WisInv

\* A call turns to a table with texts to look for, and nothing in hand.
LEMMA TurnKeeps ==
    ASSUME WisInv, NEW k \in Thinkers, NEW r \in ThinkerStates, thinker' = [thinker EXCEPT ![k] = r],
           UNCHANGED <<held, made, crossings, bare, failed>>,
           r.at \in WisTables, r.read = r.todo, r.text = "", thinker[k].at # "embeds"
    PROVE  WisInv'
  <1>1. failed \subseteq Sayings /\ \A b \in bare : ~Embedding(k, b)
    BY DEF WisInv, WisRowsOK, Embedding
  <1>2. r.at # "idle" /\ r.at # "embeds"
    BY DEF WisTables
  <1>. QED
    BY <1>1, <1>2, CallMoves

LEMMA TurningKeeps ==
    ASSUME WisInv, NEW k \in Thinkers, Audits(k) \/ FallsBack(k) \/ Distills(k) \/ Mirrors(k)
    PROVE  WisInv'
  <1>1. ASSUME NEW texts \in SUBSET Sayings, NEW fell \in BOOLEAN,
               thinker[k].at # "embeds", UNCHANGED <<held, made, crossings, bare, failed>>,
               thinker' = [thinker EXCEPT ![k] =
                  [Away EXCEPT !.at = "audits", !.todo = texts, !.read = texts, !.fell = fell]]
        PROVE  WisInv'
    <2>. DEFINE r == [Away EXCEPT !.at = "audits", !.todo = texts, !.read = texts, !.fell = fell]
    <2>1. r \in ThinkerStates /\ r.at \in WisTables /\ r.read = r.todo /\ r.text = ""
      BY DEF Away, ThinkerStates, ThinkerPlaces, WisTables
    <2>2. thinker' = [thinker EXCEPT ![k] = r]
      BY <1>1
    <2>. HIDE DEF r
    <2>. QED
      BY <1>1, <2>1, <2>2, TurnKeeps
  <1>2. ASSUME NEW table \in WisTables, NEW texts \in SUBSET Sayings, thinker[k].at # "embeds",
               UNCHANGED <<held, made, crossings, bare, failed>>, Turns(k, table, texts)
        PROVE  WisInv'
    <2>. DEFINE r == [Away EXCEPT !.at = table, !.todo = texts, !.read = texts]
    <2>1. r \in ThinkerStates /\ r.at \in WisTables /\ r.read = r.todo /\ r.text = ""
      BY DEF Away, ThinkerStates, ThinkerPlaces
    <2>2. thinker' = [thinker EXCEPT ![k] = r]
      BY <1>2 DEF Turns
    <2>. HIDE DEF r
    <2>. QED
      BY <1>2, <2>1, <2>2, TurnKeeps
  <1>3. "principles" \in WisTables /\ "memories" \in WisTables
    BY DEF WisTables
  <1>4. CASE Audits(k)
    BY <1>1, <1>4 DEF Audits
  <1>5. CASE FallsBack(k)
    <2>1. TRUE \in BOOLEAN
      OBVIOUS
    <2>. QED
      BY <1>1, <1>5, <2>1 DEF FallsBack
  <1>6. CASE Distills(k)
    <2>1. PICK texts \in SUBSET Sayings : Turns(k, "principles", texts)
      BY <1>6 DEF Distills
    <2>. QED
      BY <1>2, <1>3, <1>6, <2>1 DEF Distills, Idles
  <1>7. CASE Mirrors(k)
    <2>1. HeldIn("principles") \in SUBSET Sayings
      BY DEF HeldIn
    <2>. QED
      BY <1>2, <1>3, <1>7, <2>1 DEF Mirrors, Idles
  <1>. QED
    BY <1>4, <1>5, <1>6, <1>7

LEMMA LooksKeeps ==
    ASSUME WisdomAssumption, WisInv, NEW k \in Thinkers, NEW x \in thinker[k].todo, LooksFor(k, x)
    PROVE  WisInv'
  <1>. DEFINE table == thinker[k].at
              text == IF Present(table, x) THEN "" ELSE x
              r == [thinker[k] EXCEPT !.todo = @ \ {x}, !.text = text, !.saw = made[table][x]]
  <1>1. thinker[k] \in ThinkerStates /\ Looked(k) /\ SyncComplete(k) /\ thinker[k].text = ""
        /\ UNCHANGED <<held, made, crossings, bare, failed>> /\ failed \subseteq Sayings
    BY DEF WisInv, WisRowsOK, LooksFor
  <1>2. table \in WisTables /\ x \in Sayings /\ x # ""
    BY <1>1 DEF Looked, ThinkerStates, ThinkerPlaces, WisdomAssumption
  <1>3. made[table][x] \in Nat /\ held[table][x] \in Nat
    BY <1>2 DEF WisInv, WisRowsOK, Counts
  <1>4. thinker' = [thinker EXCEPT ![k] = r]
    BY DEF LooksFor
  <1>5. r \in ThinkerStates /\ r.at = table /\ r.todo = thinker[k].todo \ {x} /\ r.read = thinker[k].read
        /\ r.text = text /\ r.saw = made[table][x]
    BY <1>1, <1>2, <1>3 DEF ThinkerStates
  <1>. HIDE DEF r
  <1>9. text = "" => held[table][x] > 0
    BY <1>2 DEF Present
  <1>10. text # "" => text = x /\ held[table][x] = 0
    <2>1. text # "" => text = x /\ ~(held[table][x] > 0)
      BY DEF Present
    <2>2. ~(held[table][x] > 0) => held[table][x] = 0
      BY <1>3
    <2>. QED
      BY <2>1, <2>2
  <1>. HIDE DEF text
  <1>6. r.text # "" => r.text = x /\ held[r.at][r.text] = 0 /\ r.saw = made[r.at][r.text]
    BY <1>5, <1>10
  <1>7. r.at \in {"memories", "embeds"} =>
          r.read \ (r.todo \cup {r.text}) \subseteq HeldIn("memories") \cup failed
    <2>1. text = "" => x \in HeldIn(table)
      BY <1>2, <1>9 DEF HeldIn
    <2>3. text = "" \/ text = x
      BY <1>10
    <2>2. table # "embeds"
      BY <1>2 DEF WisTables
    <2>. SUFFICES ASSUME table = "memories", NEW y \in thinker[k].read, y \notin thinker[k].todo \ {x}, y # text
                  PROVE  y \in HeldIn("memories") \cup failed
      BY <1>5, <2>2
    <2>4. CASE y = x
      BY <2>1, <2>3, <2>4
    <2>5. CASE y # x
      <3>1. y \notin thinker[k].todo /\ (thinker[k].text = "" => y # thinker[k].text \/ y = "")
        BY <2>5
      <3>2. thinker[k].read \subseteq Sayings
        BY <1>1 DEF ThinkerStates
      <3>3. y # ""
        BY <3>2 DEF WisdomAssumption
      <3>. QED
        BY <1>1, <3>1, <3>3 DEF SyncComplete
    <2>. QED
      BY <2>4, <2>5
  <1>8. r.at # "idle" /\ r.at # "embeds" /\ \A b \in bare : ~Embedding(k, b)
    BY <1>2, <1>5 DEF WisTables, Embedding
  <1>. QED
    BY <1>1, <1>4, <1>5, <1>6, <1>7, <1>8, CallMoves

LEMMA EndsKeep ==
    ASSUME WisInv, NEW k \in Thinkers, Stops(k) \/ Replies(k)
    PROVE  WisInv'
  <1>1. /\ UNCHANGED <<held, made, crossings, bare>> /\ thinker' = [thinker EXCEPT ![k] = Away]
        /\ failed \subseteq failed' /\ failed' \subseteq failed \cup {thinker[k].text}
        /\ thinker[k].at = "embeds" => thinker[k].text \in failed'
    BY DEF Stops, Replies, Idles
  <1>2. failed' \subseteq Sayings
    <2>1. Looked(k) /\ thinker[k] \in ThinkerStates /\ failed \subseteq Sayings
      BY DEF WisInv, WisRowsOK
    <2>2. thinker[k].at = "embeds" => thinker[k].text \in Sayings
      BY <2>1 DEF Looked, HeldIn
    <2>3. failed' = failed \/ thinker[k].at = "embeds"
      BY DEF Stops, Replies
    <2>. QED
      BY <1>1, <2>1, <2>2, <2>3
  <1>3. \A b \in bare : Embedding(k, b) => b[1] \in failed'
    BY <1>1 DEF Embedding
  <1>. QED
    BY <1>1, <1>2, <1>3, AwayIs, CallMoves

\* The embedding is written, or the principle counts as skipped.
LEMMA MirroredKeeps ==
    ASSUME WisInv, NEW k \in Thinkers, Embeds(k) \/ Skips(k)
    PROVE  WisInv'
  <1>. DEFINE r == [thinker[k] EXCEPT !.at = "memories", !.text = ""]
  <1>1. thinker[k] \in ThinkerStates /\ Looked(k) /\ SyncComplete(k) /\ failed \subseteq Sayings
        /\ thinker[k].at \in {"memories", "embeds"}
    BY DEF WisInv, WisRowsOK, Embeds, Skips
  <1>2. thinker' = [thinker EXCEPT ![k] = r] /\ UNCHANGED <<held, made, crossings>>
        /\ failed \subseteq failed' /\ bare' \subseteq bare
    BY DEF Embeds, Skips
  <1>3. r \in ThinkerStates /\ r.at = "memories" /\ r.text = "" /\ r.read = thinker[k].read
        /\ r.todo = thinker[k].todo
    BY <1>1 DEF ThinkerStates, ThinkerPlaces, WisTables
  <1>. HIDE DEF r
  <1>4. thinker[k].text \in HeldIn("memories") \cup failed'
    BY <1>1 DEF Looked, Embeds, Skips
  <1>5. failed' \subseteq Sayings
    BY <1>1 DEF Embeds, Skips, ThinkerStates
  <1>6. r.read \ (r.todo \cup {r.text}) \subseteq HeldIn("memories") \cup failed'
    BY <1>1, <1>2, <1>3, <1>4 DEF SyncComplete
  <1>7. \A b \in bare' : Embedding(k, b) => b[1] \in failed'
    <2>1. CASE Embeds(k)
      BY <2>1 DEF Embeds, Embedding
    <2>2. ASSUME Skips(k), NEW b \in bare', Embedding(k, b) PROVE b[1] \in failed'
      <3>1. b[1] = thinker[k].text
        BY <2>2 DEF Embedding
      <3>. QED
        BY <2>2, <3>1 DEF Skips
    <2>. QED
      BY <2>1, <2>2
  <1>. QED
    BY <1>2, <1>3, <1>5, <1>6, <1>7, CallMoves

LEMMA RefreshesKeep ==
    ASSUME WisInv, Refreshes
    PROVE  WisInv'
  <1>1. UNCHANGED <<bare, thinker, made, crossings, failed>>
        /\ held' = [held EXCEPT !["audits"] = None["audits"], !["principles"] = None["principles"]]
        /\ held \in Counts /\ made \in Counts /\ crossings \in Counts
    BY DEF Refreshes, WisInv, WisRowsOK
  <1>2. None \in Counts /\ \A t \in WisTables, x \in Sayings : None[t][x] = 0
    BY DEF None, Counts
  <1>3. held' \in Counts /\ held'["memories"] = held["memories"]
        /\ \A t \in WisTables, x \in Sayings : held'[t][x] = held[t][x] \/ held'[t][x] = 0
    BY <1>1, <1>2 DEF Counts, WisTables
  <1>4. \A t \in WisTables, x \in Sayings : held'[t][x] <= held[t][x]
    <2>1. \A t \in WisTables, x \in Sayings : held[t][x] \in Nat
      BY <1>1 DEF Counts
    <2>. QED
      BY <1>3, <2>1
  <1>5. HeldIn("memories")' = HeldIn("memories")
    BY <1>3 DEF HeldIn
  <1>6. \A q \in Thinkers : Looked(q)' /\ SyncComplete(q)'
    BY <1>1, <1>3, <1>4, <1>5, OthersLooked
  <1>7. SaidOnce'
    <2>. SUFFICES ASSUME NEW t \in WisTables, NEW x \in Sayings PROVE held'[t][x] <= 1 + crossings[t][x]
      BY <1>1 DEF SaidOnce
    <2>1. crossings[t][x] \in Nat
      BY <1>1, CountsAre
    <2>2. held[t][x] <= 1 + crossings[t][x]
      BY DEF WisInv, SaidOnce
    <2>3. held'[t][x] = held[t][x] \/ held'[t][x] = 0
      BY <1>3
    <2>. QED
      BY <2>1, <2>2, <2>3
  <1>8. WisRowsOK' /\ \A b \in bare' : BareExcused(b)'
    BY <1>1, <1>3 DEF WisInv, WisRowsOK, BareExcused, Embedding
  <1>. QED
    BY <1>6, <1>7, <1>8 DEF WisInv

\* An insert: the first of its text, or one that another's insert preceded.
LEMMA RecordsKeep ==
    ASSUME WisdomAssumption, WisInv, NEW k \in Thinkers, Records(k)
    PROVE  WisInv'
  <1>. DEFINE x == thinker[k].text
              t == thinker[k].at
              n == made[t][x] + 1
              r == IF t = "memories" THEN [thinker[k] EXCEPT !.at = "embeds", !.saw = n]
                   ELSE [thinker[k] EXCEPT !.text = ""]
  <1>1. thinker[k] \in ThinkerStates /\ Looked(k) /\ SyncComplete(k) /\ x # "" /\ t \in WisTables /\ x \in Sayings
        /\ held \in Counts /\ made \in Counts /\ crossings \in Counts /\ thinker[k].saw \in Nat
    BY DEF WisInv, WisRowsOK, Records, ThinkerStates
  <1>2. held[t][x] \in Nat /\ made[t][x] \in Nat /\ crossings[t][x] \in Nat
    BY <1>1 DEF Counts
  <1>3. /\ held' = [held EXCEPT ![t][x] = @ + 1] /\ made' = [made EXCEPT ![t][x] = @ + 1]
        /\ made[t][x] < MaxMade /\ UNCHANGED <<failed, upsets>> /\ n = made[t][x] + 1
    BY DEF Records
  <1>18. /\ crossings' = IF made[t][x] > thinker[k].saw THEN [crossings EXCEPT ![t][x] = @ + 1] ELSE crossings
         /\ bare' = IF t = "memories" THEN bare \cup {<<x, made'[t][x]>>} ELSE bare
         /\ \/ t = "memories" /\ thinker' = [thinker EXCEPT ![k].at = "embeds", ![k].saw = made'[t][x]]
            \/ t # "memories" /\ thinker' = [thinker EXCEPT ![k].text = ""]
    BY DEF Records
  <1>19. x = thinker[k].text /\ t = thinker[k].at
    OBVIOUS
  <1>. HIDE DEF x, t, n, r
  <1>20. t \in WisTables /\ x \in Sayings /\ held \in Counts /\ made \in Counts /\ crossings \in Counts
    BY <1>1
  <1>21. held' = OneMore(held, t, x) /\ made' = OneMore(made, t, x) /\ n = made[t][x] + 1
    BY <1>3 DEF OneMore
  <1>4. /\ held' \in Counts /\ held'[t][x] = held[t][x] + 1
        /\ \A s \in WisTables, y \in Sayings : <<s, y>> # <<t, x>> => held'[s][y] = held[s][y]
        /\ \A s \in WisTables, y \in Sayings : held'[s][y] >= held[s][y]
    <2>1. held' \in Counts /\ held'[t][x] = held[t][x] + 1
      BY <1>20, <1>21, CountUp
    <2>2. \A s \in WisTables, y \in Sayings : <<s, y>> # <<t, x>> => held'[s][y] = held[s][y]
      BY <1>20, <1>21, CountUp
    <2>3. \A s \in WisTables, y \in Sayings : held'[s][y] >= held[s][y]
      <3>1. ASSUME NEW s \in WisTables, NEW y \in Sayings PROVE held'[s][y] >= held[s][y]
        <4>1. held[s][y] \in Nat
          BY <1>20, CountsAre
        <4>2. CASE s = t /\ y = x
          BY <2>1, <4>1, <4>2
        <4>3. CASE ~(s = t /\ y = x)
          BY <2>2, <4>1, <4>3
        <4>. QED
          BY <4>2, <4>3
      <3>. QED
        BY <3>1
    <2>. QED
      BY <2>1, <2>2, <2>3
  <1>5. /\ made' \in Counts /\ made'[t][x] = n
        /\ \A s \in WisTables, y \in Sayings : <<s, y>> # <<t, x>> => made'[s][y] = made[s][y]
    BY <1>20, <1>21, CountUp
  <1>6. /\ crossings' \in Counts
        /\ \A s \in WisTables, y \in Sayings : <<s, y>> # <<t, x>> => crossings'[s][y] = crossings[s][y]
        /\ crossings'[t][x] = IF made[t][x] > thinker[k].saw THEN crossings[t][x] + 1 ELSE crossings[t][x]
    <2>1. CASE made[t][x] > thinker[k].saw
      <3>1. crossings' = OneMore(crossings, t, x)
        BY <1>18, <2>1 DEF OneMore
      <3>. QED
        BY <1>20, <2>1, <3>1, CountUp
    <2>2. CASE ~(made[t][x] > thinker[k].saw)
      BY <1>1, <1>18, <2>2
    <2>. QED
      BY <2>1, <2>2
  <1>7. SaidOnce'
    <2>1. held'[t][x] <= 1 + crossings'[t][x]
      <3>1. held[t][x] <= 1 + crossings[t][x] /\ thinker[k].saw <= made[t][x]
            /\ (thinker[k].saw = made[t][x] => held[t][x] = 0)
        BY <1>1, <1>19 DEF WisInv, SaidOnce, Looked
      <3>2. thinker[k].saw \in Nat
        BY <1>1
      <3>. QED
        BY <1>2, <1>4, <1>6, <3>1, <3>2
    <2>2. \A s \in WisTables, y \in Sayings : <<s, y>> # <<t, x>> => held'[s][y] <= 1 + crossings'[s][y]
      BY <1>4, <1>6 DEF WisInv, SaidOnce
    <2>. QED
      BY <2>1, <2>2 DEF SaidOnce
  <1>8. r \in ThinkerStates /\ thinker' = [thinker EXCEPT ![k] = r]
    <2>1. CASE t = "memories"
      <3>1. r = [thinker[k] EXCEPT !.at = "embeds", !.saw = n] /\ n \in Nat
        BY <1>2, <1>3, <2>1 DEF r
      <3>2. r \in ThinkerStates
        BY <1>1, <3>1 DEF ThinkerStates, ThinkerPlaces
      <3>3. thinker' = [thinker EXCEPT ![k] = r]
        BY <1>5, <1>18, <2>1, <3>1
      <3>. QED
        BY <3>2, <3>3
    <2>2. CASE t # "memories"
      <3>1. r = [thinker[k] EXCEPT !.text = ""] /\ thinker' = [thinker EXCEPT ![k].text = ""]
        BY <1>18, <2>2 DEF r
      <3>. QED
        BY <1>1, <3>1 DEF ThinkerStates
    <2>. QED
      BY <2>1, <2>2
  <1>9. r.read = thinker[k].read /\ r.todo = thinker[k].todo /\ r.at # "idle"
        /\ (t # "memories" => r.text = "" /\ r.at = t)
        /\ (t = "memories" => r.text = x /\ r.at = "embeds" /\ r.saw = n)
    BY <1>1, <1>19 DEF ThinkerStates, WisTables, r
  <1>10. /\ thinker' \in [Thinkers -> ThinkerStates]
         /\ thinker'[k] = r /\ \A q \in Thinkers \ {k} : thinker'[q] = thinker[q]
    BY <1>8, ThinkerMoves DEF WisInv
  <1>11. /\ HeldIn("memories") \subseteq HeldIn("memories")'
         /\ t = "memories" => x \in HeldIn("memories")'
    <2>1. "memories" \in WisTables
      BY DEF WisTables
    <2>2. \A y \in Sayings : held["memories"][y] \in Nat /\ held'["memories"][y] \in Nat
      BY <1>1, <1>4, <2>1 DEF Counts
    <2>. QED
      <3>1. HeldIn("memories") \subseteq HeldIn("memories")'
        <4>1. \A y \in Sayings : held["memories"][y] > 0 => held'["memories"][y] > 0
          BY <1>4, <2>1, <2>2
        <4>. QED
          BY <4>1 DEF HeldIn
      <3>2. held'[t][x] > 0
        BY <1>2, <1>4
      <3>. QED
        BY <1>1, <3>1, <3>2 DEF HeldIn
  <1>12. \A q \in Thinkers \ {k} : Looked(q)' /\ SyncComplete(q)'
    <2>1. \A s \in WisTables, y \in Sayings :
              \/ made'[s][y] > made[s][y]
              \/ made'[s][y] = made[s][y] /\ held'[s][y] <= held[s][y]
      <3>1. \A s \in WisTables, y \in Sayings : held[s][y] <= held[s][y]
        BY <1>1, CountsAre
      <3>2. made'[t][x] > made[t][x]
        BY <1>2, <1>3, <1>5
      <3>. QED
        BY <1>4, <1>5, <3>1, <3>2
    <2>. QED
      BY <1>3, <1>4, <1>5, <1>10, <1>11, <2>1, OthersLooked
  <1>13. Looked(k)'
    BY <1>1, <1>9, <1>10, <1>11 DEF Looked, WisTables
  <1>14. SyncComplete(k)'
    <2>1. CASE t = "memories"
      <3>1. thinker[k].read \ (thinker[k].todo \cup {x}) \subseteq HeldIn("memories") \cup failed
        BY <1>1, <1>19, <2>1 DEF SyncComplete
      <3>2. thinker'[k].read = thinker[k].read /\ thinker'[k].todo = thinker[k].todo /\ thinker'[k].text = x
        BY <1>9, <1>10, <2>1
      <3>. QED
        BY <1>3, <1>11, <3>1, <3>2 DEF SyncComplete
    <2>2. CASE t # "memories"
      <3>1. thinker'[k].at = t /\ t # "embeds"
        BY <1>1, <1>9, <1>10, <2>2 DEF WisTables
      <3>. QED
        BY <2>2, <3>1 DEF SyncComplete
    <2>. QED
      BY <2>1, <2>2
  <1>15. bare' = IF t = "memories" THEN bare \cup {<<x, n>>} ELSE bare
    BY <1>5, <1>18
  <1>16. WisRowsOK'
    <2>1. t = "memories" => <<x, n>> \in Sayings \X (1..MaxMade)
      <3>1. n \in 1..MaxMade
        <4>1. MaxMade \in Nat
          BY DEF WisdomAssumption
        <4>2. made[t][x] < MaxMade /\ n = made[t][x] + 1
          BY <1>3
        <4>. QED
          BY <1>2, <4>1, <4>2
      <3>. QED
        BY <1>1, <3>1
    <2>2. bare' \subseteq Sayings \X (1..MaxMade)
      BY <1>15, <2>1 DEF WisInv, WisRowsOK
    <2>. QED
      BY <1>3, <1>4, <1>5, <1>6, <1>10, <2>2 DEF WisInv, WisRowsOK
  <1>17. ASSUME NEW b \in bare' PROVE BareExcused(b)'
    <2>1. CASE b = <<x, n>> /\ t = "memories"
      BY <1>9, <1>10, <2>1 DEF BareExcused, Embedding
    <2>2. CASE b \in bare
      <3>1. b[1] \in failed \/ \E q \in Thinkers : Embedding(q, b)
        BY <2>2 DEF WisInv, BareExcused
      <3>2. ASSUME NEW q \in Thinkers, Embedding(q, b) PROVE Embedding(q, b)'
        <4>1. q # k
          BY <1>1, <1>19, <3>2 DEF Embedding, WisTables
        <4>. QED
          BY <1>10, <3>2, <4>1 DEF Embedding
      <3>. QED
        BY <1>3, <3>1, <3>2 DEF BareExcused
    <2>. QED
      BY <1>15, <1>17, <2>1, <2>2
  <1>. QED
    BY <1>7, <1>12, <1>13, <1>14, <1>16, <1>17 DEF WisInv

LEMMA WisStep ==
    ASSUME WisdomAssumption, WisInv, [WisNext]_wisVars
    PROVE  WisInv'
  <1>1. ASSUME NEW k \in Thinkers, Audits(k) \/ FallsBack(k) \/ Distills(k) \/ Mirrors(k) PROVE WisInv'
    BY <1>1, TurningKeeps
  <1>2. ASSUME NEW k \in Thinkers, NEW x \in thinker[k].todo, LooksFor(k, x) PROVE WisInv'
    BY <1>2, LooksKeeps
  <1>3. ASSUME NEW k \in Thinkers, Records(k) PROVE WisInv'
    BY <1>3, RecordsKeep
  <1>4. ASSUME NEW k \in Thinkers, Stops(k) \/ Replies(k) \/ Embeds(k) \/ Skips(k) PROVE WisInv'
    BY <1>4, EndsKeep, MirroredKeeps
  <1>5. CASE UNCHANGED wisVars
    BY <1>5 DEF wisVars, WisInv, WisRowsOK, SaidOnce, Looked, SyncComplete, BareExcused, Embedding, HeldIn
  <1>. QED
    BY <1>1, <1>2, <1>3, <1>4, <1>5, RefreshesKeep DEF WisNext

\* Decisions, principles and their memories are recorded once but for overlaps, and
\* a sync mirrors what it read, for any callers, texts and failures
\* (run_decision_audit, distill_principles, _sync_principles_to_memory).
THEOREM WisdomHolds ==
    ASSUME WisdomAssumption
    PROVE  WisSpec => [](WisTypeOK /\ SaidOnce /\ MirrorsComplete)
  <1>1. WisInit => WisInv
    BY StartsWisdom
  <1>2. WisInv /\ [WisNext]_wisVars => WisInv'
    BY WisStep
  <1>3. WisInv => WisTypeOK /\ SaidOnce /\ MirrorsComplete
    <2>1. WisInv => WisTypeOK
      BY DEF WisInv, WisRowsOK, WisTypeOK, Counts, ThinkerStates
    <2>2. WisInv => MirrorsComplete
      BY DEF WisInv, SyncComplete, BareExcused, Embedding, MirrorsComplete
    <2>. QED
      BY <2>1, <2>2 DEF WisInv
  <1>. QED
    BY <1>1, <1>2, <1>3, PTL DEF WisSpec

\* What the endpoints of cognition derive stays as its texts say, for both of its
\* components (api_server.py, cognition/meta, cognition/reflection).
THEOREM CognitionHolds ==
    ASSUME WisdomAssumption, ReflectionAssumption
    PROVE  WisSpec /\ RefSpec => []CognitionSound
  <1>1. (WisTypeOK /\ SaidOnce /\ MirrorsComplete) /\ (RefTypeOK /\ InferredStaysHypothesis /\ GoalShowsNewest)
          => CognitionSound
    BY DEF CognitionSound
  <1>. QED
    BY <1>1, WisdomHolds, ReflectionHolds, PTL

-----------------------------------------------------------------------------
(* Why what the built-in memory of Hermes holds can be recalled, for any     *)
(* contents and writes: only the content a write is about to ingest lacks a   *)
(* memory, and what an invalidation hits counts as astray unless it is that.  *)
(* And why the block is that of the last turn that asked: a recall that began *)
(* alone is the latest one.                                                   *)

Ingesting == {<<"ingest">>, <<"invalidate", "ingest">>, <<"find", "invalidate", "ingest">>}
Invalidating == {<<"invalidate">>, <<"find", "invalidate">>,
                 <<"invalidate", "ingest">>, <<"find", "invalidate", "ingest">>}
Plans == Ingesting \cup Invalidating \cup {<<"identity">>}
WriteStates == [plan : Plans, old : Contents, new : Contents, hit : Contents \cup {""}]

MirrorRowsOK ==
    /\ builtin \in [Targets -> SUBSET Contents] /\ live \in [Contents -> Nat]
    /\ write = NoWrite \/ write \in WriteStates

\* A removal is about one content, and what a write is about to invalidate is live.
WriteAgrees ==
    /\ write.plan \in Invalidating \ Ingesting => write.new = write.old
    /\ write.plan \in {<<"invalidate">>, <<"invalidate", "ingest">>} => write.hit \in Contents /\ live[write.hit] > 0

\* MirrorKeeps, of one content, in the midst of a write.
Mirrored(c) == live[c] > 0 \/ (write.plan \in Ingesting /\ c = write.new)
MirrorInv ==
    /\ MirrorRowsOK /\ WriteAgrees
    /\ \A c \in builtin["memory"] \ (lost \cup astray) : Mirrored(c)

PrefetchInv ==
    /\ turn \in Nat /\ slot \in 0..turn /\ asked \in 0..turn /\ recalls \subseteq 1..turn
    /\ unordered \in BOOLEAN
    /\ ~unordered => recalls \subseteq {asked}
    /\ recalls = {} /\ ~unordered => slot \in {0, asked}

\* A sequence of one or two entries is the tuple of them.
LEMMA TupleIs ==
    ASSUME NEW T, NEW a \in T, NEW b \in T, NEW u \in Seq(T)
    PROVE  /\ Len(u) = 1 /\ u[1] = a => u = <<a>>
           /\ Len(u) = 2 /\ u[1] = a /\ u[2] = b => u = <<a, b>>
  <1>1. ASSUME Len(u) = 1, u[1] = a PROVE u = <<a>>
    <2>1. <<a>> \in Seq(T) /\ Len(<<a>>) = 1 /\ \A i \in 1..1 : i = 1 /\ u[i] = <<a>>[i]
      BY <1>1
    <2>. QED
      BY <1>1, <2>1, SeqEqual
  <1>2. ASSUME Len(u) = 2, u[1] = a, u[2] = b PROVE u = <<a, b>>
    <2>1. <<a, b>> \in Seq(T) /\ Len(<<a, b>>) = 2 /\ \A i \in 1..2 : u[i] = <<a, b>>[i]
      BY <1>2
    <2>. QED
      BY <1>2, <2>1, SeqEqual
  <1>. QED
    BY <1>1, <1>2

\* What is left of a plan of two calls, and of one of three.
LEMMA LeafIs ==
    ASSUME NEW T, NEW s \in Seq(T), NEW m \in 1..Len(s), NEW n \in m..Len(s)
    PROVE  /\ SubSeq(s, m, n) \in Seq(T) /\ Len(SubSeq(s, m, n)) = n - m + 1
           /\ SubSeq(s, m, n)[1] = s[m] /\ n = m + 1 => SubSeq(s, m, n)[2] = s[m + 1]
  <1>1. \A i \in m..n : s[i] \in T
    BY ElementOfSeq
  <1>2. /\ SubSeq(s, m, n) \in Seq(T) /\ Len(SubSeq(s, m, n)) = n - m + 1
        /\ \A i \in 1..(n - m + 1) : SubSeq(s, m, n)[i] = s[m + i - 1]
    BY <1>1, SubSeqProperties
  <1>. QED
    BY <1>2

LEMMA TwoCalls ==
    ASSUME NEW a, NEW b
    PROVE  SubSeq(<<a, b>>, 2, 2) = <<b>>
  <1>. DEFINE T == {a, b}
  <1>1. b \in T /\ <<a, b>> \in Seq(T) /\ Len(<<a, b>>) = 2 /\ <<a, b>>[2] = b
    OBVIOUS
  <1>. HIDE DEF T
  <1>2. /\ SubSeq(<<a, b>>, 2, 2) \in Seq(T) /\ Len(SubSeq(<<a, b>>, 2, 2)) = 1
        /\ SubSeq(<<a, b>>, 2, 2)[1] = b
    BY <1>1, LeafIs
  <1>. QED
    BY <1>1, <1>2, TupleIs

LEMMA ThreeCalls ==
    ASSUME NEW a, NEW b, NEW c
    PROVE  SubSeq(<<a, b, c>>, 2, 3) = <<b, c>> /\ SubSeq(<<a, b, c>>, 3, 3) = <<c>>
  <1>. DEFINE T == {a, b, c}
  <1>1. b \in T /\ c \in T /\ <<a, b, c>> \in Seq(T) /\ Len(<<a, b, c>>) = 3
        /\ <<a, b, c>>[2] = b /\ <<a, b, c>>[3] = c
    OBVIOUS
  <1>. HIDE DEF T
  <1>2. SubSeq(<<a, b, c>>, 2, 3) = <<b, c>>
    <2>1. /\ SubSeq(<<a, b, c>>, 2, 3) \in Seq(T) /\ Len(SubSeq(<<a, b, c>>, 2, 3)) = 2
          /\ SubSeq(<<a, b, c>>, 2, 3)[1] = b /\ SubSeq(<<a, b, c>>, 2, 3)[2] = c
      BY <1>1, LeafIs
    <2>. QED
      BY <1>1, <2>1, TupleIs
  <1>3. SubSeq(<<a, b, c>>, 3, 3) = <<c>>
    <2>1. /\ SubSeq(<<a, b, c>>, 3, 3) \in Seq(T) /\ Len(SubSeq(<<a, b, c>>, 3, 3)) = 1
          /\ SubSeq(<<a, b, c>>, 3, 3)[1] = c
      BY <1>1, LeafIs
    <2>. QED
      BY <1>1, <2>1, TupleIs
  <1>. QED
    BY <1>2, <1>3

\* What is left of each plan.
LEMMA PlanLeaves ==
    ASSUME NEW p \in Plans
    PROVE  /\ p # <<>>
           /\ Head(p) = "find" =>
                /\ p \in Invalidating
                /\ SubSeq(p, 2, Len(p)) = IF p \in Ingesting THEN <<"invalidate", "ingest">> ELSE <<"invalidate">>
                /\ SubSeq(p, 3, Len(p)) = IF p \in Ingesting THEN <<"ingest">> ELSE <<>>
           /\ Head(p) = "invalidate" =>
                /\ p \in {<<"invalidate">>, <<"invalidate", "ingest">>}
                /\ SubSeq(p, 2, Len(p)) = IF p \in Ingesting THEN <<"ingest">> ELSE <<>>
           /\ Head(p) = "ingest" => p \in Ingesting \ Invalidating /\ SubSeq(p, 2, Len(p)) = <<>>
           /\ Head(p) = "identity" => p \notin Ingesting \cup Invalidating /\ SubSeq(p, 2, Len(p)) = <<>>
  <1>1. CASE p = <<"find", "invalidate", "ingest">>
    <2>1. p \in Ingesting /\ p \in Invalidating /\ Head(p) = "find" /\ Len(p) = 3 /\ p # <<>>
      BY <1>1 DEF Ingesting, Invalidating
    <2>2. SubSeq(p, 2, 3) = <<"invalidate", "ingest">>
      <3>1. SubSeq(<<"find", "invalidate", "ingest">>, 2, 3) = <<"invalidate", "ingest">>
        BY ThreeCalls, Zenon
      <3>. QED
        BY <1>1, <3>1
    <2>3. SubSeq(p, 3, 3) = <<"ingest">>
      <3>1. SubSeq(<<"find", "invalidate", "ingest">>, 3, 3) = <<"ingest">>
        BY ThreeCalls, Zenon
      <3>. QED
        BY <1>1, <3>1
    <2>. QED
      BY <2>1, <2>2, <2>3
  <1>2. CASE p = <<"find", "invalidate">>
    <2>1. p \notin Ingesting /\ p \in Invalidating /\ Head(p) = "find" /\ Len(p) = 2 /\ p # <<>>
      BY <1>2 DEF Ingesting, Invalidating
    <2>2. SubSeq(p, 3, 2) = <<>>
      BY SubSeqEmpty
    <2>. QED
      BY <1>2, <2>1, <2>2, TwoCalls
  <1>3. CASE p = <<"invalidate", "ingest">>
    <2>1. p \in Ingesting /\ Head(p) = "invalidate" /\ Len(p) = 2 /\ p # <<>>
      BY <1>3 DEF Ingesting
    <2>. QED
      BY <1>3, <2>1, TwoCalls
  <1>4. CASE p = <<"invalidate">>
    <2>1. p \notin Ingesting /\ Head(p) = "invalidate" /\ Len(p) = 1 /\ p # <<>>
      BY <1>4 DEF Ingesting
    <2>2. SubSeq(p, 2, 1) = <<>>
      BY SubSeqEmpty
    <2>. QED
      BY <1>4, <2>1, <2>2
  <1>5. CASE p = <<"ingest">>
    <2>1. p \in Ingesting /\ p \notin Invalidating /\ Head(p) = "ingest" /\ Len(p) = 1 /\ p # <<>>
      BY <1>5 DEF Ingesting, Invalidating
    <2>2. SubSeq(p, 2, 1) = <<>>
      BY SubSeqEmpty
    <2>. QED
      BY <2>1, <2>2
  <1>6. CASE p = <<"identity">>
    <2>1. Head(p) = "identity" /\ Len(p) = 1 /\ p # <<>> /\ p \notin Ingesting \cup Invalidating
      BY <1>6 DEF Ingesting, Invalidating
    <2>2. SubSeq(p, 2, 1) = <<>>
      BY SubSeqEmpty
    <2>. QED
      BY <2>1, <2>2
  <1>. QED
    BY <1>1, <1>2, <1>3, <1>4, <1>5, <1>6 DEF Plans, Ingesting, Invalidating

LEMMA NoWriteIs == NoWrite.plan \notin Plans /\ NoWrite.plan \notin Ingesting /\ NoWrite.plan \notin Invalidating
  <1>1. NoWrite.plan = <<>>
    BY DEF NoWrite
  <1>. QED
    BY <1>1, PlanLeaves DEF Plans

LEMMA TwoThree == 1 + 1 = 2 /\ 2 + 1 = 3
  OBVIOUS

\* The rest of a write is still about its contents, and ingests if the write does.
LEMMA RestOfWrite ==
    ASSUME write \in WriteStates, NEW n \in {1, 2}, NEW hit \in Contents \cup {""}, GoOn(n, hit),
           Head(write.plan) = "find" \/ (n = 1 /\ Head(write.plan) \in {"invalidate", "ingest", "identity"})
    PROVE  /\ write' = NoWrite \/ write' \in WriteStates
           /\ Head(write.plan) # "ingest" => (write'.plan \in Ingesting <=> write.plan \in Ingesting)
           /\ write'.plan \in Plans => write'.new = write.new /\ write'.old = write.old /\ write'.hit = hit
           /\ write'.plan \in Invalidating =>
                write.plan \in Invalidating /\ Head(write.plan) = "find" /\ n = 1
           /\ Head(write.plan) \in {"ingest", "identity"} => write' = NoWrite
  <1>. DEFINE p == write.plan
              rest == SubSeq(p, n + 1, Len(p))
  <1>1. p \in Plans /\ write' = IF rest = <<>> THEN NoWrite ELSE [write EXCEPT !.plan = rest, !.hit = hit]
    BY DEF WriteStates, GoOn
  <1>2. rest \in {<<>>, <<"ingest">>, <<"invalidate">>, <<"invalidate", "ingest">>}
        /\ (Head(p) # "ingest" => (rest \in Ingesting <=> p \in Ingesting))
        /\ (rest \in Invalidating => p \in Invalidating /\ Head(p) = "find" /\ n = 1)
        /\ (Head(p) \in {"ingest", "identity"} => rest = <<>>)
    <2>1. <<>> \notin Ingesting /\ <<>> \notin Invalidating /\ <<"ingest">> \notin Invalidating
          /\ <<"ingest">> \in Ingesting /\ <<"invalidate", "ingest">> \in Ingesting /\ <<"invalidate">> \notin Ingesting
      BY DEF Ingesting, Invalidating
    <2>2. CASE n = 1
      <3>1. rest = SubSeq(p, 2, Len(p))
        BY <2>2, TwoThree, Zenon
      <3>. HIDE DEF rest
      <3>. QED
        BY <1>1, <2>1, <2>2, <3>1, PlanLeaves
    <2>3. CASE n = 2
      <3>1. rest = SubSeq(p, 3, Len(p))
        BY <2>3, TwoThree, Zenon
      <3>. HIDE DEF rest
      <3>. QED
        BY <1>1, <2>1, <2>3, <3>1, PlanLeaves
    <2>. QED
      BY <2>2, <2>3
  <1>. HIDE DEF rest
  <1>3. rest # <<>> => rest \in Plans
    BY <1>2 DEF Plans, Ingesting, Invalidating
  <1>4. CASE rest = <<>>
    <2>1. write' = NoWrite /\ rest \notin Ingesting
      BY <1>1, <1>4 DEF Ingesting
    <2>. QED
      BY <1>2, <2>1, NoWriteIs
  <1>5. CASE rest # <<>>
    <2>1. write' = [write EXCEPT !.plan = rest, !.hit = hit]
      BY <1>1, <1>5
    <2>2. write' \in WriteStates /\ write'.plan = rest /\ write'.new = write.new /\ write'.old = write.old
          /\ write'.hit = hit
      BY <1>3, <1>5, <2>1 DEF WriteStates
    <2>. QED
      BY <1>2, <1>5, <2>2
  <1>. QED
    BY <1>4, <1>5

LEMMA ToolWritesKeeps ==
    ASSUME MirrorInv, NEW a \in {"add", "replace", "remove"}, NEW t \in Targets,
           NEW old \in Contents, NEW new \in Contents, NEW known \in BOOLEAN,
           ToolWrites(a, t, old, new, known)
    PROVE  MirrorInv'
  <1>. DEFINE plan == Plan(a, t, known)
  <1>1. /\ UNCHANGED <<live, lost, astray>> /\ builtin \in [Targets -> SUBSET Contents]
        /\ live \in [Contents -> Nat] /\ write = NoWrite
        /\ write' = [plan |-> plan, old |-> old, new |-> new, hit |-> ""]
        /\ a = "remove" => old = new
        /\ builtin' = [builtin EXCEPT ![t] = CASE a = "add" -> @ \cup {new}
                                               [] a = "replace" -> (@ \ {old}) \cup {new}
                                               [] OTHER -> @ \ {old}]
    BY DEF ToolWrites, MirrorInv, MirrorRowsOK
  <1>2. /\ plan \in Plans /\ (a # "remove" /\ t = "memory" => plan \in Ingesting)
        /\ (plan \in Invalidating \ Ingesting => a = "remove")
        /\ plan \notin {<<"invalidate">>, <<"invalidate", "ingest">>}
    <2>1. CASE a = "add"
      BY <2>1, PlanLeaves DEF Plan, Plans, Ingesting, Invalidating
    <2>2. CASE a = "replace"
      BY <2>2, PlanLeaves DEF Plan, Plans, Ingesting, Invalidating
    <2>3. CASE a = "remove"
      BY <2>3 DEF Plan, Plans, Ingesting, Invalidating
    <2>. QED
      BY <2>1, <2>2, <2>3
  <1>. HIDE DEF plan
  <1>3. /\ write' \in WriteStates /\ write'.plan = plan /\ write'.old = old /\ write'.new = new
    BY <1>1, <1>2 DEF WriteStates
  <1>4. /\ builtin' \in [Targets -> SUBSET Contents] /\ "memory" \in Targets
        /\ a = "remove" \/ t # "memory" => builtin'["memory"] \subseteq builtin["memory"]
        /\ builtin'["memory"] \subseteq builtin["memory"] \cup {new}
    <2>1. CASE a = "add"
      BY <1>1, <2>1 DEF Targets
    <2>2. CASE a = "replace"
      BY <1>1, <2>2 DEF Targets
    <2>3. CASE a = "remove"
      BY <1>1, <2>3 DEF Targets
    <2>. QED
      BY <2>1, <2>2, <2>3
  <1>6. WriteAgrees'
    BY <1>1, <1>2, <1>3 DEF WriteAgrees
  <1>7. ASSUME NEW c \in builtin'["memory"] \ (lost' \cup astray') PROVE Mirrored(c)'
    <2>1. CASE c = new /\ a # "remove" /\ t = "memory"
      BY <1>2, <1>3, <2>1 DEF Mirrored
    <2>2. CASE c # new \/ a = "remove" \/ t # "memory"
      <3>1. c \in builtin["memory"] \ (lost \cup astray)
        BY <1>1, <1>4, <1>7, <2>2
      <3>2. live[c] > 0
        BY <1>1, <3>1, NoWriteIs DEF MirrorInv, Mirrored
      <3>. QED
        BY <1>1, <3>2 DEF Mirrored
    <2>. QED
      BY <2>1, <2>2
  <1>. QED
    BY <1>1, <1>3, <1>4, <1>6, <1>7 DEF MirrorInv, MirrorRowsOK

LEMMA DoingIs ==
    ASSUME MirrorInv, NEW call, Doing(call)
    PROVE  write \in WriteStates /\ write.plan \in Plans /\ Head(write.plan) = call
  BY DEF MirrorInv, MirrorRowsOK, Doing, WriteStates

LEMMA HitsKeep ==
    ASSUME MirrorInv, Finds
    PROVE  MirrorInv'
  <1>1. write \in WriteStates /\ Head(write.plan) = "find" /\ UNCHANGED <<builtin, live, lost, astray>>
    BY DoingIs DEF Finds
  <1>2. PICK n \in {1, 2}, hit \in Contents \cup {""} :
            GoOn(n, hit) /\ (n = 1 => hit \in Contents /\ live[hit] > 0)
    <2>1. CASE \E c \in Contents : live[c] > 0 /\ <<c, write.old>> \in Includes /\ GoOn(1, c)
      <3>1. PICK c \in Contents : live[c] > 0 /\ GoOn(1, c)
        BY <2>1
      <3>2. c \in Contents \cup {""} /\ 1 \in {1, 2}
        OBVIOUS
      <3>. QED
        BY <3>1, <3>2
    <2>2. CASE GoOn(2, "")
      <3>1. "" \in Contents \cup {""} /\ 2 \in {1, 2} /\ 2 # 1
        OBVIOUS
      <3>. QED
        BY <2>2, <3>1
    <2>. QED
      BY <2>1, <2>2 DEF Finds
  <1>3. /\ write' = NoWrite \/ write' \in WriteStates
        /\ write'.plan \in Ingesting <=> write.plan \in Ingesting
        /\ write'.plan \in Plans => write'.new = write.new /\ write'.old = write.old /\ write'.hit = hit
        /\ write'.plan \in Invalidating => write.plan \in Invalidating /\ n = 1
    BY <1>1, <1>2, RestOfWrite
  <1>4. Ingesting \subseteq Plans /\ Invalidating \subseteq Plans
        /\ {<<"invalidate">>, <<"invalidate", "ingest">>} \subseteq Invalidating
    BY DEF Plans, Invalidating
  <1>5. WriteAgrees'
    BY <1>1, <1>2, <1>3, <1>4 DEF MirrorInv, WriteAgrees
  <1>. QED
    BY <1>1, <1>3, <1>4, <1>5 DEF MirrorInv, MirrorRowsOK, Mirrored

LEMMA InvalidatesHitKeeps ==
    ASSUME MirrorInv, InvalidatesHit
    PROVE  MirrorInv'
  <1>1. write \in WriteStates /\ Head(write.plan) = "invalidate" /\ GoOn(1, "") /\ UNCHANGED <<builtin, lost>>
        /\ write.plan \in {<<"invalidate">>, <<"invalidate", "ingest">>} /\ live \in [Contents -> Nat]
    BY DoingIs, PlanLeaves DEF InvalidatesHit, MirrorInv, MirrorRowsOK
  <1>2. /\ write' = NoWrite \/ write' \in WriteStates
        /\ write'.plan \in Ingesting <=> write.plan \in Ingesting
        /\ write'.plan \in Plans => write'.new = write.new
        /\ write'.plan \notin Invalidating
    BY <1>1, RestOfWrite
  <1>3. write.hit \in Contents /\ live[write.hit] > 0
        /\ (write.plan \notin Ingesting => write.new = write.old)
    BY <1>1 DEF MirrorInv, WriteAgrees, Invalidating
  <1>4. \/ /\ live' = [live EXCEPT ![write.hit] = @ - 1]
           /\ astray' = astray \cup {c \in {write.hit} \cap builtin["memory"] :
                                      write.old = write.new \/ c # write.new}
        \/ UNCHANGED <<live, astray>>
    BY DEF InvalidatesHit
  <1>5. live' \in [Contents -> Nat] /\ (\A c \in Contents : c # write.hit => live'[c] = live[c])
        /\ astray \subseteq astray'
        /\ \/ live' = live
           \/ \A c \in {write.hit} \cap builtin["memory"] : c \in astray' \/ (write.old # write.new /\ c = write.new)
    <2>2. live[write.hit] \in Nat
      BY <1>1, <1>3
    <2>3. live[write.hit] > 0
      BY <1>3
    <2>1. live[write.hit] - 1 \in Nat
      BY <2>2, <2>3
    <2>. QED
      BY <1>1, <1>3, <1>4, <2>1
  <1>6. WriteAgrees'
    <2>1. {<<"invalidate">>, <<"invalidate", "ingest">>} \subseteq Invalidating
      BY DEF Invalidating
    <2>. QED
      BY <1>2, <2>1 DEF WriteAgrees
  <1>7. ASSUME NEW c \in builtin'["memory"] \ (lost' \cup astray') PROVE Mirrored(c)'
    <2>1. c \in builtin["memory"] \ (lost \cup astray) /\ Mirrored(c) /\ c \in Contents
      BY <1>1, <1>5, <1>7 DEF MirrorInv, MirrorRowsOK, Targets
    <2>2. CASE write.plan \in Ingesting /\ c = write.new
      <3>1. write'.plan \in Plans
        BY <1>2, <2>2 DEF Plans
      <3>. QED
        BY <1>2, <2>2, <3>1 DEF Mirrored
    <2>3. CASE ~(write.plan \in Ingesting /\ c = write.new)
      <3>1. live[c] > 0
        BY <2>1, <2>3 DEF Mirrored
      <3>2. live' = live \/ c # write.hit
        BY <1>3, <1>5, <1>7, <2>1, <2>3
      <3>. QED
        BY <1>5, <2>1, <3>1, <3>2 DEF Mirrored
    <2>. QED
      BY <2>2, <2>3
  <1>. QED
    BY <1>1, <1>2, <1>5, <1>6, <1>7 DEF MirrorInv, MirrorRowsOK

LEMMA IngestsKeeps ==
    ASSUME MirrorInv, Ingests
    PROVE  MirrorInv'
  <1>1. write \in WriteStates /\ Head(write.plan) = "ingest" /\ GoOn(1, "") /\ UNCHANGED builtin
        /\ live \in [Contents -> Nat] /\ write.new \in Contents
    BY DoingIs DEF Ingests, MirrorInv, MirrorRowsOK, WriteStates
  <1>2. write' = NoWrite
    BY <1>1, RestOfWrite
  <1>3. \/ /\ live' = [live EXCEPT ![write.new] = @ + 1]
           /\ lost' = lost \ {write.new} /\ astray' = astray \ {write.new}
        \/ lost' = lost \cup {write.new} /\ UNCHANGED <<live, astray>>
    BY DEF Ingests
  <1>4. /\ live' \in [Contents -> Nat] /\ \A c \in Contents : c # write.new => live'[c] = live[c]
        /\ live'[write.new] > 0 \/ write.new \in lost'
        /\ lost \cup astray \subseteq lost' \cup astray' \cup {write.new}
    <2>1. live[write.new] + 1 \in Nat /\ live[write.new] + 1 > 0
      <3>1. live[write.new] \in Nat
        BY <1>1
      <3>. QED
        BY <3>1
    <2>. QED
      BY <1>1, <1>3, <2>1
  <1>5. ASSUME NEW c \in builtin'["memory"] \ (lost' \cup astray') PROVE live'[c] > 0
    <2>1. CASE c = write.new
      BY <1>4, <1>5, <2>1
    <2>2. CASE c # write.new
      <3>1. c \in builtin["memory"] \ (lost \cup astray) /\ c \in Contents
        BY <1>1, <1>4, <1>5, <2>2 DEF MirrorInv, MirrorRowsOK, Targets
      <3>. QED
        BY <1>1, <1>4, <2>2, <3>1 DEF MirrorInv, Mirrored
    <2>. QED
      BY <2>1, <2>2
  <1>6. WriteAgrees'
    <2>1. {<<"invalidate">>, <<"invalidate", "ingest">>} \subseteq Invalidating
      BY DEF Invalidating
    <2>. QED
      BY <1>2, <2>1, NoWriteIs DEF WriteAgrees
  <1>. QED
    BY <1>1, <1>2, <1>4, <1>5, <1>6 DEF MirrorInv, MirrorRowsOK, Mirrored

LEMMA PostsIdentityKeeps ==
    ASSUME MirrorInv, PostsIdentity
    PROVE  MirrorInv'
  <1>1. /\ write \in WriteStates /\ write.plan \in Plans /\ Head(write.plan) = "identity" /\ GoOn(1, "")
        /\ UNCHANGED <<builtin, live, lost, astray>>
    BY DoingIs DEF PostsIdentity
  <1>2. write.plan \notin Ingesting /\ write' = NoWrite
    BY <1>1, PlanLeaves, RestOfWrite
  <1>3. WriteAgrees'
    <2>1. {<<"invalidate">>, <<"invalidate", "ingest">>} \subseteq Invalidating
      BY DEF Invalidating
    <2>. QED
      BY <1>2, <2>1, NoWriteIs DEF WriteAgrees
  <1>. QED
    BY <1>1, <1>2, <1>3 DEF MirrorInv, MirrorRowsOK, Mirrored

LEMMA MirrorStands ==
    ASSUME MirrorInv, UNCHANGED <<builtin, live, write, lost, astray>>
    PROVE  MirrorInv'
  BY DEF MirrorInv, MirrorRowsOK, WriteAgrees, Mirrored

\* A recall that starts or ends.
LEMMA PrefetchMoves ==
    ASSUME PrefetchInv, TurnEnds \/ \E t \in recalls : RecallEnds(t)
    PROVE  PrefetchInv'
  <1>1. CASE TurnEnds
    <2>1. turn' = turn + 1 /\ slot' = slot
      BY <1>1 DEF TurnEnds
    <2>2. CASE recalls' = recalls \cup {turn'} /\ unordered' = (recalls # {}) /\ asked' = turn'
      <3>1. turn' \in Nat /\ slot' \in 0..turn' /\ recalls' \subseteq 1..turn' /\ asked' \in 0..turn'
        BY <2>1, <2>2 DEF PrefetchInv
      <3>2. unordered' \in BOOLEAN
        BY <2>2
      <3>. QED
        BY <2>1, <2>2, <3>1, <3>2 DEF PrefetchInv
    <2>3. CASE UNCHANGED <<recalls, unordered, asked>>
      BY <2>1, <2>3 DEF PrefetchInv
    <2>. QED
      BY <1>1, <2>2, <2>3 DEF TurnEnds
  <1>2. ASSUME NEW t \in recalls, RecallEnds(t) PROVE PrefetchInv'
    <2>1. recalls' = recalls \ {t} /\ slot' \in {t, 0} /\ UNCHANGED <<turn, asked, unordered>> /\ t \in 1..turn
      BY <1>2 DEF RecallEnds, PrefetchInv, AfterFailure
    <2>. QED
      BY <2>1 DEF PrefetchInv
  <1>. QED
    BY <1>1, <1>2

LEMMA PrefetchStands ==
    ASSUME PrefetchInv, PrefetchSame
    PROVE  PrefetchInv'
  BY DEF PrefetchInv, PrefetchSame

LEMMA HermesStep ==
    ASSUME MirrorInv, PrefetchInv, [HermesNext]_hermesVars
    PROVE  MirrorInv' /\ PrefetchInv'
  <1>1. ASSUME NEW a \in {"add", "replace", "remove"}, NEW t \in Targets,
               NEW old \in Contents, NEW new \in Contents, NEW known \in BOOLEAN,
               ToolWrites(a, t, old, new, known)
        PROVE  MirrorInv' /\ PrefetchInv'
    BY <1>1, ToolWritesKeeps, PrefetchStands DEF ToolWrites
  <1>2. CASE Finds \/ InvalidatesHit \/ Ingests \/ PostsIdentity
    <2>1. PrefetchSame
      BY <1>2 DEF Finds, InvalidatesHit, Ingests, PostsIdentity
    <2>. QED
      BY <1>2, <2>1, HitsKeep, InvalidatesHitKeeps, IngestsKeeps, PostsIdentityKeeps, PrefetchStands
  <1>3. CASE TurnEnds \/ \E t \in recalls : RecallEnds(t)
    <2>1. MirrorSame
      BY <1>3 DEF TurnEnds, RecallEnds
    <2>. QED
      BY <1>3, <2>1, PrefetchMoves, MirrorStands DEF MirrorSame
  <1>4. CASE UNCHANGED hermesVars
    BY <1>4, MirrorStands, PrefetchStands DEF hermesVars, PrefetchSame
  <1>. QED
    BY <1>1, <1>2, <1>3, <1>4 DEF HermesNext

\* The notes the built-in memory of Hermes holds can be recalled once their write
\* is mirrored, unless a call failed or a search hit them in another's place, and
\* the block of a turn is that of the last turn that asked, for any contents,
\* writes to either target, turns and failing calls (on_memory_write,
\* queue_prefetch, prefetch).
THEOREM HermesHolds ==
    HermesSpec => []HermesKeepsUp
  <1>1. HermesInit => MirrorInv /\ PrefetchInv
    <2>1. HermesInit => MirrorInv
      <3>1. HermesInit => MirrorRowsOK
        BY DEF HermesInit, MirrorRowsOK
      <3>2. <<"invalidate">> \in Plans /\ <<"invalidate", "ingest">> \in Plans
            /\ Invalidating \subseteq Plans
        BY DEF Plans, Ingesting, Invalidating
      <3>3. HermesInit => WriteAgrees
        BY <3>2, NoWriteIs DEF HermesInit, WriteAgrees
      <3>4. HermesInit => builtin["memory"] = {}
        BY DEF HermesInit, Targets
      <3>. QED
        BY <3>1, <3>3, <3>4 DEF MirrorInv
    <2>2. HermesInit => PrefetchInv
      <3>1. HermesInit => turn \in Nat /\ slot \in 0..turn /\ recalls \subseteq 1..turn
        BY DEF HermesInit
      <3>. QED
        BY <3>1 DEF HermesInit, PrefetchInv
    <2>. QED
      BY <2>1, <2>2
  <1>2. MirrorInv /\ PrefetchInv /\ [HermesNext]_hermesVars => (MirrorInv /\ PrefetchInv)'
    BY HermesStep
  <1>3. MirrorInv /\ PrefetchInv => HermesKeepsUp
    <2>1. MirrorInv => MirrorKeeps
      BY NoWriteIs DEF MirrorInv, Mirrored, MirrorKeeps
    <2>2. MirrorInv /\ PrefetchInv => HermesTypeOK /\ PrefetchIsLast
      BY DEF MirrorInv, MirrorRowsOK, PrefetchInv, HermesTypeOK, PrefetchIsLast
    <2>. QED
      BY <2>1, <2>2 DEF HermesKeepsUp
  <1>. QED
    BY <1>1, <1>2, <1>3, PTL DEF HermesSpec

-----------------------------------------------------------------------------
(* Why chapters divide the episodes they were made from, for any journal:    *)
(* the start of each episode's segment is its own, the one before's, and a    *)
(* segment that ends is of the least length.  The loop of compose_chapters is *)
(* a recursive function; what it computes is found episode by episode.        *)

\* A set of numbers has a least one.
LEMMA FirstOf ==
    ASSUME NEW S, S \subseteq Nat, S # {}
    PROVE  \E m \in S : \A y \in S : m <= y
  <1>. DEFINE R == OpToRel(<, Nat)
  <1>1. \A a, b \in Nat : a < b => <<a, b>> \in R
    BY DEF OpToRel
  <1>2. IsWellFoundedOn(R, Nat)
    BY NatLessThanWellFounded
  <1>. HIDE DEF R
  <1>3. PICK m \in S : \A y \in S : ~(<<y, m>> \in R)
    BY <1>2, WFMin
  <1>4. ASSUME NEW y \in S PROVE m <= y
    <2>1. m \in Nat /\ y \in Nat /\ ~(y < m)
      BY <1>1, <1>3
    <2>. QED
      BY <2>1
  <1>. QED
    BY <1>4

\* The loop's next start, and a function that follows the loop over n episodes.
NextStart(f, i) ==
    IF i = 1 THEN 1 ELSE IF journal[i] /\ LongEnough(f[i - 1], i) THEN i ELSE f[i - 1]
Follows(f, n) == f = [i \in 1..n |-> NextStart(f, i)]

LEMMA LoopRuns ==
    ASSUME NEW n \in Nat
    PROVE  \E f : Follows(f, n)
  <1>. DEFINE Bad == {m \in Nat : ~ \E f : Follows(f, m)}
  <1>. SUFFICES ASSUME Bad # {} PROVE FALSE
    OBVIOUS
  <1>1. PICK m \in Bad : \A y \in Bad : m <= y
    BY FirstOf
  <1>2. m # 0
    <2>1. Follows([i \in 1..0 |-> 1], 0)
      BY DEF Follows
    <2>. QED
      BY <2>1
  <1>3. m - 1 \in Nat /\ m - 1 \notin Bad /\ m \in Nat
    BY <1>1, <1>2
  <1>4. PICK f : Follows(f, m - 1)
    BY <1>3
  <1>. DEFINE g == [i \in 1..m |-> IF i < m THEN f[i] ELSE NextStart(f, m)]
  <1>5. ASSUME NEW i \in 1..m PROVE g[i] = NextStart(g, i)
    <2>1. i # 1 => i - 1 \in 1..m /\ i - 1 < m
      BY <1>3
    <2>2. i # 1 => g[i - 1] = f[i - 1]
      BY <2>1
    <2>3. NextStart(g, i) = NextStart(f, i)
      BY <2>2 DEF NextStart
    <2>4. CASE i < m
      <3>1. i \in 1..(m - 1)
        BY <1>3, <2>4
      <3>2. f[i] = NextStart(f, i)
        BY <1>4, <3>1 DEF Follows
      <3>. QED
        BY <2>3, <2>4, <3>2
    <2>5. CASE ~(i < m)
      <3>1. i = m
        BY <1>3, <2>5
      <3>. QED
        BY <2>3, <3>1
    <2>. QED
      BY <2>4, <2>5
  <1>6. Follows(g, m)
    <2>1. g = [i \in 1..m |-> g[i]]
      OBVIOUS
    <2>. HIDE DEF g
    <2>. QED
      BY <1>5, <2>1 DEF Follows
  <1>. QED
    BY <1>1, <1>6

LEMMA StartFollows ==
    ASSUME NEW n \in Nat
    PROVE  \A i \in 1..n : SegmentStart(n)[i] = NextStart(SegmentStart(n), i)
  <1>1. SegmentStart(n) = CHOOSE f : Follows(f, n)
    BY DEF SegmentStart, Follows, NextStart
  <1>2. Follows(SegmentStart(n), n)
    BY <1>1, LoopRuns
  <1>. DEFINE s == SegmentStart(n)
  <1>3. s = [i \in 1..n |-> NextStart(s, i)]
    BY <1>2 DEF Follows
  <1>. HIDE DEF s
  <1>4. \A i \in 1..n : s[i] = NextStart(s, i)
    BY <1>3
  <1>. QED
    BY <1>4 DEF s

\* A segment starts at or before its episodes, at one itself in it, which is the
\* first of all or a shift; it goes on or ends with the least length.
LEMMA SegmentsAre ==
    ASSUME NEW n \in Nat, NEW s, s = SegmentStart(n), Least \in Nat
    PROVE  /\ \A i \in 1..n : s[i] \in 1..i /\ s[s[i]] = s[i] /\ (s[i] = 1 \/ journal[s[i]])
           /\ \A i \in 1..n : i # n /\ s[i + 1] # s[i] => s[i + 1] = i + 1 /\ i + 1 - s[i] >= Least
           /\ \A i, j \in 1..n : i <= j => s[i] <= s[j]
  <1>1. \A i \in 1..n : s[i] = NextStart(s, i)
    BY StartFollows
  <1>2. ASSUME NEW i \in 1..n, i # 1, s[i] # i PROVE i - 1 \in 1..n /\ s[i] = s[i - 1]
    BY <1>1, <1>2 DEF NextStart
  <1>3. ASSUME NEW i \in 1..n, i # 1, s[i] = i, s[i - 1] # i
        PROVE  journal[i] /\ i - s[i - 1] >= Least
    BY <1>1, <1>3 DEF NextStart, LongEnough
  <1>4. 1 \in 1..n => s[1] = 1
    BY <1>1 DEF NextStart
  <1>. DEFINE Good(i) == s[i] \in 1..i /\ s[s[i]] = s[i] /\ (s[i] = 1 \/ journal[s[i]])
              Bad == {i \in 1..n : ~Good(i)}
  <1>5. \A i \in 1..n : Good(i)
    <2>. SUFFICES ASSUME Bad # {} PROVE FALSE
      OBVIOUS
    <2>9. Bad \subseteq Nat
      OBVIOUS
    <2>1. PICK i \in Bad : \A y \in Bad : i <= y
      <3>. HIDE DEF Bad
      <3>. QED
        BY <2>9, FirstOf
    <2>2. i \in 1..n /\ ~Good(i)
      BY <2>1
    <2>3. i # 1
      BY <1>4, <2>2
    <2>4. i - 1 \in 1..n /\ i - 1 \notin Bad
      BY <2>1, <2>3
    <2>5. Good(i - 1)
      BY <2>4
    <2>6. s[i - 1] \in 1..(i - 1) /\ s[i - 1] # i
      BY <2>2, <2>5
    <2>7. CASE s[i] = i
      BY <1>3, <2>2, <2>3, <2>6, <2>7
    <2>8. CASE s[i] # i
      BY <1>2, <2>2, <2>3, <2>5, <2>6, <2>8
    <2>. QED
      BY <2>7, <2>8
  <1>6. ASSUME NEW i \in 1..n, i # n
        PROVE  /\ s[i] \in Nat /\ s[i + 1] \in Nat /\ s[i] <= s[i + 1]
               /\ s[i + 1] # s[i] => s[i + 1] = i + 1 /\ i + 1 - s[i] >= Least
    <2>1. i + 1 \in 1..n /\ i + 1 # 1 /\ (i + 1) - 1 = i
      BY <1>6
    <2>2. s[i] \in 1..i /\ s[i] # i + 1
      BY <1>5
    <2>3. CASE s[i + 1] = i + 1
      BY <1>3, <2>1, <2>2, <2>3
    <2>4. CASE s[i + 1] # i + 1
      BY <1>2, <2>1, <2>2, <2>4
    <2>. QED
      BY <2>3, <2>4
  <1>7. ASSUME NEW i \in 1..n PROVE \A j \in 1..n : i <= j => s[i] <= s[j]
    <2>. DEFINE Low == {j \in 1..n : i <= j /\ ~(s[i] <= s[j])}
    <2>. SUFFICES ASSUME Low # {} PROVE FALSE
      OBVIOUS
    <2>7. Low \subseteq Nat
      OBVIOUS
    <2>1. PICK j \in Low : \A y \in Low : j <= y
      <3>. HIDE DEF Low
      <3>. QED
        BY <2>7, FirstOf
    <2>2. s[i] \in Nat
      BY <1>5
    <2>3. j # i
      BY <2>1, <2>2
    <2>4. j - 1 \in 1..n /\ i <= j - 1 /\ j - 1 # n /\ (j - 1) + 1 = j /\ j - 1 \notin Low
      BY <2>1, <2>3
    <2>5. s[i] <= s[j - 1]
      BY <2>4
    <2>6. s[j - 1] \in Nat /\ s[j] \in Nat /\ s[j - 1] <= s[j]
      BY <1>6, <2>4
    <2>. QED
      BY <2>1, <2>2, <2>5, <2>6
  <1>. QED
    BY <1>5, <1>6, <1>7

\* What ChaptersDivide says of the rows of one run.
Divided(chapters) ==
    \A c \in chapters :
        /\ c.first = 1 \/ (journal[c.first] /\ \E d \in chapters : d.end = c.first - 1)
        /\ c.end - c.first + 1 >= Least \/ \A d \in chapters : d.end <= c.end
        /\ \A d \in chapters : d = c \/ d.end < c.first \/ c.end < d.first
ChapterOf == [first : Nat, end : Nat]
Read(chapters) == chapters \subseteq ChapterOf /\ \A c \in chapters : c.first \in 1..Len(journal)

LEMMA ChaptersAre ==
    ASSUME NEW n \in Nat, n <= Len(journal), journal \in Seq(BOOLEAN), Least \in Nat
    PROVE  Read(Chapters(n)) /\ Divided(Chapters(n))
  <1>. DEFINE s == SegmentStart(n)
              Ending == {j \in 1..n : j = n \/ s[j + 1] # s[j]}
  <1>1. Chapters(n) = {[first |-> s[i], end |-> i] : i \in Ending}
    BY DEF Chapters
  <1>. HIDE DEF s
  <1>2. /\ \A i \in 1..n : s[i] \in 1..i /\ s[s[i]] = s[i] /\ (s[i] = 1 \/ journal[s[i]])
        /\ \A i \in 1..n : i # n /\ s[i + 1] # s[i] => s[i + 1] = i + 1 /\ i + 1 - s[i] >= Least
        /\ \A i, j \in 1..n : i <= j => s[i] <= s[j]
    BY SegmentsAre DEF s
  <1>3. ASSUME NEW c \in Chapters(n) PROVE \E i \in Ending : c = [first |-> s[i], end |-> i]
    BY <1>1
  <1>4. Read(Chapters(n))
    <2>1. ASSUME NEW c \in Chapters(n) PROVE c \in ChapterOf /\ c.first \in 1..Len(journal)
      <3>1. PICK i \in Ending : c = [first |-> s[i], end |-> i]
        BY <1>3
      <3>2. i \in 1..n /\ s[i] \in 1..i /\ Len(journal) \in Nat
        BY <1>2
      <3>3. s[i] \in 1..Len(journal) /\ s[i] \in Nat /\ i \in Nat
        BY <3>2
      <3>. QED
        BY <3>1, <3>3 DEF ChapterOf
    <2>. QED
      BY <2>1 DEF Read
  <1>5. ASSUME NEW c \in Chapters(n)
        PROVE  /\ c.first = 1 \/ (journal[c.first] /\ \E d \in Chapters(n) : d.end = c.first - 1)
               /\ c.end - c.first + 1 >= Least \/ \A d \in Chapters(n) : d.end <= c.end
               /\ \A d \in Chapters(n) : d = c \/ d.end < c.first \/ c.end < d.first
    <2>1. PICK i \in Ending : c = [first |-> s[i], end |-> i]
      BY <1>3
    <2>2. i \in 1..n /\ (i = n \/ s[i + 1] # s[i]) /\ c.first = s[i] /\ c.end = i /\ s[i] \in 1..i
      BY <1>2, <2>1
    <2>3. c.first = 1 \/ (journal[c.first] /\ \E d \in Chapters(n) : d.end = c.first - 1)
      <3>. SUFFICES ASSUME s[i] # 1 PROVE \E d \in Chapters(n) : d.end = s[i] - 1
        BY <1>2, <2>2
      <3>1. s[i] - 1 \in 1..n /\ s[i] \in 1..n /\ (s[i] - 1) + 1 = s[i]
        BY <2>2
      <3>2. s[s[i]] = s[i] /\ s[s[i] - 1] \in 1..(s[i] - 1)
        BY <1>2, <3>1
      <3>3. s[(s[i] - 1) + 1] # s[s[i] - 1]
        BY <3>1, <3>2
      <3>4. s[i] - 1 \in Ending
        BY <3>1, <3>3
      <3>. DEFINE d == [first |-> s[s[i] - 1], end |-> s[i] - 1]
      <3>5. d \in Chapters(n) /\ d.end = s[i] - 1
        BY <1>1, <3>4
      <3>. QED
        BY <3>5
    <2>4. c.end - c.first + 1 >= Least \/ \A d \in Chapters(n) : d.end <= c.end
      <3>1. CASE i = n
        <4>1. ASSUME NEW d \in Chapters(n) PROVE d.end <= i
          <5>1. PICK j \in Ending : d = [first |-> s[j], end |-> j]
            BY <1>3
          <5>. QED
            BY <3>1, <5>1
        <4>. QED
          BY <2>2, <4>1
      <3>2. CASE i # n
        <4>1. i + 1 - s[i] >= Least
          BY <1>2, <2>2, <3>2
        <4>2. i - s[i] + 1 = i + 1 - s[i]
          BY <2>2
        <4>. QED
          BY <2>2, <4>1, <4>2
      <3>. QED
        BY <3>1, <3>2
    <2>5. ASSUME NEW d \in Chapters(n) PROVE d = c \/ d.end < c.first \/ c.end < d.first
      <3>1. PICK j \in Ending : d = [first |-> s[j], end |-> j]
        BY <1>3
      <3>2. j \in 1..n /\ (j = n \/ s[j + 1] # s[j]) /\ d.first = s[j] /\ d.end = j
        BY <3>1
      <3>3. ASSUME NEW a \in 1..n, NEW b \in 1..n, a < b, s[a + 1] # s[a] PROVE a < s[b]
        <4>1. a # n /\ a + 1 \in 1..n /\ a + 1 <= b
          BY <3>3
        <4>2. s[a + 1] = a + 1
          BY <1>2, <3>3, <4>1
        <4>3. s[a + 1] <= s[b] /\ s[b] \in 1..b
          BY <1>2, <4>1
        <4>. QED
          BY <4>2, <4>3
      <3>4. CASE i < j
        BY <2>2, <3>2, <3>3, <3>4
      <3>5. CASE j < i
        BY <2>2, <3>2, <3>3, <3>5
      <3>6. CASE i = j
        BY <2>1, <3>1, <3>6
      <3>. QED
        BY <2>2, <3>2, <3>4, <3>5, <3>6
    <2>. QED
      BY <2>3, <2>4, <2>5
  <1>6. Divided(Chapters(n))
    BY <1>5 DEF Divided
  <1>. QED
    BY <1>4, <1>6

\* Later episodes change nothing of the chapters read before them.
LEMMA ReadStays ==
    ASSUME NEW chapters, Read(chapters), Divided(chapters), journal \in Seq(BOOLEAN),
           NEW shift \in BOOLEAN, journal' = Append(journal, shift)
    PROVE  Read(chapters)' /\ Divided(chapters)'
  <1>1. \A c \in chapters : c.first \in 1..Len(journal) /\ c.first \in 1..Len(journal')
                            /\ journal'[c.first] = journal[c.first]
    BY DEF Read
  <1>2. Read(chapters)'
    BY <1>1 DEF Read
  <1>. QED
    BY <1>1, <1>2 DEF Divided

-----------------------------------------------------------------------------
(* Why the rows on show are the whole of one run, for any calls: whoever may  *)
(* still write was amid its inserts when the latest run closed the rest, or   *)
(* is that run; and alone it has put on show what it no longer holds.         *)

Things == ChapterOf \cup Subjects
SnRow == [is : Things, run : Nat]
MakerStates == [at : {"idle", "close", "read", "insert"}, run : Nat, rows : SUBSET SnRow]
Busy == {k \in Makers : maker[k].at # "idle"}
Writers == {r.run : r \in shown} \cup {maker[k].run : k \in Inside}
ContentsOf(rows) == {r.is : r \in rows}

SnRowsOK ==
    /\ kind \in Kinds /\ journal \in Seq(BOOLEAN) /\ world \subseteq Subjects
    /\ tries \in Nat /\ amid \in Nat /\ cut \in BOOLEAN
    /\ shown \subseteq SnRow /\ last \subseteq SnRow
    /\ maker \in [Makers -> MakerStates] /\ IsFiniteSet(Busy)
    /\ \A r \in shown : r.run \in 1..tries

\* A call writes rows of its own run; what it read of the journal are chapters.
MakerAgrees(k) ==
    /\ maker[k].at # "idle" => maker[k].run \in 1..tries
    /\ \A r \in maker[k].rows : r.run = maker[k].run
    /\ maker[k].at = "read" => kind = "themes"
    /\ maker[k].at = "close" /\ kind = "chapters" =>
          Read(ContentsOf(maker[k].rows)) /\ Divided(ContentsOf(maker[k].rows))

FewWriters == Cardinality(Writers) <= 1 + amid

\* Alone, a call has what is on show and what it still holds of the latest run.
Alone(k) ==
    /\ Inside = {k}
    /\ \/ maker[k].at = "insert" /\ shown \cup maker[k].rows = last
       \/ maker[k].at = "read" /\ shown = {}
Whole == amid = 0 /\ ~cut => (Inside = {} /\ shown = last) \/ \E k \in Makers : Alone(k)

LastRead == kind = "chapters" => Read(ContentsOf(last)) /\ Divided(ContentsOf(last))

SnInv ==
    /\ SnRowsOK /\ FewWriters /\ Whole /\ LastRead
    /\ \A k \in Makers : MakerAgrees(k)

LEMMA NoMakerIs ==
    /\ NoMaker \in MakerStates /\ NoMaker.at = "idle" /\ NoMaker.rows = {}
  BY DEF NoMaker, MakerStates

LEMMA WritersFinite ==
    ASSUME SnInv
    PROVE  IsFiniteSet(Writers) /\ IsFiniteSet(Inside)
  <1>1. IsFiniteSet(1..tries)
    BY FS_Interval DEF SnInv, SnRowsOK
  <1>2. Writers \subseteq 1..tries
    BY DEF SnInv, SnRowsOK, Writers, Inside, MakerAgrees
  <1>3. Inside \subseteq Busy
    BY DEF Inside, Busy
  <1>. QED
    BY <1>1, <1>2, <1>3, FS_Subset DEF SnInv, SnRowsOK

\* One call's record, and who is amid its inserts then.
LEMMA MakerMoves ==
    ASSUME SnInv, NEW k \in Makers, NEW r \in MakerStates, maker' = [maker EXCEPT ![k] = r]
    PROVE  /\ maker' \in [Makers -> MakerStates] /\ IsFiniteSet(Busy')
           /\ maker'[k] = r /\ \A q \in Makers \ {k} : maker'[q] = maker[q]
           /\ Inside' = IF r.at \in {"read", "insert"} THEN Inside \cup {k} ELSE Inside \ {k}
  <1>1. /\ maker' \in [Makers -> MakerStates]
        /\ maker'[k] = r /\ \A q \in Makers \ {k} : maker'[q] = maker[q]
    BY DEF SnInv, SnRowsOK
  <1>2. Busy' \subseteq Busy \cup {k}
    BY <1>1 DEF Busy
  <1>3. IsFiniteSet(Busy \cup {k})
    BY FS_AddElement DEF SnInv, SnRowsOK
  <1>4. Inside' = IF r.at \in {"read", "insert"} THEN Inside \cup {k} ELSE Inside \ {k}
    BY <1>1 DEF Inside
  <1>. QED
    BY <1>1, <1>2, <1>3, <1>4, FS_Subset

\* Nobody comes who may write.
LEMMA NoNewWriter ==
    ASSUME SnInv, Writers' \subseteq Writers, amid' = amid
    PROVE  FewWriters'
  <1>1. Cardinality(Writers') <= Cardinality(Writers) /\ Cardinality(Writers) \in Nat
        /\ Cardinality(Writers') \in Nat
    BY WritersFinite, FS_Subset, FS_CardinalityType
  <1>2. Cardinality(Writers) <= 1 + amid /\ amid \in Nat
    BY DEF SnInv, FewWriters, SnRowsOK
  <1>. QED
    BY <1>1, <1>2 DEF FewWriters

\* A call that did not move.
LEMMA OtherMakers ==
    ASSUME SnInv, NEW q \in Makers, maker'[q] = maker[q], kind' = kind, tries' \in Nat, tries' >= tries,
           \/ journal' = journal
           \/ \E shift \in BOOLEAN : journal' = Append(journal, shift)
    PROVE  MakerAgrees(q)'
  <1>1. MakerAgrees(q) /\ tries \in Nat /\ journal \in Seq(BOOLEAN)
    BY DEF SnInv, SnRowsOK
  <1>2. CASE journal' = journal
    BY <1>1, <1>2 DEF MakerAgrees, Read, Divided
  <1>3. CASE \E shift \in BOOLEAN : journal' = Append(journal, shift)
    <2>1. ASSUME Read(ContentsOf(maker[q].rows)), Divided(ContentsOf(maker[q].rows))
          PROVE  Read(ContentsOf(maker[q].rows))' /\ Divided(ContentsOf(maker[q].rows))'
      <3>1. PICK chapters : chapters = ContentsOf(maker[q].rows)
        OBVIOUS
      <3>2. Read(chapters)' /\ Divided(chapters)'
        BY <1>1, <1>3, <2>1, <3>1, ReadStays
      <3>3. ContentsOf(maker[q].rows)' = chapters
        BY <3>1 DEF ContentsOf
      <3>. QED
        BY <3>2, <3>3 DEF Read, Divided
    <2>. QED
      BY <1>1, <2>1 DEF MakerAgrees, ContentsOf
  <1>. QED
    BY <1>2, <1>3

LEMMA StartsSnapshots ==
    ASSUME SnapshotsAssumption, SnInit
    PROVE  SnInv
  <1>1. Inside = {} /\ Busy = {} /\ Writers = {} /\ last = {} /\ shown = {} /\ amid = 0
    BY NoMakerIs DEF SnInit, Inside, Busy, Writers
  <1>2. SnRowsOK
    <2>1. journal \in Seq(BOOLEAN) /\ maker \in [Makers -> MakerStates] /\ IsFiniteSet(Busy)
      BY <1>1, NoMakerIs, FS_EmptySet DEF SnInit
    <2>2. cut \in BOOLEAN /\ kind \in Kinds
      BY DEF SnInit
    <2>3. world \subseteq Subjects /\ tries \in Nat /\ amid \in Nat
      BY DEF SnInit
    <2>4. shown \subseteq SnRow /\ last \subseteq SnRow /\ \A r \in shown : r.run \in 1..tries
      BY <1>1
    <2>. QED
      BY <2>1, <2>2, <2>3, <2>4 DEF SnRowsOK
  <1>3. FewWriters
    BY <1>1, FS_EmptySet DEF FewWriters
  <1>4. Whole /\ LastRead
    BY <1>1 DEF Whole, LastRead, ContentsOf, Read, Divided
  <1>5. \A k \in Makers : MakerAgrees(k)
    BY NoMakerIs DEF SnInit, MakerAgrees
  <1>. QED
    BY <1>2, <1>3, <1>4, <1>5 DEF SnInv

\* A call begins: what it read is not on show, and it is not amid its inserts.
LEMMA BeginsKeeps ==
    ASSUME SnapshotsAssumption, SnInv, NEW k \in Makers, MakerBegins(k)
    PROVE  SnInv'
  <1>1. /\ maker[k].at = "idle" /\ tries' = tries + 1 /\ tries \in Nat
        /\ UNCHANGED <<kind, journal, world, shown, last, amid, cut>>
        /\ world \subseteq Subjects /\ journal \in Seq(BOOLEAN) /\ kind \in Kinds
    BY DEF MakerBegins, SnInv, SnRowsOK
  <1>2. PICK contents : /\ maker' = [maker EXCEPT ![k] =
                              [at |-> "close", run |-> tries + 1, rows |-> Rows(tries + 1, contents)]]
                        /\ kind = "chapters" => contents = Chapters(EpisodesSeen)
                        /\ kind # "chapters" => contents \subseteq world
    <2>1. CASE kind = "chapters"
      BY <2>1 DEF MakerBegins
    <2>2. CASE kind = "models"
      BY <2>2 DEF MakerBegins, Models
    <2>3. CASE kind = "signals"
      BY <2>3 DEF MakerBegins, Signals
    <2>4. CASE kind = "themes"
      BY <2>4 DEF MakerBegins
    <2>. QED
      BY <1>1, <2>1, <2>2, <2>3, <2>4 DEF Kinds
  <1>. DEFINE run == tries + 1
  <1>3. kind = "chapters" => Read(contents) /\ Divided(contents)
    <2>1. EpisodesSeen \in Nat /\ EpisodesSeen <= Len(journal) /\ Least \in Nat
      BY <1>1 DEF EpisodesSeen, SnapshotsAssumption
    <2>. QED
      BY <1>1, <1>2, <2>1, ChaptersAre
  <1>4. contents \subseteq Things
    BY <1>1, <1>2, <1>3 DEF Things, Read
  <1>5. run \in Nat /\ run \in 1..tries'
    BY <1>1
  <1>. DEFINE r == [at |-> "close", run |-> run, rows |-> Rows(run, contents)]
  <1>. HIDE DEF run
  <1>6. Rows(run, contents) \subseteq SnRow /\ ContentsOf(Rows(run, contents)) = contents
        /\ \A x \in Rows(run, contents) : x.run = run
    <2>1. \A x \in contents : [is |-> x, run |-> run] \in SnRow
      BY <1>4, <1>5 DEF SnRow
    <2>2. Rows(run, contents) = {[is |-> x, run |-> run] : x \in contents}
      BY DEF Rows
    <2>3. ASSUME NEW y \in Rows(run, contents)
          PROVE  y \in SnRow /\ y.is \in contents /\ y.run = run
      <3>1. PICK x \in contents : y = [is |-> x, run |-> run]
        BY <2>2
      <3>. QED
        BY <2>1, <3>1
    <2>4. ASSUME NEW x \in contents PROVE \E y \in Rows(run, contents) : y.is = x
      <3>1. [is |-> x, run |-> run] \in Rows(run, contents) /\ [is |-> x, run |-> run].is = x
        BY <2>2
      <3>. QED
        BY <3>1
    <2>. QED
      BY <2>3, <2>4 DEF ContentsOf
  <1>7. r \in MakerStates /\ maker' = [maker EXCEPT ![k] = r] /\ r.at = "close" /\ r.run = run
        /\ r.rows = Rows(run, contents)
    BY <1>2, <1>5, <1>6 DEF MakerStates, run
  <1>. HIDE DEF r
  <1>8. /\ maker' \in [Makers -> MakerStates] /\ IsFiniteSet(Busy')
        /\ maker'[k] = r /\ \A q \in Makers \ {k} : maker'[q] = maker[q]
        /\ Inside' = Inside \ {k}
    BY <1>7, MakerMoves
  <1>9. Inside' = Inside /\ k \notin Inside
    BY <1>1, <1>8 DEF Inside
  <1>10. SnRowsOK'
    <2>1. \A x \in shown : x.run \in 1..tries'
      BY <1>1 DEF SnInv, SnRowsOK
    <2>2. tries' \in Nat
      BY <1>1
    <2>. QED
      BY <1>1, <1>8, <2>1, <2>2 DEF SnInv, SnRowsOK
  <1>11. MakerAgrees(k)'
    <2>1. ContentsOf(maker[k].rows)' = contents
      BY <1>6, <1>7, <1>8 DEF ContentsOf
    <2>2. kind = "chapters" => Read(contents)' /\ Divided(contents)'
      BY <1>1, <1>3 DEF Read, Divided
    <2>3. kind' = "chapters" => Read(ContentsOf(maker[k].rows))' /\ Divided(ContentsOf(maker[k].rows))'
      BY <1>1, <2>1, <2>2 DEF Read, Divided
    <2>. QED
      BY <1>5, <1>6, <1>7, <1>8, <2>3 DEF MakerAgrees
  <1>12. \A q \in Makers \ {k} : MakerAgrees(q)'
    <2>1. tries' \in Nat /\ tries' >= tries
      BY <1>1
    <2>. QED
      BY <1>1, <1>8, <2>1, OtherMakers
  <1>13. FewWriters'
    <2>2. {maker'[q].run : q \in Inside'} = {maker[q].run : q \in Inside}
      <3>1. \A q \in Inside : maker'[q] = maker[q]
        BY <1>8, <1>9 DEF Inside
      <3>. QED
        BY <1>9, <3>1
    <2>1. Writers' \subseteq Writers
      BY <1>1, <2>2 DEF Writers
    <2>. QED
      BY <1>1, <2>1, NoNewWriter
  <1>14. Whole' /\ LastRead'
    <2>1. \A q \in Makers : Alone(q) => Alone(q)'
      BY <1>1, <1>8, <1>9 DEF Alone
    <2>2. Whole'
      BY <1>1, <1>9, <2>1 DEF SnInv, Whole
    <2>. QED
      BY <1>1, <2>2 DEF SnInv, LastRead, Read, Divided, ContentsOf
  <1>. QED
    BY <1>10, <1>11, <1>12, <1>13, <1>14 DEF SnInv

\* It closes what is on show: whoever was amid its inserts may add to its own.
LEMMA ClosesKeeps ==
    ASSUME SnInv, NEW k \in Makers, ClosesShown(k)
    PROVE  SnInv'
  <1>1. /\ maker[k].at = "close" /\ shown' = {} /\ last' = maker[k].rows
        /\ amid' = Cardinality(Inside) /\ cut' = FALSE
        /\ UNCHANGED <<kind, journal, world, tries>> /\ maker[k] \in MakerStates
    BY DEF ClosesShown, Closed, SnInv, SnRowsOK
  <1>2. PICK r \in MakerStates :
            /\ maker' = [maker EXCEPT ![k] = r]
            /\ \/ r.at = "read" /\ kind = "themes" /\ r.run = maker[k].run /\ r.rows = maker[k].rows
               \/ r.at = "idle" /\ r.rows = {} /\ maker[k].rows = {}
               \/ r.at = "insert" /\ r.run = maker[k].run /\ r.rows = maker[k].rows
    <2>1. CASE kind = "themes"
      <3>. DEFINE r == [maker[k] EXCEPT !.at = "read"]
      <3>1. r \in MakerStates /\ r.at = "read" /\ r.run = maker[k].run /\ r.rows = maker[k].rows
        BY <1>1 DEF MakerStates
      <3>2. maker' = [maker EXCEPT ![k] = r]
        BY <2>1 DEF ClosesShown
      <3>. QED
        BY <2>1, <3>1, <3>2
    <2>2. CASE kind # "themes" /\ maker[k].rows = {}
      <3>1. maker' = [maker EXCEPT ![k] = NoMaker]
        BY <2>2 DEF ClosesShown, Ends
      <3>. QED
        BY <2>2, <3>1, NoMakerIs
    <2>3. CASE kind # "themes" /\ maker[k].rows # {}
      <3>. DEFINE r == [maker[k] EXCEPT !.at = "insert"]
      <3>1. r \in MakerStates /\ r.at = "insert" /\ r.run = maker[k].run /\ r.rows = maker[k].rows
        BY <1>1 DEF MakerStates
      <3>2. maker' = [maker EXCEPT ![k] = r]
        BY <2>3 DEF ClosesShown
      <3>. QED
        BY <3>1, <3>2
    <2>. QED
      BY <2>1, <2>2, <2>3
  <1>3. /\ maker' \in [Makers -> MakerStates] /\ IsFiniteSet(Busy')
        /\ maker'[k] = r /\ \A q \in Makers \ {k} : maker'[q] = maker[q]
        /\ Inside' = IF r.at \in {"read", "insert"} THEN Inside \cup {k} ELSE Inside \ {k}
    BY <1>2, MakerMoves
  <1>4. IsFiniteSet(Inside) /\ Cardinality(Inside) \in Nat /\ k \notin Inside
    BY <1>1, WritersFinite, FS_CardinalityType DEF Inside
  <1>5. SnRowsOK'
    BY <1>1, <1>3, <1>4 DEF SnInv, SnRowsOK, MakerStates
  <1>6. \A q \in Makers \ {k} : MakerAgrees(q)'
    BY <1>1, <1>3, OtherMakers DEF SnInv, SnRowsOK
  <1>7. MakerAgrees(k)'
    BY <1>1, <1>2, <1>3 DEF SnInv, MakerAgrees
  <1>8. FewWriters'
    <2>. DEFINE Runs == {maker[q].run : q \in Inside}
    <2>1. IsFiniteSet(Runs) /\ Cardinality(Runs) <= Cardinality(Inside)
      <3>1. [q \in Inside |-> maker[q].run] \in Surjection(Inside, Runs)
        BY DEF Surjection
      <3>. HIDE DEF Runs
      <3>. QED
        BY <1>4, <3>1, FS_Surjection
    <2>2. IsFiniteSet(Runs \cup {maker[k].run}) /\ Cardinality(Runs \cup {maker[k].run}) <= Cardinality(Runs) + 1
      <3>. HIDE DEF Runs
      <3>1. IsFiniteSet(Runs) /\ Cardinality(Runs) \in Nat
        BY <2>1, FS_CardinalityType
      <3>2. /\ IsFiniteSet(Runs \cup {maker[k].run})
            /\ Cardinality(Runs \cup {maker[k].run}) = Cardinality(Runs)
               \/ Cardinality(Runs \cup {maker[k].run}) = Cardinality(Runs) + 1
        BY <3>1, FS_AddElement
      <3>. QED
        BY <3>1, <3>2
    <2>3. Writers' \subseteq Runs \cup {maker[k].run}
      <3>1. Writers' = {maker'[q].run : q \in Inside'}
        BY <1>1 DEF Writers
      <3>2. ASSUME NEW q \in Inside' PROVE maker'[q].run \in Runs \cup {maker[k].run}
        <4>1. CASE q = k
          BY <1>2, <1>3, <3>2, <4>1
        <4>2. CASE q # k
          BY <1>3, <3>2, <4>2 DEF Inside
        <4>. QED
          BY <4>1, <4>2
      <3>. QED
        BY <3>1, <3>2
    <2>4. Cardinality(Writers') <= Cardinality(Runs \cup {maker[k].run}) /\ Cardinality(Writers') \in Nat
          /\ Cardinality(Runs \cup {maker[k].run}) \in Nat /\ Cardinality(Runs) \in Nat
      BY <2>1, <2>2, <2>3, FS_Subset, FS_CardinalityType
    <2>. HIDE DEF Runs
    <2>. QED
      BY <1>1, <1>4, <2>1, <2>2, <2>4 DEF FewWriters
  <1>9. Whole'
    <2>1. amid' = 0 => Inside = {}
      BY <1>1, <1>4, FS_EmptySet
    <2>. SUFFICES ASSUME amid' = 0 PROVE (Inside' = {} /\ shown' = last') \/ Alone(k)'
      BY DEF Whole
    <2>2. CASE r.at \in {"read", "insert"}
      BY <1>1, <1>2, <1>3, <2>1, <2>2 DEF Alone
    <2>3. CASE r.at = "idle"
      BY <1>1, <1>2, <1>3, <2>1, <2>3
    <2>. QED
      BY <1>2, <2>2, <2>3
  <1>10. LastRead'
    BY <1>1 DEF SnInv, MakerAgrees, LastRead, Read, Divided, ContentsOf
  <1>. QED
    BY <1>5, <1>6, <1>7, <1>8, <1>9, <1>10 DEF SnInv

\* surface_themes reads the graph after it closed the rest.
LEMMA ReadsGraphKeeps ==
    ASSUME SnInv, NEW k \in Makers, ReadsGraph(k)
    PROVE  SnInv'
  <1>1. /\ maker[k].at = "read" /\ kind = "themes" /\ last' = Rows(maker[k].run, world)
        /\ UNCHANGED <<kind, journal, world, shown, amid, cut, tries>> /\ maker[k] \in MakerStates
        /\ world \subseteq Subjects /\ k \in Inside /\ maker[k].run \in 1..tries /\ tries \in Nat
    BY DEF ReadsGraph, Themes, SnInv, SnRowsOK, MakerAgrees, Inside
  <1>2. last' \subseteq SnRow /\ \A x \in last' : x.run = maker[k].run
    <2>. SUFFICES ASSUME NEW x \in last' PROVE x \in SnRow /\ x.run = maker[k].run
      OBVIOUS
    <2>1. PICK y \in world : x = [is |-> y, run |-> maker[k].run]
      BY <1>1 DEF Rows
    <2>2. y \in Things /\ maker[k].run \in Nat
      BY <1>1 DEF Things
    <2>. QED
      BY <2>1, <2>2 DEF SnRow
  <1>3. PICK r \in MakerStates :
            /\ maker' = [maker EXCEPT ![k] = r]
            /\ \/ r.at = "idle" /\ r.rows = {} /\ last' = {}
               \/ r.at = "insert" /\ r.run = maker[k].run /\ r.rows = last'
    <2>1. CASE last' = {}
      <3>1. maker' = [maker EXCEPT ![k] = NoMaker]
        BY <2>1 DEF ReadsGraph, Ends
      <3>. QED
        BY <2>1, <3>1, NoMakerIs
    <2>2. CASE last' # {}
      <3>. DEFINE r == [maker[k] EXCEPT !.at = "insert", !.rows = last']
      <3>1. r \in MakerStates /\ r.at = "insert" /\ r.run = maker[k].run /\ r.rows = last'
        BY <1>1, <1>2 DEF MakerStates
      <3>2. maker' = [maker EXCEPT ![k] = r]
        BY <2>2 DEF ReadsGraph
      <3>. QED
        BY <3>1, <3>2
    <2>. QED
      BY <2>1, <2>2
  <1>4. /\ maker' \in [Makers -> MakerStates] /\ IsFiniteSet(Busy')
        /\ maker'[k] = r /\ \A q \in Makers \ {k} : maker'[q] = maker[q]
        /\ Inside' = IF r.at \in {"read", "insert"} THEN Inside \cup {k} ELSE Inside \ {k}
    BY <1>3, MakerMoves
  <1>5. SnRowsOK'
    BY <1>1, <1>2, <1>4 DEF SnInv, SnRowsOK
  <1>6. \A q \in Makers \ {k} : MakerAgrees(q)'
    BY <1>1, <1>4, OtherMakers DEF SnInv, SnRowsOK
  <1>7. MakerAgrees(k)'
    BY <1>1, <1>2, <1>3, <1>4 DEF MakerAgrees
  <1>8. FewWriters'
    <2>1. ASSUME NEW q \in Inside' PROVE maker'[q].run \in {maker[j].run : j \in Inside}
      BY <1>1, <1>3, <1>4, <2>1 DEF Inside
    <2>2. Writers' \subseteq Writers
      BY <1>1, <2>1 DEF Writers
    <2>. QED
      BY <1>1, <2>2, NoNewWriter
  <1>9. Whole'
    <2>1. ASSUME amid = 0, ~cut PROVE Inside = {k} /\ shown = {}
      BY <1>1, <2>1 DEF SnInv, Whole, Alone
    <2>. SUFFICES ASSUME amid = 0, ~cut PROVE (Inside' = {} /\ shown' = last') \/ Alone(k)'
      BY <1>1 DEF Whole
    <2>. QED
      BY <1>1, <1>3, <1>4, <2>1 DEF Alone
  <1>10. LastRead'
    BY <1>1 DEF LastRead
  <1>. QED
    BY <1>5, <1>6, <1>7, <1>8, <1>9, <1>10 DEF SnInv

\* A row goes from the call to what is on show.
LEMMA InsertsKeeps ==
    ASSUME SnInv, NEW k \in Makers, NEW x \in maker[k].rows, Inserts(k, x)
    PROVE  SnInv'
  <1>1. /\ maker[k].at = "insert" /\ shown' = shown \cup {x} /\ maker[k] \in MakerStates
        /\ UNCHANGED <<kind, journal, world, last, amid, cut, tries>>
        /\ k \in Inside /\ maker[k].run \in 1..tries /\ tries \in Nat /\ x.run = maker[k].run /\ x \in SnRow
    BY DEF Inserts, SnInv, SnRowsOK, MakerAgrees, Inside, MakerStates
  <1>2. PICK r \in MakerStates :
            /\ maker' = [maker EXCEPT ![k] = r] /\ r.rows = maker[k].rows \ {x}
            /\ \/ r.at = "idle" /\ r.rows = {}
               \/ r.at = "insert" /\ r.run = maker[k].run
    <2>1. CASE maker[k].rows = {x}
      <3>1. maker' = [maker EXCEPT ![k] = NoMaker]
        BY <2>1 DEF Inserts, Ends
      <3>. QED
        BY <2>1, <3>1, NoMakerIs
    <2>2. CASE maker[k].rows # {x}
      <3>. DEFINE r == [maker[k] EXCEPT !.rows = @ \ {x}]
      <3>1. r \in MakerStates /\ r.at = "insert" /\ r.run = maker[k].run /\ r.rows = maker[k].rows \ {x}
        BY <1>1 DEF MakerStates
      <3>2. maker' = [maker EXCEPT ![k] = r]
        BY <2>2 DEF Inserts
      <3>. QED
        BY <3>1, <3>2
    <2>. QED
      BY <2>1, <2>2
  <1>3. /\ maker' \in [Makers -> MakerStates] /\ IsFiniteSet(Busy')
        /\ maker'[k] = r /\ \A q \in Makers \ {k} : maker'[q] = maker[q]
        /\ Inside' = IF r.at \in {"read", "insert"} THEN Inside \cup {k} ELSE Inside \ {k}
    BY <1>2, MakerMoves
  <1>4. SnRowsOK'
    BY <1>1, <1>3 DEF SnInv, SnRowsOK
  <1>5. \A q \in Makers \ {k} : MakerAgrees(q)'
    BY <1>1, <1>3, OtherMakers DEF SnInv, SnRowsOK
  <1>6. MakerAgrees(k)'
    BY <1>1, <1>2, <1>3 DEF SnInv, MakerAgrees
  <1>7. FewWriters'
    <2>1. ASSUME NEW q \in Inside' PROVE maker'[q].run \in {maker[j].run : j \in Inside}
      BY <1>1, <1>2, <1>3, <2>1 DEF Inside
    <2>2. x.run \in {maker[j].run : j \in Inside}
      BY <1>1
    <2>3. Writers' \subseteq Writers
      BY <1>1, <2>1, <2>2 DEF Writers
    <2>. QED
      BY <1>1, <2>3, NoNewWriter
  <1>8. Whole'
    <2>1. ASSUME amid = 0, ~cut PROVE Inside = {k} /\ shown \cup maker[k].rows = last
      BY <1>1, <2>1 DEF SnInv, Whole, Alone
    <2>. SUFFICES ASSUME amid = 0, ~cut PROVE (Inside' = {} /\ shown' = last') \/ Alone(k)'
      BY <1>1 DEF Whole
    <2>2. shown' \cup r.rows = last'
      BY <1>1, <1>2, <2>1
    <2>. QED
      BY <1>2, <1>3, <2>1, <2>2 DEF Alone
  <1>9. LastRead'
    BY <1>1 DEF SnInv, LastRead, Read, Divided, ContentsOf
  <1>. QED
    BY <1>4, <1>5, <1>6, <1>7, <1>8, <1>9 DEF SnInv

LEMMA BreaksKeeps ==
    ASSUME SnInv, NEW k \in Makers, Breaks(k)
    PROVE  SnInv'
  <1>1. /\ cut' = (cut \/ k \in Inside) /\ maker' = [maker EXCEPT ![k] = NoMaker]
        /\ UNCHANGED <<kind, journal, world, shown, last, amid, tries>> /\ tries \in Nat
    BY DEF Breaks, Ends, SnInv, SnRowsOK
  <1>2. /\ maker' \in [Makers -> MakerStates] /\ IsFiniteSet(Busy')
        /\ maker'[k] = NoMaker /\ \A q \in Makers \ {k} : maker'[q] = maker[q]
        /\ Inside' = Inside \ {k}
    BY <1>1, MakerMoves, NoMakerIs
  <1>3. SnRowsOK'
    <2>1. cut' \in BOOLEAN
      BY <1>1
    <2>. QED
      BY <1>1, <1>2, <2>1 DEF SnInv, SnRowsOK
  <1>4. \A q \in Makers \ {k} : MakerAgrees(q)'
    BY <1>1, <1>2, OtherMakers DEF SnInv, SnRowsOK
  <1>5. MakerAgrees(k)'
    BY <1>2, NoMakerIs DEF MakerAgrees
  <1>6. FewWriters'
    <2>1. ASSUME NEW q \in Inside' PROVE maker'[q].run \in {maker[j].run : j \in Inside}
      BY <1>2, <2>1 DEF Inside
    <2>2. Writers' \subseteq Writers
      BY <1>1, <2>1 DEF Writers
    <2>. QED
      BY <1>1, <2>2, NoNewWriter
  <1>7. Whole'
    <2>. SUFFICES ASSUME amid = 0, ~cut, k \notin Inside PROVE Whole'
      BY <1>1 DEF Whole
    <2>1. Inside' = Inside
      BY <1>2
    <2>2. \A q \in Makers : Alone(q) => Alone(q)'
      BY <1>1, <1>2, <2>1 DEF Alone
    <2>. QED
      BY <1>1, <2>1, <2>2 DEF SnInv, Whole
  <1>8. LastRead'
    BY <1>1 DEF SnInv, LastRead, Read, Divided, ContentsOf
  <1>. QED
    BY <1>3, <1>4, <1>5, <1>6, <1>7, <1>8 DEF SnInv

\* The journal grows, or the graph, the goals and the beliefs do.
LEMMA GrowsKeeps ==
    ASSUME SnInv, (\E shift \in BOOLEAN : JournalGrows(shift)) \/ (\E x \in Subjects : Learns(x))
    PROVE  SnInv'
  <1>1. /\ UNCHANGED <<kind, shown, maker, last, amid, cut, tries>> /\ tries \in Nat
        /\ journal \in Seq(BOOLEAN)
        /\ journal' = journal \/ \E shift \in BOOLEAN : journal' = Append(journal, shift)
        /\ world' \subseteq Subjects
    BY DEF JournalGrows, Learns, SnInv, SnRowsOK
  <1>2. journal' \in Seq(BOOLEAN)
    BY <1>1
  <1>3. SnRowsOK'
    BY <1>1, <1>2 DEF SnInv, SnRowsOK, Busy
  <1>4. \A q \in Makers : MakerAgrees(q)'
    BY <1>1, OtherMakers
  <1>5. FewWriters' /\ Whole'
    BY <1>1 DEF SnInv, FewWriters, Writers, Inside, Whole, Alone
  <1>6. LastRead'
    <2>1. PICK chapters : chapters = ContentsOf(last)
      OBVIOUS
    <2>2. ContentsOf(last)' = chapters
      BY <1>1, <2>1 DEF ContentsOf
    <2>3. CASE journal' = journal
      BY <1>1, <2>3 DEF SnInv, LastRead, Read, Divided, ContentsOf
    <2>4. CASE \E shift \in BOOLEAN : journal' = Append(journal, shift)
      <3>1. ASSUME kind = "chapters" PROVE Read(chapters)' /\ Divided(chapters)'
        BY <1>1, <2>1, <2>4, <3>1, ReadStays DEF SnInv, LastRead
      <3>. QED
        BY <1>1, <2>2, <3>1 DEF LastRead, Read, Divided
    <2>. QED
      BY <1>1, <2>3, <2>4
  <1>. QED
    BY <1>3, <1>4, <1>5, <1>6 DEF SnInv

LEMMA SnStep ==
    ASSUME SnapshotsAssumption, SnInv, [SnNext]_snVars
    PROVE  SnInv'
  <1>1. ASSUME NEW k \in Makers, MakerBegins(k) \/ ClosesShown(k) \/ ReadsGraph(k) \/ Breaks(k) PROVE SnInv'
    BY <1>1, BeginsKeeps, ClosesKeeps, ReadsGraphKeeps, BreaksKeeps
  <1>2. ASSUME NEW k \in Makers, NEW r \in maker[k].rows, Inserts(k, r) PROVE SnInv'
    BY <1>2, InsertsKeeps
  <1>3. CASE UNCHANGED snVars
    <2>1. UNCHANGED <<kind, journal, world, shown, maker, last, amid, cut, tries>>
      BY <1>3 DEF snVars
    <2>2. \A q \in Makers : MakerAgrees(q)'
      BY <2>1, OtherMakers DEF SnInv, SnRowsOK
    <2>3. SnRowsOK' /\ FewWriters' /\ Whole'
      BY <2>1 DEF SnInv, SnRowsOK, Busy, FewWriters, Writers, Inside, Whole, Alone
    <2>4. LastRead'
      BY <2>1 DEF SnInv, LastRead, Read, Divided, ContentsOf
    <2>. QED
      BY <2>2, <2>3, <2>4 DEF SnInv
  <1>. QED
    BY <1>1, <1>2, <1>3, GrowsKeeps DEF SnNext

\* The chapters, themes, signals or models on show are the whole of one run, and of
\* more only by overlaps and broken runs, and chapters divide the episodes read, for
\* any calls, journals and subjects (cognition/narrative, attention and meta).
THEOREM SnapshotsHold ==
    ASSUME SnapshotsAssumption
    PROVE  SnSpec => []SnapshotsWhole
  <1>1. SnInit => SnInv
    BY StartsSnapshots
  <1>2. SnInv /\ [SnNext]_snVars => SnInv'
    BY SnStep
  <1>3. SnInv => SnapshotsWhole
    <2>. SUFFICES ASSUME SnInv PROVE SnapshotsWhole
      OBVIOUS
    <2>1. SnTypeOK /\ WholeSnapshot
      BY DEF SnInv, SnRowsOK, SnTypeOK, Whole, WholeSnapshot, Alone
    <2>2. BoundedSnapshot
      <3>1. {r.run : r \in shown} \subseteq Writers
        BY DEF Writers
      <3>2. Cardinality({r.run : r \in shown}) <= Cardinality(Writers) /\ Cardinality(Writers) \in Nat
            /\ Cardinality({r.run : r \in shown}) \in Nat
        BY <3>1, WritersFinite, FS_Subset, FS_CardinalityType
      <3>3. amid \in Nat /\ Cardinality(Writers) <= 1 + amid
        BY DEF SnInv, SnRowsOK, FewWriters
      <3>. QED
        BY <3>2, <3>3 DEF BoundedSnapshot
    <2>3. ChaptersDivide
      BY DEF SnInv, LastRead, Divided, ContentsOf, ChaptersDivide
    <2>. QED
      BY <2>1, <2>2, <2>3 DEF SnapshotsWhole
  <1>. QED
    BY <1>1, <1>2, <1>3, PTL DEF SnSpec


-----------------------------------------------------------------------------
(* Sorting.  A finite set under a total order, a set of pairs, has a last     *)
(* member, and so a sequence that lists it in order.                          *)

Orders(S, R) ==
    /\ \A a, b \in S : a # b => <<a, b>> \in R \/ <<b, a>> \in R
    /\ \A a, b, c \in S : <<a, b>> \in R /\ <<b, c>> \in R => <<a, c>> \in R
IsLast(m, T, R) == m \in T /\ \A a \in T \ {m} : <<a, m>> \in R
InOrder(f, R) == \A i, j \in DOMAIN f : i < j => <<f[i], f[j]>> \in R

LEMMA LastExists ==
    ASSUME NEW S, IsFiniteSet(S), NEW R, Orders(S, R), S # {}
    PROVE  \E m : IsLast(m, S, R)
  <1>. DEFINE Bad(n) == \E T \in SUBSET S : T # {} /\ Cardinality(T) = n /\ ~ \E m : IsLast(m, T, R)
              Bads == {n \in Nat : Bad(n)}
  <1>. SUFFICES ASSUME ~ \E m : IsLast(m, S, R) PROVE FALSE
    OBVIOUS
  <1>1. Cardinality(S) \in Bads
    BY FS_CardinalityType
  <1>2. PICK n \in Bads : \A y \in Bads : n <= y
    <2>1. Bads \subseteq Nat /\ Bads # {}
      BY <1>1
    <2>. HIDE DEF Bads
    <2>. QED
      BY <2>1, FirstOf
  <1>3. PICK T \in SUBSET S : T # {} /\ Cardinality(T) = n /\ ~ \E m : IsLast(m, T, R)
    BY <1>2
  <1>4. PICK x \in T : TRUE
    BY <1>3
  <1>. DEFINE U == T \ {x}
  <1>5. IsFiniteSet(T) /\ Cardinality(U) = n - 1 /\ U \in SUBSET S /\ n \in Nat /\ n # 0
    <2>1. IsFiniteSet(T)
      BY FS_Subset
    <2>2. Cardinality(U) = n - 1
      BY <1>3, <2>1, FS_RemoveElement
    <2>3. n # 0
      BY <1>3, <2>1, FS_EmptySet
    <2>. QED
      BY <1>2, <2>1, <2>2, <2>3
  <1>6. U # {}
    <2>1. U = {} => IsLast(x, T, R)
      BY DEF IsLast
    <2>. QED
      BY <1>3, <2>1
  <1>7. PICK m : IsLast(m, U, R)
    <2>1. n - 1 \in Nat /\ n - 1 \notin Bads
      BY <1>2, <1>5
    <2>2. ~Bad(n - 1)
      BY <2>1
    <2>. QED
      BY <1>5, <1>6, <2>2
  <1>8. m \in S /\ x \in S /\ m # x /\ m \in T
    BY <1>7 DEF IsLast
  <1>9. CASE <<m, x>> \in R
    <2>1. ASSUME NEW a \in T \ {x} PROVE <<a, x>> \in R
      <3>1. a = m \/ <<a, m>> \in R
        BY <1>7 DEF IsLast
      <3>. QED
        BY <1>8, <1>9, <3>1 DEF Orders
    <2>2. IsLast(x, T, R)
      BY <2>1 DEF IsLast
    <2>. QED
      BY <1>3, <2>2
  <1>10. CASE <<x, m>> \in R
    <2>1. IsLast(m, T, R)
      BY <1>7, <1>8, <1>10 DEF IsLast
    <2>. QED
      BY <1>3, <2>1
  <1>. QED
    BY <1>8, <1>9, <1>10 DEF Orders

LEMMA OrderExists ==
    ASSUME NEW S, IsFiniteSet(S), NEW R, Orders(S, R)
    PROVE  \E f \in SetToSeqs(S) : InOrder(f, R)
  <1>. DEFINE Bad(n) == \E T \in SUBSET S :
                  Cardinality(T) = n /\ ~ \E f \in SetToSeqs(T) : InOrder(f, R)
              Bads == {n \in Nat : Bad(n)}
  <1>. SUFFICES ASSUME ~ \E f \in SetToSeqs(S) : InOrder(f, R) PROVE FALSE
    OBVIOUS
  <1>1. Cardinality(S) \in Bads
    BY FS_CardinalityType
  <1>2. PICK n \in Bads : \A y \in Bads : n <= y
    <2>1. Bads \subseteq Nat /\ Bads # {}
      BY <1>1
    <2>. HIDE DEF Bads
    <2>. QED
      BY <2>1, FirstOf
  <1>3. PICK T \in SUBSET S : Cardinality(T) = n /\ ~ \E f \in SetToSeqs(T) : InOrder(f, R)
    BY <1>2
  <1>4. IsFiniteSet(T) /\ n \in Nat
    BY <1>2, FS_Subset
  <1>5. T # {}
    <2>. SUFFICES ASSUME T = {} PROVE FALSE
      OBVIOUS
    <2>. DEFINE f == [i \in 1..0 |-> 0]
    <2>1. Cardinality(T) = 0
      BY FS_EmptySet
    <2>2. f \in SetToSeqs(T) /\ InOrder(f, R)
      BY <2>1 DEF SetToSeqs, InOrder
    <2>. QED
      BY <1>3, <2>2
  <1>6. PICK m : IsLast(m, T, R)
    <2>1. Orders(T, R)
      BY DEF Orders
    <2>. QED
      BY <1>4, <1>5, <2>1, LastExists
  <1>. DEFINE U == T \ {m}
  <1>7. m \in T /\ Cardinality(U) = n - 1 /\ n # 0 /\ n - 1 \in Nat
    <2>1. m \in T
      BY <1>6 DEF IsLast
    <2>2. n # 0
      BY <1>3, <1>4, <1>5, FS_EmptySet
    <2>. QED
      BY <1>3, <1>4, <2>1, <2>2, FS_RemoveElement
  <1>8. PICK g \in SetToSeqs(U) : InOrder(g, R)
    <2>1. ~Bad(n - 1)
      BY <1>2, <1>7
    <2>. QED
      BY <1>7, <2>1
  <1>9. g \in [1..(n - 1) -> U] /\ \A i, j \in 1..(n - 1) : i # j => g[i] # g[j]
    BY <1>7 DEF SetToSeqs
  <1>. DEFINE f == [i \in 1..n |-> IF i < n THEN g[i] ELSE m]
  <1>10. /\ \A i \in 1..(n - 1) : f[i] = g[i] /\ g[i] \in U
         /\ f[n] = m /\ \A i \in 1..n : i \in 1..(n - 1) \/ i = n
         /\ n \in 1..n /\ 1..(n - 1) \subseteq 1..n /\ DOMAIN f = 1..n
    BY <1>4, <1>7, <1>9
  <1>11. f \in [1..n -> T]
    BY <1>4, <1>7, <1>9
  <1>. HIDE DEF f
  <1>12. \A i, j \in 1..n : i # j => f[i] # f[j]
    BY <1>9, <1>10
  <1>13. InOrder(f, R)
    <2>1. ASSUME NEW i \in 1..n, NEW j \in 1..n, i < j PROVE <<f[i], f[j]>> \in R
      <3>1. i \in 1..(n - 1)
        BY <1>4, <2>1
      <3>2. CASE j = n
        BY <1>6, <1>10, <3>1, <3>2 DEF IsLast
      <3>3. CASE j \in 1..(n - 1)
        <4>1. <<g[i], g[j]>> \in R
          BY <1>8, <1>9, <2>1, <3>1, <3>3 DEF InOrder
        <4>. QED
          BY <1>10, <3>1, <3>3, <4>1
      <3>. QED
        BY <1>10, <3>2, <3>3
    <2>. QED
      BY <1>10, <2>1 DEF InOrder
  <1>14. f \in SetToSeqs(T)
    BY <1>3, <1>11, <1>12 DEF SetToSeqs
  <1>. QED
    BY <1>3, <1>13, <1>14

\* The sequences of SetToSeqs list the set, each member once.
LEMMA Lists ==
    ASSUME NEW S, IsFiniteSet(S), NEW f \in SetToSeqs(S)
    PROVE  /\ f \in Seq(S) /\ Len(f) = Cardinality(S) /\ Cardinality(S) \in Nat
           /\ DOMAIN f = 1..Len(f) /\ ToSet(f) = S /\ Distinct(f)
  <1>. DEFINE n == Cardinality(S)
              D == 1..n
  <1>1. n \in Nat
    BY FS_CardinalityType
  <1>2. f \in [D -> S] /\ \A i, j \in D : i # j => f[i] # f[j]
    BY DEF SetToSeqs
  <1>. HIDE DEF n
  <1>3. IsFiniteSet(D) /\ Cardinality(D) = n
    <2>1. 1 \in Int /\ n \in Int /\ (IF 1 > n THEN 0 ELSE n - 1 + 1) = n
      BY <1>1
    <2>. QED
      BY <2>1, FS_Interval
  <1>4. f \in Injection(D, S)
    BY <1>2 DEF Injection, IsInjective
  <1>5. f \in Surjection(D, S)
    <2>1. Cardinality(D) = Cardinality(S) <=> f \in Surjection(D, S)
      BY <1>4, FS_Injection
    <2>. QED
      BY <1>3, <2>1 DEF n
  <1>6. \A x \in S : \E a \in D : f[a] = x
    BY <1>5 DEF Surjection
  <1>7. f \in Seq(S) /\ Len(f) = n /\ DOMAIN f = D
    BY <1>1, <1>2
  <1>8. ToSet(f) = S
    BY <1>2, <1>6, <1>7 DEF ToSet
  <1>9. Distinct(f)
    BY <1>2, <1>7 DEF Distinct
  <1>. QED
    BY <1>1, <1>7, <1>8, <1>9 DEF n

\* What is in a sequence has a first place in it.
LEMMA FirstPlace ==
    ASSUME NEW X, NEW s \in Seq(X), NEW id \in ToSet(s)
    PROVE  /\ Position(id, s) \in 1..Len(s) /\ s[Position(id, s)] = id
           /\ Distinct(s) => \A i \in 1..Len(s) : s[i] = id => Position(id, s) = i
  <1>. DEFINE places == {i \in 1..Len(s) : s[i] = id}
              IsFirst(i) == s[i] = id /\ \A k \in 1..(i - 1) : s[k] # id
              p == CHOOSE i \in 1..Len(s) : IsFirst(i)
  <1>0. DOMAIN s = 1..Len(s) /\ Len(s) \in Nat
    OBVIOUS
  <1>1. places # {} /\ places \subseteq Nat
    BY <1>0 DEF ToSet
  <1>2. PICK i \in places : \A k \in places : i <= k
    <2>. HIDE DEF places
    <2>. QED
      BY <1>1, FirstOf
  <1>3. i \in 1..Len(s) /\ IsFirst(i)
    BY <1>0, <1>2
  <1>4. p \in 1..Len(s) /\ IsFirst(p)
    <2>. HIDE DEF IsFirst
    <2>. QED
      BY <1>3, Zenon
  <1>5. Position(id, s) = p
    BY <1>0 DEF Position
  <1>. QED
    BY <1>0, <1>4, <1>5 DEF Distinct

-----------------------------------------------------------------------------
(* Fusion.  The candidates are the ids of the four channels, in the order of  *)
(* their scores and, within a score, of their first places.                   *)

Ranks == [Channels -> Seq(Findable)]
Cands(f) == f["dense"] \o f["sparse"] \o f["entity"] \o f["graph"]
Ahead(a, b, f) ==
    \/ FusedScore(a, f) > FusedScore(b, f)
    \/ /\ FusedScore(a, f) = FusedScore(b, f)
       /\ Position(a, Cands(f)) < Position(b, Cands(f))

LEMMA Quotient ==
    ASSUME NEW p \in Nat, p # 0
    PROVE  1000000 \div p \in Nat /\ p * (1000000 \div p) <= 1000000
           /\ 1000000 < p * (1000000 \div p) + p
  <1>1. 1000000 \div p \in Nat
    OBVIOUS
  <1>2. p * (1000000 \div p) <= 1000000
    OBVIOUS
  <1>3. 1000000 < p * (1000000 \div p) + p
    OBVIOUS
  <1>. QED
    BY <1>1, <1>2, <1>3

\* Two ranks that differ have scores that differ, up to 1000 places.
LEMMA Smaller ==
    ASSUME NEW a \in Nat, a # 0, NEW b \in Nat, a < b, b <= 1000, NEW x \in Nat, NEW y \in Nat,
           b * y <= 1000000, 1000000 < b * y + b, a * x <= 1000000, 1000000 < a * x + a
    PROVE  y < x
  <1>. SUFFICES ASSUME x <= y PROVE FALSE
    OBVIOUS
  <1>1. a * x <= a * y
    OBVIOUS
  <1>2. a * y + y <= b * y
    OBVIOUS
  <1>3. y < a
    BY <1>1, <1>2
  <1>4. b * y + b <= b * a
    OBVIOUS
  <1>. QED
    BY <1>3, <1>4

Share(p) == 1000000 \div (60 + p)

LEMMA ShareIs ==
    ASSUME NEW p \in Nat, p # 0, p <= 900
    PROVE  /\ Share(p) \in Nat /\ Share(p) > 0
           /\ (60 + p) * Share(p) <= 1000000 /\ 1000000 < (60 + p) * Share(p) + (60 + p)
  <1>. DEFINE a == 60 + p
              x == Share(p)
  <1>1. a \in Nat /\ a # 0 /\ a <= 1000
    OBVIOUS
  <1>2. x = 1000000 \div a
    BY DEF Share
  <1>. HIDE DEF a, x
  <1>3. x \in Nat /\ a * x <= 1000000 /\ 1000000 < a * x + a
    BY <1>1, <1>2, Quotient
  <1>4. x > 0
    <2>1. x = 0 => a * x + a = a
      BY <1>1, <1>3
    <2>. QED
      BY <1>1, <1>3, <2>1
  <1>. QED
    BY <1>3, <1>4 DEF a, x

LEMMA SharePositive ==
    ASSUME NEW p \in Nat, p # 0, p <= 900
    PROVE  Share(p) \in Nat /\ Share(p) > 0
  BY ShareIs

LEMMA ShareFalls ==
    ASSUME NEW p \in Nat, NEW q \in Nat, p # 0, p < q, q <= 900
    PROVE  Share(p) > Share(q)
  <1>. DEFINE a == 60 + p
              b == 60 + q
              x == Share(p)
              y == Share(q)
  <1>1. a \in Nat /\ a # 0 /\ b \in Nat /\ a < b /\ b <= 1000
    OBVIOUS
  <1>2. x \in Nat /\ a * x <= 1000000 /\ 1000000 < a * x + a
    <2>1. p <= 900
      OBVIOUS
    <2>. QED
      BY <2>1, ShareIs
  <1>3. y \in Nat /\ b * y <= 1000000 /\ 1000000 < b * y + b
    <2>1. q # 0
      OBVIOUS
    <2>. QED
      BY <2>1, ShareIs
  <1>. HIDE DEF a, b, x, y
  <1>4. y < x
    BY <1>1, <1>2, <1>3, Smaller
  <1>5. x > y
    BY <1>2, <1>3, <1>4
  <1>. QED
    BY <1>5 DEF x, y

\* The score of a rank, over the places of the items that have one.
LEMMA RankScores ==
    ASSUME NEW s \in Seq(Findable), Len(s) <= 900, NEW a, NEW b
    PROVE  /\ RankScore(a, s) \in Nat
           /\ a \in ToSet(s) => RankScore(a, s) > 0
           /\ b \notin ToSet(s) => RankScore(b, s) = 0
           /\ a \in ToSet(s) /\ b \in ToSet(s) /\ Position(a, s) < Position(b, s) =>
                 RankScore(a, s) > RankScore(b, s)
           /\ a \in ToSet(s) /\ b \in ToSet(s) /\ Position(a, s) = Position(b, s) =>
                 RankScore(a, s) = RankScore(b, s)
  <1>. DEFINE p == Position(a, s)
              q == Position(b, s)
  <1>0. Len(s) \in Nat /\ \A i \in 1..Len(s) : i \in Nat /\ i # 0 /\ i <= 900
    OBVIOUS
  <1>1. a \in ToSet(s) => p \in 1..Len(s)
    BY FirstPlace
  <1>2. b \in ToSet(s) => q \in 1..Len(s)
    BY FirstPlace
  <1>3. RankScore(a, s) = IF a \in ToSet(s) THEN Share(p) ELSE 0
    BY SMT DEF RankScore, Share
  <1>4. RankScore(b, s) = IF b \in ToSet(s) THEN Share(q) ELSE 0
    BY SMT DEF RankScore, Share
  <1>. HIDE DEF p, q
  <1>5. ASSUME a \in ToSet(s) PROVE Share(p) \in Nat /\ Share(p) > 0
    <2>1. p \in Nat /\ p # 0 /\ p <= 900
      BY <1>0, <1>1, <1>5
    <2>. QED
      BY <2>1, SharePositive
  <1>6. ASSUME a \in ToSet(s), b \in ToSet(s), p < q PROVE Share(p) > Share(q)
    <2>1. p \in Nat /\ p # 0 /\ q \in Nat /\ q <= 900
      BY <1>0, <1>1, <1>2, <1>6
    <2>. QED
      BY <1>6, <2>1, ShareFalls
  <1>. QED
    BY <1>3, <1>4, <1>5, <1>6 DEF p, q

LEMMA Scores ==
    ASSUME NEW f \in Ranks, NEW id, \A c \in Channels : Len(f[c]) <= 900
    PROVE  /\ FusedScore(id, f) \in Nat /\ Recency(id) \in {105, 130}
           /\ \A c \in {"dense", "sparse", "entity"} : RankScore(id, f[c]) \in Nat
  <1>1. /\ f["dense"] \in Seq(Findable) /\ f["sparse"] \in Seq(Findable)
        /\ f["entity"] \in Seq(Findable)
        /\ Len(f["dense"]) <= 900 /\ Len(f["sparse"]) <= 900 /\ Len(f["entity"]) <= 900
    BY DEF Ranks, Channels
  <1>2. RankScore(id, f["dense"]) \in Nat
    BY <1>1, RankScores
  <1>3. RankScore(id, f["sparse"]) \in Nat
    BY <1>1, RankScores
  <1>4. RankScore(id, f["entity"]) \in Nat
    BY <1>1, RankScores
  <1>5. Recency(id) \in {105, 130}
    BY DEF Recency
  <1>. DEFINE x == RankScore(id, f["dense"])
              y == RankScore(id, f["sparse"])
              z == RankScore(id, f["entity"])
              r == Recency(id)
  <1>6. FusedScore(id, f) = (x + y + z) * r
    BY DEF FusedScore
  <1>7. FusedScore(id, f) \in Nat
    <2>. HIDE DEF x, y, z, r
    <2>1. x \in Nat /\ y \in Nat /\ z \in Nat /\ r \in Nat
      BY <1>2, <1>3, <1>4, <1>5 DEF x, y, z, r
    <2>. QED
      BY <1>6, <2>1
  <1>. QED
    BY <1>2, <1>3, <1>4, <1>5, <1>7

LEMMA FusedIs ==
    ASSUME RetrievalAssumption, NEW f \in Ranks, \A c \in Channels : Len(f[c]) <= 900
    PROVE  /\ Fused(f) \in SetToSeqs(ToSet(Cands(f)))
           /\ \A i, j \in DOMAIN Fused(f) : i < j => Ahead(Fused(f)[i], Fused(f)[j], f)
           /\ IsFiniteSet(ToSet(Cands(f))) /\ ToSet(Cands(f)) \subseteq Findable
  <1>. DEFINE S == ToSet(Cands(f))
              cands == Cands(f)
              R == {p \in S \X S : Ahead(p[1], p[2], f)}
              Sorted(order) == \A i, j \in DOMAIN order : i < j => Ahead(order[i], order[j], f)
  <1>1. cands \in Seq(Findable)
    <2>1. /\ f["dense"] \in Seq(Findable) /\ f["sparse"] \in Seq(Findable)
          /\ f["entity"] \in Seq(Findable) /\ f["graph"] \in Seq(Findable)
      BY DEF Ranks, Channels
    <2>. QED
      BY <2>1 DEF Cands
  <1>2. S \subseteq Findable
    BY <1>1 DEF ToSet
  <1>3. IsFiniteSet(S)
    BY <1>2, FS_Subset DEF RetrievalAssumption, Findable
  <1>4. \A a \in S : Position(a, cands) \in Nat /\ cands[Position(a, cands)] = a
    <2>1. ASSUME NEW a \in S PROVE Position(a, cands) \in Nat /\ cands[Position(a, cands)] = a
      <3>1. Position(a, cands) \in 1..Len(cands) /\ cands[Position(a, cands)] = a
        BY <1>1, <2>1, FirstPlace
      <3>. QED
        BY <1>1, <3>1
    <2>. QED
      BY <2>1
  <1>5. \A a \in S : FusedScore(a, f) \in Nat
    BY Scores
  <1>6. Orders(S, R)
    <2>1. ASSUME NEW a \in S, NEW b \in S, a # b PROVE <<a, b>> \in R \/ <<b, a>> \in R
      <3>1. Position(a, cands) # Position(b, cands)
        BY <1>4, <2>1
      <3>2. Ahead(a, b, f) \/ Ahead(b, a, f)
        BY <1>4, <1>5, <3>1 DEF Ahead
      <3>. QED
        BY <3>2
    <2>2. ASSUME NEW a \in S, NEW b \in S, NEW c \in S, <<a, b>> \in R, <<b, c>> \in R
          PROVE  <<a, c>> \in R
      <3>1. Ahead(a, b, f) /\ Ahead(b, c, f)
        BY <2>2
      <3>2. Ahead(a, c, f)
        BY <1>4, <1>5, <3>1 DEF Ahead
      <3>. QED
        BY <3>2
    <2>. HIDE DEF R, S
    <2>. QED
      BY <2>1, <2>2 DEF Orders
  <1>7. PICK order \in SetToSeqs(S) : InOrder(order, R)
    <2>. HIDE DEF R, S
    <2>. QED
      BY <1>3, <1>6, OrderExists
  <1>8. Sorted(order)
    BY <1>7 DEF InOrder
  <1>9. Fused(f) = CHOOSE o \in SetToSeqs(S) : Sorted(o)
    BY DEF Fused, Ahead, Cands
  <1>10. Fused(f) \in SetToSeqs(S) /\ Sorted(Fused(f))
    <2>. HIDE DEF S, Sorted
    <2>. QED
      BY <1>7, <1>8, <1>9, Zenon
  <1>. QED
    BY <1>2, <1>3, <1>10

\* What dominates scores more.
Short(f) == \A c \in Channels : Len(f[c]) <= Cardinality(Findable)

LEMMA FewFindable ==
    ASSUME RetrievalAssumption
    PROVE  /\ IsFiniteSet(Findable) /\ Cardinality(Findable) \in Nat
           /\ \A f \in Ranks : Short(f) => \A c \in Channels : Len(f[c]) <= 900
  <1>1. IsFiniteSet(Findable) /\ Cardinality(Findable) <= 900
    BY DEF RetrievalAssumption, Findable
  <1>2. Cardinality(Findable) \in Nat
    BY <1>1, FS_CardinalityType
  <1>3. ASSUME NEW f \in Ranks, Short(f), NEW c \in Channels PROVE Len(f[c]) <= 900
    <2>1. Len(f[c]) \in Nat /\ Len(f[c]) <= Cardinality(Findable)
      BY <1>3 DEF Ranks, Short
    <2>. QED
      BY <1>1, <1>2, <2>1
  <1>. QED
    BY <1>1, <1>2, <1>3

LEMMA RanksAndScores ==
    ASSUME RetrievalAssumption, found \in Ranks, Short(found),
           NEW c \in Channels, NEW a, NEW b
    PROVE  /\ Rank(a, c) <= Rank(b, c) => RankScore(a, found[c]) >= RankScore(b, found[c])
           /\ Rank(a, c) < Rank(b, c) => RankScore(a, found[c]) > RankScore(b, found[c])
           /\ RankScore(a, found[c]) \in Nat /\ RankScore(b, found[c]) \in Nat
  <1>. DEFINE s == found[c]
              n == Cardinality(Findable)
              p == Position(a, s)
              q == Position(b, s)
              x == RankScore(a, s)
              y == RankScore(b, s)
              inA == a \in ToSet(s)
              inB == b \in ToSet(s)
  <1>1. s \in Seq(Findable) /\ Len(s) <= 900 /\ Len(s) <= n /\ n \in Nat /\ Len(s) \in Nat
    BY FewFindable DEF Ranks, Short
  <1>2. Rank(a, c) = (IF inA THEN p ELSE n + 1) /\ Rank(b, c) = (IF inB THEN q ELSE n + 1)
    BY DEF Rank
  <1>3. (inA => p \in 1..Len(s)) /\ (inB => q \in 1..Len(s))
    BY <1>1, FirstPlace
  <1>4. /\ x \in Nat /\ (inA => x > 0) /\ (~inB => y = 0)
        /\ (inA /\ inB /\ p < q => x > y) /\ (inA /\ inB /\ p = q => x = y)
    BY <1>1, RankScores
  <1>5. y \in Nat /\ (inB => y > 0) /\ (~inA => x = 0)
    BY <1>1, RankScores
  <1>. HIDE DEF s, n, p, q, x, y, inA, inB
  <1>6. CASE inA /\ inB
    <2>1. Rank(a, c) = p /\ Rank(b, c) = q /\ p \in Nat /\ q \in Nat
      BY <1>1, <1>2, <1>3, <1>6
    <2>2. (p <= q => x >= y) /\ (p < q => x > y)
      BY <1>4, <1>5, <1>6, <2>1
    <2>. QED
      BY <1>4, <1>5, <2>1, <2>2 DEF x, y, s
  <1>7. CASE inA /\ ~inB
    BY <1>4, <1>5, <1>7 DEF x, y, s
  <1>8. CASE ~inA
    <2>1. Rank(a, c) = n + 1 /\ (inB => Rank(b, c) < n + 1) /\ (~inB => Rank(b, c) = n + 1)
      BY <1>1, <1>2, <1>3, <1>8
    <2>2. ~(Rank(a, c) < Rank(b, c)) /\ (Rank(a, c) <= Rank(b, c) => x = y)
      BY <1>1, <1>2, <1>3, <1>4, <1>5, <1>8, <2>1
    <2>. QED
      BY <1>4, <1>5, <2>2 DEF x, y, s
  <1>. QED
    BY <1>6, <1>7, <1>8

LEMMA DominantScores ==
    ASSUME RetrievalAssumption, found \in Ranks, Short(found), NEW a, NEW b, Dominates(a, b)
    PROVE  FusedScore(a, found) > FusedScore(b, found)
  <1>. DEFINE X(c) == RankScore(a, found[c])
              Y(c) == RankScore(b, found[c])
              r == Recency(a)
              t == Recency(b)
              x1 == X("dense")
              x2 == X("sparse")
              x3 == X("entity")
              y1 == Y("dense")
              y2 == Y("sparse")
              y3 == Y("entity")
  <1>1. \A c \in Channels : X(c) \in Nat /\ Y(c) \in Nat
    BY RanksAndScores
  <1>2. \A c \in {"dense", "sparse", "entity"} : c \in Channels
    BY DEF Channels
  <1>3. \A c \in {"dense", "sparse", "entity"} : X(c) >= Y(c)
    <2>1. ASSUME NEW c \in {"dense", "sparse", "entity"} PROVE X(c) >= Y(c)
      <3>1. Rank(a, c) <= Rank(b, c)
        BY DEF Dominates
      <3>. QED
        BY <1>2, <3>1, RanksAndScores
    <2>. QED
      BY <2>1
  <1>4. PICK c \in {"dense", "sparse", "entity"} : X(c) > Y(c)
    <2>1. PICK c \in {"dense", "sparse", "entity"} : Rank(a, c) < Rank(b, c)
      BY DEF Dominates
    <2>2. X(c) > Y(c)
      BY <1>2, <2>1, RanksAndScores
    <2>. QED
      BY <2>2
  <1>5. r \in {105, 130} /\ t \in {105, 130} /\ r >= t
    BY DEF Recency, Dominates
  <1>6. FusedScore(a, found) = (x1 + x2 + x3) * r /\ FusedScore(b, found) = (y1 + y2 + y3) * t
    BY DEF FusedScore
  <1>7. x1 > y1 \/ x2 > y2 \/ x3 > y3
    BY <1>4
  <1>8. /\ x1 \in Nat /\ x2 \in Nat /\ x3 \in Nat /\ y1 \in Nat /\ y2 \in Nat /\ y3 \in Nat
        /\ x1 >= y1 /\ x2 >= y2 /\ x3 >= y3
    <2>1. /\ X("dense") \in Nat /\ X("sparse") \in Nat /\ X("entity") \in Nat
          /\ Y("dense") \in Nat /\ Y("sparse") \in Nat /\ Y("entity") \in Nat
      BY <1>1, <1>2
    <2>2. X("dense") >= Y("dense") /\ X("sparse") >= Y("sparse") /\ X("entity") >= Y("entity")
      BY <1>3
    <2>. QED
      BY <2>1, <2>2
  <1>. HIDE DEF x1, x2, x3, y1, y2, y3, r, t
  <1>9. x1 + x2 + x3 \in Nat /\ y1 + y2 + y3 \in Nat /\ x1 + x2 + x3 > y1 + y2 + y3
    BY <1>7, <1>8
  <1>. DEFINE x == x1 + x2 + x3
              y == y1 + y2 + y3
  <1>10. x * r > y * t
    <2>1. x \in Nat /\ y \in Nat /\ x > y
      BY <1>9
    <2>. HIDE DEF x, y
    <2>2. CASE r = 130 /\ t = 130
      BY <2>1, <2>2
    <2>3. CASE r = 130 /\ t = 105
      BY <2>1, <2>3
    <2>4. CASE r = 105 /\ t = 105
      BY <2>1, <2>4
    <2>. QED
      BY <1>5, <2>2, <2>3, <2>4
  <1>. QED
    BY <1>6, <1>10

LEMMA FusionFollows ==
    ASSUME RetrievalAssumption, found \in Ranks, Short(found), items = Fused(found)
    PROVE  FusionAgrees
  <1>. SUFFICES ASSUME NEW i \in DOMAIN items, NEW j \in DOMAIN items, Dominates(items[i], items[j])
                PROVE  i < j
    BY DEF FusionAgrees
  <1>1. \A c \in Channels : Len(found[c]) <= 900
    BY FewFindable
  <1>2. /\ items \in SetToSeqs(ToSet(Cands(found)))
        /\ \A k, m \in DOMAIN items : k < m => Ahead(items[k], items[m], found)
        /\ IsFiniteSet(ToSet(Cands(found)))
    BY <1>1, FusedIs
  <1>3. i \in Nat /\ j \in Nat
    <2>1. DOMAIN items = 1..Len(items) /\ Len(items) \in Nat
      BY <1>2, Lists
    <2>. QED
      BY <2>1
  <1>4. FusedScore(items[i], found) > FusedScore(items[j], found)
    BY DominantScores
  <1>5. FusedScore(items[i], found) \in Nat /\ FusedScore(items[j], found) \in Nat
    BY <1>1, Scores
  <1>6. i # j
    BY <1>4, <1>5
  <1>7. ~(j < i)
    <2>1. j < i => Ahead(items[j], items[i], found)
      BY <1>2
    <2>. QED
      BY <1>4, <1>5, <2>1 DEF Ahead
  <1>. QED
    BY <1>3, <1>6, <1>7

-----------------------------------------------------------------------------
(* The assembler.  What its loop has chosen after so many items fits the       *)
(* budget and the share of each tier; putting the second best at the end loses *)
(* nothing and repeats nothing.                                               *)

LEMMA AppendAdds ==
    ASSUME NEW X, NEW s \in Seq(X), NEW x \in X
    PROVE  /\ Append(s, x) \in Seq(X) /\ ToSet(Append(s, x)) = ToSet(s) \cup {x}
           /\ Distinct(s) /\ x \notin ToSet(s) => Distinct(Append(s, x))
  <1>. DEFINE u == Append(s, x)
              n == Len(s)
  <1>1. /\ u \in Seq(X) /\ DOMAIN u = 1..(n + 1) /\ n \in Nat /\ DOMAIN s = 1..n
        /\ \A i \in 1..n : u[i] = s[i]
        /\ u[n + 1] = x
    OBVIOUS
  <1>2. \A i \in 1..(n + 1) : i \in 1..n \/ i = n + 1
    BY <1>1
  <1>3. \A i \in 1..n : i \in 1..(n + 1) /\ i # n + 1
    BY <1>1
  <1>4. n + 1 \in 1..(n + 1)
    BY <1>1
  <1>. HIDE DEF u, n
  <1>5. ToSet(u) = ToSet(s) \cup {x}
    BY <1>1, <1>2, <1>3, <1>4 DEF ToSet
  <1>6. ASSUME Distinct(s), x \notin ToSet(s) PROVE Distinct(u)
    <2>1. \A i \in 1..n : s[i] # x
      BY <1>1, <1>6 DEF ToSet
    <2>2. \A i, j \in 1..n : s[i] = s[j] => i = j
      BY <1>1, <1>6 DEF Distinct
    <2>3. ASSUME NEW i \in 1..(n + 1), NEW j \in 1..(n + 1), u[i] = u[j] PROVE i = j
      <3>1. CASE i \in 1..n /\ j \in 1..n
        BY <1>1, <2>2, <2>3, <3>1
      <3>2. CASE i \in 1..n /\ j = n + 1
        BY <1>1, <2>1, <2>3, <3>2
      <3>3. CASE i = n + 1 /\ j \in 1..n
        BY <1>1, <2>1, <2>3, <3>3
      <3>. QED
        BY <1>2, <3>1, <3>2, <3>3
    <2>. QED
      BY <1>1, <2>3 DEF Distinct
  <1>7. u = Append(s, x)
    BY DEF u
  <1>. QED
    BY <1>1, <1>5, <1>6, <1>7

LEMMA CostsAre ==
    ASSUME RetrievalAssumption, NEW S \in SUBSET Findable
    PROVE  /\ Used(S) \in Nat /\ Used({}) = 0 /\ TierShare \in Nat
           /\ \A t : UsedBy(S, t) \in Nat /\ UsedBy({}, t) = 0
  <1>1. IsFiniteSet(Findable) /\ Budget \in Nat
    BY DEF RetrievalAssumption, Findable
  <1>2. ASSUME NEW T \in SUBSET Findable PROVE Used(T) \in Nat
    <2>1. IsFiniteSet(T) /\ IsFiniteSet(T \cap Long)
      BY <1>1, FS_Subset
    <2>2. Cardinality(T) \in Nat /\ Cardinality(T \cap Long) \in Nat
      BY <2>1, FS_CardinalityType
    <2>. QED
      BY <2>2 DEF Used
  <1>3. Used({}) = 0
    <2>1. Cardinality({}) = 0 /\ {} \cap Long = {}
      BY FS_EmptySet
    <2>. QED
      BY <2>1 DEF Used
  <1>4. TierShare \in Nat
    <2>1. Budget * 4 \in Nat
      BY <1>1
    <2>. DEFINE b == Budget * 4
    <2>2. b \div 10 \in Nat
      BY <2>1, SMT
    <2>. QED
      BY <2>2, SMT DEF TierShare
  <1>5. ASSUME NEW t PROVE UsedBy(S, t) \in Nat /\ UsedBy({}, t) = 0
    <2>1. {id \in S : Tier(id) = t} \in SUBSET Findable
      OBVIOUS
    <2>2. {id \in {} : Tier(id) = t} = {}
      OBVIOUS
    <2>3. UsedBy(S, t) \in Nat
      BY <1>2, <2>1 DEF UsedBy
    <2>4. UsedBy({}, t) = 0
      BY <1>3, <2>2 DEF UsedBy
    <2>. QED
      BY <2>3, <2>4
  <1>. QED
    BY <1>2, <1>3, <1>4, <1>5

\* One round of the loop, and a function that follows it over n items.
Packing == [chosen : Seq(Findable), full : BOOLEAN]
PackOne(seq, acc, i) ==
    LET more == ToSet(acc.chosen) \cup {seq[i]}
    IN  IF acc.full \/ UsedBy(more, Tier(seq[i])) > TierShare THEN acc
        ELSE IF Used(more) > Budget THEN [acc EXCEPT !.full = TRUE]
        ELSE [acc EXCEPT !.chosen = Append(@, seq[i])]
PackUpTo(seq, f, i) == IF i = 0 THEN [chosen |-> <<>>, full |-> FALSE] ELSE PackOne(seq, f[i - 1], i)
Packs(seq, f, n) == f = [i \in 0..n |-> PackUpTo(seq, f, i)]

LEMMA PacksExist ==
    ASSUME NEW seq, NEW n \in Nat
    PROVE  \E f : Packs(seq, f, n)
  <1>. DEFINE Bad == {m \in Nat : ~ \E f : Packs(seq, f, m)}
  <1>. SUFFICES ASSUME Bad # {} PROVE FALSE
    OBVIOUS
  <1>1. PICK m \in Bad : \A y \in Bad : m <= y
    BY FirstOf
  <1>2. m # 0
    <2>1. Packs(seq, [i \in 0..0 |-> [chosen |-> <<>>, full |-> FALSE]], 0)
      BY DEF Packs, PackUpTo
    <2>. QED
      BY <2>1
  <1>3. m - 1 \in Nat /\ m - 1 \notin Bad /\ m \in Nat
    BY <1>1, <1>2
  <1>4. PICK f : Packs(seq, f, m - 1)
    BY <1>3
  <1>. DEFINE g == [i \in 0..m |-> IF i < m THEN f[i] ELSE PackUpTo(seq, f, m)]
  <1>5. ASSUME NEW i \in 0..m PROVE g[i] = PackUpTo(seq, g, i)
    <2>1. i # 0 => i - 1 \in 0..m /\ i - 1 < m
      BY <1>3
    <2>2. i # 0 => g[i - 1] = f[i - 1]
      BY <2>1
    <2>3. PackUpTo(seq, g, i) = PackUpTo(seq, f, i)
      BY <2>2 DEF PackUpTo
    <2>4. CASE i < m
      <3>1. i \in 0..(m - 1)
        BY <1>3, <2>4
      <3>2. f[i] = PackUpTo(seq, f, i)
        BY <1>4, <3>1 DEF Packs
      <3>. QED
        BY <2>3, <2>4, <3>2
    <2>5. CASE ~(i < m)
      <3>1. i = m
        BY <1>3, <2>5
      <3>. QED
        BY <2>3, <3>1
    <2>. QED
      BY <2>4, <2>5
  <1>6. Packs(seq, g, m)
    <2>1. g = [i \in 0..m |-> g[i]]
      OBVIOUS
    <2>. HIDE DEF g
    <2>. QED
      BY <1>5, <2>1 DEF Packs
  <1>. QED
    BY <1>1, <1>6

\* What the loop has chosen of the first i items.
Chosen(seq, i, acc) ==
    /\ acc \in Packing /\ Distinct(acc.chosen)
    /\ ToSet(acc.chosen) \subseteq {seq[k] : k \in 1..i}
    /\ Used(ToSet(acc.chosen)) <= Budget
    /\ \A t \in {"identity", "fact"} : UsedBy(ToSet(acc.chosen), t) <= TierShare

LEMMA PacksOneMore ==
    ASSUME RetrievalAssumption, NEW seq \in Seq(Findable), Distinct(seq),
           NEW i \in Nat, i + 1 <= Len(seq), NEW acc, Chosen(seq, i, acc)
    PROVE  Chosen(seq, i + 1, PackOne(seq, acc, i + 1))
  <1>. DEFINE x == seq[i + 1]
              S == ToSet(acc.chosen)
              more == S \cup {x}
              next == PackOne(seq, acc, i + 1)
  <1>1. /\ acc \in Packing /\ Distinct(acc.chosen) /\ S \subseteq {seq[k] : k \in 1..i}
        /\ Used(S) <= Budget
        /\ \A t \in {"identity", "fact"} : UsedBy(S, t) <= TierShare
    BY DEF Chosen
  <1>2. /\ i + 1 \in 1..Len(seq) /\ x \in Findable /\ DOMAIN seq = 1..Len(seq) /\ Len(seq) \in Nat
        /\ 1..i \subseteq 1..(i + 1) /\ i + 1 \in 1..(i + 1)
        /\ \A k \in 1..i : k \in 1..Len(seq) /\ k # i + 1
    OBVIOUS
  <1>3. acc.chosen \in Seq(Findable) /\ acc.full \in BOOLEAN
    BY <1>1 DEF Packing
  <1>4. x \notin S
    BY <1>1, <1>2 DEF Distinct
  <1>5. S \subseteq Findable /\ more \in SUBSET Findable
    BY <1>2, <1>3 DEF ToSet
  <1>6. next = IF acc.full \/ UsedBy(more, Tier(x)) > TierShare THEN acc
               ELSE IF Used(more) > Budget THEN [acc EXCEPT !.full = TRUE]
               ELSE [acc EXCEPT !.chosen = Append(acc.chosen, x)]
    BY DEF PackOne
  <1>7. S \subseteq {seq[k] : k \in 1..(i + 1)} /\ more \subseteq {seq[k] : k \in 1..(i + 1)}
    BY <1>1, <1>2
  <1>. HIDE DEF more, x, next
  <1>8. CASE acc.full \/ UsedBy(more, Tier(x)) > TierShare
    <2>1. next = acc
      BY <1>6, <1>8
    <2>2. Chosen(seq, i + 1, acc)
      BY <1>1, <1>7 DEF Chosen
    <2>. QED
      BY <2>1, <2>2 DEF next
  <1>9. CASE ~(acc.full \/ UsedBy(more, Tier(x)) > TierShare) /\ Used(more) > Budget
    <2>1. next = [acc EXCEPT !.full = TRUE]
      BY <1>6, <1>9
    <2>2. next \in Packing /\ next.chosen = acc.chosen
      BY <1>1, <2>1 DEF Packing
    <2>3. Chosen(seq, i + 1, next)
      BY <1>1, <1>7, <2>2 DEF Chosen
    <2>. QED
      BY <2>3 DEF next
  <1>10. CASE ~(acc.full \/ UsedBy(more, Tier(x)) > TierShare) /\ ~(Used(more) > Budget)
    <2>0. next = [acc EXCEPT !.chosen = Append(acc.chosen, x)]
      BY <1>6, <1>10
    <2>1. /\ Append(acc.chosen, x) \in Seq(Findable) /\ Distinct(Append(acc.chosen, x))
          /\ ToSet(Append(acc.chosen, x)) = more
      BY <1>1, <1>2, <1>3, <1>4, AppendAdds DEF more
    <2>2. next \in Packing /\ next.chosen = Append(acc.chosen, x)
      BY <1>1, <2>0, <2>1 DEF Packing
    <2>3. Used(more) <= Budget
      <3>1. Used(more) \in Nat /\ Budget \in Nat
        BY <1>5, CostsAre DEF RetrievalAssumption
      <3>. QED
        BY <1>10, <3>1
    <2>4. ASSUME NEW t \in {"identity", "fact"} PROVE UsedBy(more, t) <= TierShare
      <3>1. CASE t = Tier(x)
        <4>1. UsedBy(more, t) \in Nat /\ TierShare \in Nat
          BY <1>5, CostsAre
        <4>2. ~(UsedBy(more, t) > TierShare)
          BY <1>10, <3>1
        <4>. QED
          BY <4>1, <4>2
      <3>2. CASE t # Tier(x)
        <4>1. {id \in more : Tier(id) = t} = {id \in S : Tier(id) = t}
          BY <3>2 DEF more
        <4>2. UsedBy(more, t) = UsedBy(S, t)
          BY <4>1 DEF UsedBy
        <4>. QED
          BY <1>1, <4>2
      <3>. QED
        BY <3>1, <3>2
    <2>5. Chosen(seq, i + 1, next)
      BY <1>7, <2>1, <2>2, <2>3, <2>4 DEF Chosen
    <2>. QED
      BY <2>5 DEF next
  <1>. QED
    BY <1>8, <1>9, <1>10

LEMMA PackedFits ==
    ASSUME RetrievalAssumption, NEW seq \in Seq(Findable), Distinct(seq)
    PROVE  /\ Packed(seq) \in Seq(Findable) /\ Distinct(Packed(seq))
           /\ ToSet(Packed(seq)) \subseteq ToSet(seq)
           /\ Used(ToSet(Packed(seq))) <= Budget
           /\ \A t \in {"identity", "fact"} : UsedBy(ToSet(Packed(seq)), t) <= TierShare
  <1>. DEFINE len == Len(seq)
  <1>0. len \in Nat /\ DOMAIN seq = 1..len
    OBVIOUS
  <1>1. PICK f : Packs(seq, f, len) /\ Packed(seq) = f[len].chosen
    <2>1. Packed(seq) = (CHOOSE f : Packs(seq, f, len))[len].chosen
      BY Zenon DEF Packed, Packs, PackUpTo, PackOne
    <2>2. Packs(seq, CHOOSE f : Packs(seq, f, len), len)
      BY <1>0, PacksExist
    <2>. QED
      BY <2>1, <2>2
  <1>. HIDE DEF len
  <1>2. ASSUME NEW i \in 0..len PROVE f[i] = PackUpTo(seq, f, i)
    BY <1>1 DEF Packs
  <1>. DEFINE Bad == {i \in 0..len : ~Chosen(seq, i, f[i])}
  <1>3. Bad = {}
    <2>. SUFFICES ASSUME Bad # {} PROVE FALSE
      OBVIOUS
    <2>1. PICK m \in Bad : \A y \in Bad : m <= y
      <3>1. Bad \subseteq Nat
        BY <1>0
      <3>. HIDE DEF Bad
      <3>. QED
        BY <3>1, FirstOf
    <2>2. m # 0
      <3>. SUFFICES ASSUME m = 0 PROVE FALSE
        OBVIOUS
      <3>1. f[0] = [chosen |-> <<>>, full |-> FALSE]
        BY <1>0, <1>2 DEF PackUpTo
      <3>2. f[0] \in Packing /\ f[0].chosen = <<>>
        BY <3>1 DEF Packing
      <3>3. ToSet(<<>>) = {} /\ Distinct(<<>>)
        BY DEF ToSet, Distinct
      <3>4. Used({}) <= Budget /\ \A t \in {"identity", "fact"} : UsedBy({}, t) <= TierShare
        <4>1. Used({}) = 0 /\ TierShare \in Nat /\ \A t : UsedBy({}, t) = 0
          BY CostsAre
        <4>2. Budget \in Nat
          BY DEF RetrievalAssumption
        <4>3. \A t : UsedBy({}, t) <= TierShare
          BY <4>1
        <4>. QED
          BY <4>1, <4>2, <4>3
      <3>5. Chosen(seq, 0, f[0])
        BY <3>2, <3>3, <3>4 DEF Chosen
      <3>. QED
        BY <2>1, <3>5
    <2>3. m - 1 \in 0..len /\ m - 1 \notin Bad /\ m - 1 \in Nat /\ (m - 1) + 1 = m /\ m <= len
      BY <1>0, <2>1, <2>2
    <2>4. Chosen(seq, m - 1, f[m - 1])
      BY <2>3
    <2>5. f[m] = PackOne(seq, f[m - 1], m)
      BY <1>2, <2>1, <2>2 DEF PackUpTo
    <2>6. Chosen(seq, (m - 1) + 1, PackOne(seq, f[m - 1], (m - 1) + 1))
      BY <2>3, <2>4, PacksOneMore DEF len
    <2>. QED
      BY <2>1, <2>3, <2>5, <2>6
  <1>4. Chosen(seq, len, f[len])
    BY <1>0, <1>3
  <1>5. {seq[k] : k \in 1..len} = ToSet(seq)
    BY <1>0 DEF ToSet
  <1>. QED
    BY <1>1, <1>4, <1>5 DEF Chosen, Packing

\* A list without repetitions is one of SetToSeqs, and a finite set has one.
LEMMA IsListed ==
    ASSUME NEW X, NEW s \in Seq(X), Distinct(s)
    PROVE  IsFiniteSet(ToSet(s)) /\ Cardinality(ToSet(s)) = Len(s) /\ s \in SetToSeqs(ToSet(s))
  <1>. DEFINE n == Len(s)
              D == 1..n
              S == ToSet(s)
  <1>1. n \in Nat /\ DOMAIN s = D
    OBVIOUS
  <1>2. IsFiniteSet(D) /\ Cardinality(D) = n
    <2>1. 1 \in Int /\ n \in Int /\ (IF 1 > n THEN 0 ELSE n - 1 + 1) = n
      BY <1>1
    <2>. HIDE DEF n
    <2>. QED
      BY <2>1, FS_Interval
  <1>3. s \in [D -> S] /\ \A t \in S : \E a \in D : s[a] = t
    BY <1>1 DEF ToSet
  <1>4. \A i, j \in D : s[i] = s[j] => i = j
    BY <1>1 DEF Distinct
  <1>. HIDE DEF D, S, n
  <1>5. s \in Surjection(D, S) /\ s \in Injection(D, S)
    BY <1>3, <1>4 DEF Surjection, Injection, IsInjective
  <1>6. IsFiniteSet(S) /\ Cardinality(S) = n
    BY <1>2, <1>5, FS_Surjection
  <1>7. s \in SetToSeqs(S)
    BY <1>3, <1>4, <1>6 DEF SetToSeqs, D
  <1>. QED
    BY <1>6, <1>7 DEF S, n

LEMMA SomeList ==
    ASSUME NEW S, IsFiniteSet(S)
    PROVE  SetToSeq(S) \in SetToSeqs(S)
  <1>. DEFINE D == 1..Cardinality(S)
              f == SetToSeq(S)
  <1>1. ExistsBijection(D, S)
    BY FS_CardinalityType
  <1>2. PICK g \in [D -> S] : IsInjective(g)
    BY <1>1 DEF ExistsBijection, Bijection, Injection
  <1>3. f = CHOOSE h \in [D -> S] : IsInjective(h)
    BY DEF SetToSeq
  <1>4. f \in [D -> S] /\ IsInjective(f)
    <2>. HIDE DEF D, f
    <2>. QED
      BY <1>2, <1>3, Zenon
  <1>. HIDE DEF f
  <1>5. \A i, j \in D : i # j => f[i] # f[j]
    BY <1>4 DEF IsInjective
  <1>6. f \in SetToSeqs(S)
    BY <1>4, <1>5, SMT DEF SetToSeqs
  <1>. QED
    BY <1>6 DEF f

\* Where each place of the reordered list comes from.
From(n, i) == IF i = 1 THEN 1 ELSE IF i = n THEN 2 ELSE i + 1

LEMMA FromIs ==
    ASSUME NEW n \in Nat, n > 2
    PROVE  /\ \A i \in 1..n : From(n, i) \in 1..n
           /\ \A i, j \in 1..n : From(n, i) = From(n, j) => i = j
           /\ \A k \in 1..n : \E i \in 1..n : From(n, i) = k
  <1>1. \A i \in 1..n : From(n, i) \in 1..n
    BY DEF From
  <1>2. \A i, j \in 1..n : From(n, i) = From(n, j) => i = j
    BY DEF From
  <1>3. ASSUME NEW k \in 1..n PROVE \E i \in 1..n : From(n, i) = k
    <2>1. CASE k = 1
      <3>1. 1 \in 1..n /\ From(n, 1) = 1
        BY DEF From
      <3>. QED
        BY <2>1, <3>1
    <2>2. CASE k = 2
      <3>1. n \in 1..n /\ From(n, n) = 2
        BY DEF From
      <3>. QED
        BY <2>2, <3>1
    <2>3. CASE k # 1 /\ k # 2
      <3>1. k - 1 \in 1..n /\ From(n, k - 1) = k
        BY <2>3 DEF From
      <3>. QED
        BY <3>1
    <2>. QED
      BY <2>1, <2>2, <2>3
  <1>. QED
    BY <1>1, <1>2, <1>3

LEMMA EdgedKeeps ==
    ASSUME items \in Seq(Findable), Distinct(items),
           NEW seq \in Seq(Findable), Distinct(seq), ToSet(seq) \subseteq ToSet(items)
    PROVE  /\ Edged(seq) \in Seq(Findable) /\ Distinct(Edged(seq))
           /\ ToSet(Edged(seq)) = ToSet(seq)
  <1>. DEFINE S == ToSet(seq)
              n == Len(seq)
              R == {p \in S \X S : Position(p[1], items) < Position(p[2], items)}
              Sorted(order) == \A i, j \in DOMAIN order :
                                   i < j => Position(order[i], items) < Position(order[j], items)
  <1>0. n \in Nat /\ S \subseteq Findable
    BY DEF ToSet
  <1>1. CASE n <= 2
    BY <1>1 DEF Edged
  <1>2. CASE n > 2
    <2>1. IsFiniteSet(S) /\ Cardinality(S) = n
      BY IsListed
    <2>2. \A a \in S : Position(a, items) \in Nat /\ items[Position(a, items)] = a
      <3>1. ASSUME NEW a \in S PROVE Position(a, items) \in Nat /\ items[Position(a, items)] = a
        <4>1. Position(a, items) \in 1..Len(items) /\ items[Position(a, items)] = a
          BY <3>1, FirstPlace
        <4>. QED
          BY <4>1
      <3>. QED
        BY <3>1
    <2>3. Orders(S, R)
      <3>1. ASSUME NEW a \in S, NEW b \in S, a # b PROVE <<a, b>> \in R \/ <<b, a>> \in R
        <4>1. Position(a, items) # Position(b, items)
          BY <2>2, <3>1
        <4>2. Position(a, items) < Position(b, items) \/ Position(b, items) < Position(a, items)
          BY <2>2, <4>1
        <4>. QED
          BY <4>2
      <3>2. ASSUME NEW a \in S, NEW b \in S, NEW c \in S, <<a, b>> \in R, <<b, c>> \in R
            PROVE  <<a, c>> \in R
        <4>1. Position(a, items) < Position(b, items) /\ Position(b, items) < Position(c, items)
          BY <3>2
        <4>2. Position(a, items) < Position(c, items)
          BY <2>2, <4>1
        <4>. QED
          BY <4>2
      <3>. HIDE DEF R, S
      <3>. QED
        BY <3>1, <3>2 DEF Orders
    <2>4. PICK order \in SetToSeqs(S) : InOrder(order, R)
      <3>. HIDE DEF R, S
      <3>. QED
        BY <2>1, <2>3, OrderExists
    <2>5. Sorted(order)
      BY <2>4 DEF InOrder
    <2>. DEFINE sorted == CHOOSE o \in SetToSeqs(S) : Sorted(o)
    <2>6. sorted \in SetToSeqs(S)
      <3>. HIDE DEF S, Sorted
      <3>. QED
        BY <2>4, <2>5, Zenon
    <2>7. Edged(seq) = <<sorted[1]>> \o SubSeq(sorted, 3, n) \o <<sorted[2]>>
      <3>1. ~(Len(seq) <= 2)
        BY <1>0, <1>2
      <3>. QED
        BY <3>1 DEF Edged
    <2>. HIDE DEF sorted, S, n
    <2>8. sorted \in Seq(S) /\ Len(sorted) = n /\ DOMAIN sorted = 1..n /\ ToSet(sorted) = S /\ Distinct(sorted)
      BY <2>1, <2>6, Lists
    <2>. DEFINE mid == SubSeq(sorted, 3, n)
                u == <<sorted[1]>> \o mid \o <<sorted[2]>>
    <2>9. mid \in Seq(S) /\ Len(mid) = n - 2 /\ \A i \in 1..(n - 2) : mid[i] = sorted[i + 2]
      BY <1>0, <1>2, <2>8
    <2>10. sorted[1] \in S /\ sorted[2] \in S
      BY <1>0, <1>2, <2>8
    <2>11. u \in Seq(S) /\ Len(u) = n /\ \A i \in 1..n : u[i] = sorted[From(n, i)]
      <3>. HIDE DEF mid
      <3>1. u \in Seq(S) /\ Len(u) = n
        BY <1>0, <1>2, <2>9, <2>10
      <3>2. ASSUME NEW i \in 1..n PROVE u[i] = sorted[From(n, i)]
        <4>1. CASE i = 1
          BY <1>0, <1>2, <2>9, <2>10, <4>1 DEF From
        <4>2. CASE i = n
          BY <1>0, <1>2, <2>9, <2>10, <4>2 DEF From
        <4>3. CASE i # 1 /\ i # n
          <5>1. i - 1 \in 1..(n - 2) /\ (i - 1) + 2 = i + 1
            BY <1>0, <1>2, <4>3
          <5>2. u[i] = mid[i - 1]
            BY <1>0, <1>2, <2>9, <2>10, <4>3, <5>1
          <5>3. mid[i - 1] = sorted[i + 1]
            BY <2>9, <5>1
          <5>. QED
            BY <4>3, <5>2, <5>3 DEF From
        <4>. QED
          BY <4>1, <4>2, <4>3
      <3>. QED
        BY <3>1, <3>2
    <2>. HIDE DEF u
    <2>12. DOMAIN u = 1..n
      BY <2>11
    <2>13. /\ \A i \in 1..n : From(n, i) \in 1..n
           /\ \A i, j \in 1..n : From(n, i) = From(n, j) => i = j
           /\ \A k \in 1..n : \E i \in 1..n : From(n, i) = k
      BY <1>0, <1>2, FromIs
    <2>14. Distinct(u)
      <3>1. ASSUME NEW i \in 1..n, NEW j \in 1..n, u[i] = u[j] PROVE i = j
        <4>1. sorted[From(n, i)] = sorted[From(n, j)]
          BY <2>11, <3>1
        <4>2. From(n, i) = From(n, j)
          BY <2>8, <2>13, <4>1 DEF Distinct
        <4>. QED
          BY <2>13, <4>2
      <3>. QED
        BY <2>12, <3>1 DEF Distinct
    <2>15. ToSet(u) = S
      <3>1. ToSet(u) \subseteq S
        BY <2>11, <2>12 DEF ToSet
      <3>2. ASSUME NEW x \in S PROVE x \in ToSet(u)
        <4>1. PICK k \in 1..n : sorted[k] = x
          BY <2>8 DEF ToSet
        <4>2. PICK i \in 1..n : From(n, i) = k
          BY <2>13
        <4>3. u[i] = x
          BY <2>11, <4>1, <4>2
        <4>. QED
          BY <2>12, <4>3 DEF ToSet
      <3>. QED
        BY <3>1, <3>2
    <2>16. Edged(seq) = u
      BY <2>7 DEF u, mid
    <2>17. u \in Seq(Findable)
      BY <1>0, <2>11
    <2>. QED
      BY <2>14, <2>15, <2>16, <2>17 DEF S
  <1>. QED
    BY <1>0, <1>1, <1>2

-----------------------------------------------------------------------------
(* Why a retrieval shows what it may, for any memories and budget: whatever a *)
(* query, the walk or the follow-up round can find was visible at that step,   *)
(* what was visible once is usable, and the stages after them only choose and  *)
(* reorder.                                                                   *)

Statuses == {"canonical", "hypothesis", "closed", "none"}
Allowed(s) == ToSet(s) \cap Memories \subseteq usable
RanksOK == found \in Ranks /\ Short(found) /\ \A c \in Channels : Allowed(found[c])
ItemsOK ==
    /\ items \in Seq(Findable) /\ Distinct(items) /\ Allowed(items)
    /\ step = "start" => items = <<>>
    /\ step \in {"expand", "follow"} => items = Fused(found)
ResultOK ==
    /\ result \in Seq(Findable) /\ Distinct(result) /\ Allowed(result)
    /\ step = "start" => result = <<>>
    /\ WithinBudget
VisibleOK ==
    /\ mem \in [Memories -> Statuses] /\ mode \in Modes
    /\ step = "start" => \A c \in Channels : found[c] = <<>>
    /\ step # "start" => Visible \subseteq usable
RetInv == VisibleOK /\ RanksOK /\ ItemsOK /\ ResultOK

LEMMA EmptyList == <<>> \in Seq(Findable) /\ Distinct(<<>>) /\ ToSet(<<>>) = {} /\ Len(<<>>) = 0
  BY DEF ToSet, Distinct

\* What the channels return, listed.
LEMMA SomeAnswer ==
    ASSUME RetrievalAssumption, NEW S \in SUBSET Findable, NEW r \in SetToAllKPermutations(S)
    PROVE  r \in Seq(Findable) /\ Len(r) <= Cardinality(Findable) /\ ToSet(r) \subseteq S
  <1>1. PICK T \in SUBSET S : r \in SetToSeqs(T)
    BY DEF SetToAllKPermutations
  <1>2. IsFiniteSet(Findable) /\ T \in SUBSET Findable
    BY FewFindable
  <1>3. IsFiniteSet(T) /\ Cardinality(T) <= Cardinality(Findable)
    BY <1>2, FS_Subset
  <1>4. r \in Seq(T) /\ Len(r) = Cardinality(T) /\ ToSet(r) = T
    BY <1>1, <1>3, Lists
  <1>5. r \in Seq(Findable)
    BY <1>2, <1>4
  <1>. QED
    BY <1>3, <1>4, <1>5

LEMMA OneList ==
    ASSUME RetrievalAssumption, NEW S \in SUBSET Findable
    PROVE  /\ SetToSeq(S) \in Seq(Findable) /\ Len(SetToSeq(S)) <= Cardinality(Findable)
           /\ ToSet(SetToSeq(S)) = S
           /\ \A r \in SetToSeqs(S) : r \in Seq(Findable) /\ Distinct(r) /\ ToSet(r) = S
  <1>1. IsFiniteSet(Findable)
    BY FewFindable
  <1>2. IsFiniteSet(S) /\ Cardinality(S) <= Cardinality(Findable)
    BY <1>1, FS_Subset
  <1>3. ASSUME NEW r \in SetToSeqs(S)
        PROVE  r \in Seq(Findable) /\ Distinct(r) /\ ToSet(r) = S /\ Len(r) = Cardinality(S)
    <2>1. r \in Seq(S) /\ Distinct(r) /\ ToSet(r) = S /\ Len(r) = Cardinality(S)
      BY <1>2, Lists
    <2>. QED
      BY <2>1
  <1>4. SetToSeq(S) \in SetToSeqs(S)
    BY <1>2, SomeList
  <1>. QED
    BY <1>2, <1>3, <1>4

\* What is fused is what the channels returned.
LEMMA FusedKeeps ==
    ASSUME RetrievalAssumption, NEW f \in Ranks, Short(f)
    PROVE  /\ Fused(f) \in Seq(Findable) /\ Distinct(Fused(f))
           /\ ToSet(Fused(f)) = UNION {ToSet(f[c]) : c \in Channels}
  <1>1. \A c \in Channels : Len(f[c]) <= 900
    BY FewFindable
  <1>2. /\ Fused(f) \in SetToSeqs(ToSet(Cands(f)))
        /\ ToSet(Cands(f)) \subseteq Findable
    BY <1>1, FusedIs
  <1>3. Fused(f) \in Seq(Findable) /\ Distinct(Fused(f)) /\ ToSet(Fused(f)) = ToSet(Cands(f))
    <2>. DEFINE S == ToSet(Cands(f))
    <2>. HIDE DEF S
    <2>1. S \in SUBSET Findable /\ Fused(f) \in SetToSeqs(S)
      BY <1>2 DEF S
    <2>2. Fused(f) \in Seq(Findable) /\ Distinct(Fused(f)) /\ ToSet(Fused(f)) = S
      BY <2>1, OneList
    <2>. QED
      BY <2>2 DEF S
  <1>4. ASSUME NEW a \in Seq(Findable), NEW b \in Seq(Findable)
        PROVE  a \o b \in Seq(Findable) /\ ToSet(a \o b) = ToSet(a) \cup ToSet(b)
    <2>. DEFINE u == a \o b
    <2>1. /\ u \in Seq(Findable) /\ DOMAIN u = 1..(Len(a) + Len(b))
          /\ DOMAIN a = 1..Len(a) /\ DOMAIN b = 1..Len(b) /\ Len(a) \in Nat /\ Len(b) \in Nat
          /\ \A i \in 1..Len(a) : u[i] = a[i]
          /\ \A i \in 1..Len(b) : u[Len(a) + i] = b[i]
      OBVIOUS
    <2>2. \A i \in 1..(Len(a) + Len(b)) :
              i \in 1..Len(a) \/ (i - Len(a) \in 1..Len(b) /\ Len(a) + (i - Len(a)) = i)
      BY <2>1
    <2>3. /\ \A i \in 1..Len(a) : i \in 1..(Len(a) + Len(b))
          /\ \A i \in 1..Len(b) : Len(a) + i \in 1..(Len(a) + Len(b))
      BY <2>1
    <2>. HIDE DEF u
    <2>4. ToSet(u) \subseteq ToSet(a) \cup ToSet(b)
      <3>1. ASSUME NEW i \in DOMAIN u PROVE u[i] \in ToSet(a) \cup ToSet(b)
        <4>1. CASE i \in 1..Len(a)
          BY <2>1, <4>1 DEF ToSet
        <4>2. CASE i - Len(a) \in 1..Len(b) /\ Len(a) + (i - Len(a)) = i
          <5>1. u[i] = b[i - Len(a)]
            BY <2>1, <4>2
          <5>. QED
            BY <2>1, <4>2, <5>1 DEF ToSet
        <4>. QED
          BY <2>1, <2>2, <4>1, <4>2
      <3>. QED
        BY <3>1 DEF ToSet
    <2>5. ToSet(a) \subseteq ToSet(u) /\ ToSet(b) \subseteq ToSet(u)
      <3>1. \A i \in DOMAIN a : i \in DOMAIN u /\ u[i] = a[i]
        BY <2>1, <2>3
      <3>2. \A i \in DOMAIN b : Len(a) + i \in DOMAIN u /\ u[Len(a) + i] = b[i]
        BY <2>1, <2>3
      <3>3. \A i \in DOMAIN a : a[i] \in ToSet(u)
        BY <3>1 DEF ToSet
      <3>4. \A i \in DOMAIN b : b[i] \in ToSet(u)
        BY <3>2 DEF ToSet
      <3>. QED
        BY <3>3, <3>4 DEF ToSet
    <2>6. u \in Seq(Findable) /\ ToSet(u) = ToSet(a) \cup ToSet(b)
      BY <2>1, <2>4, <2>5
    <2>. QED
      BY <2>6 DEF u
  <1>5. ToSet(Cands(f)) = UNION {ToSet(f[c]) : c \in Channels}
    <2>. DEFINE d == f["dense"]
                p == f["sparse"]
                e == f["entity"]
                g == f["graph"]
    <2>1. d \in Seq(Findable) /\ p \in Seq(Findable) /\ e \in Seq(Findable) /\ g \in Seq(Findable)
      BY DEF Ranks, Channels
    <2>2. Cands(f) = d \o p \o e \o g
      BY DEF Cands
    <2>3. UNION {ToSet(f[c]) : c \in Channels} = ToSet(d) \cup ToSet(p) \cup ToSet(e) \cup ToSet(g)
      BY DEF Channels
    <2>. HIDE DEF d, p, e, g
    <2>4. d \o p \in Seq(Findable) /\ ToSet(d \o p) = ToSet(d) \cup ToSet(p)
      BY <1>4, <2>1
    <2>5. d \o p \o e \in Seq(Findable) /\ ToSet(d \o p \o e) = ToSet(d) \cup ToSet(p) \cup ToSet(e)
      BY <1>4, <2>1, <2>4
    <2>6. ToSet(d \o p \o e \o g) = ToSet(d) \cup ToSet(p) \cup ToSet(e) \cup ToSet(g)
      BY <1>4, <2>1, <2>5
    <2>. QED
      BY <2>2, <2>3, <2>6
  <1>. QED
    BY <1>3, <1>5

LEMMA StartsRet ==
    ASSUME RetrievalAssumption, RetInit
    PROVE  RetInv
  <1>1. WithinBudget
    <2>1. ToSet(result) = {}
      BY EmptyList DEF RetInit
    <2>2. Used({}) = 0 /\ TierShare \in Nat /\ \A t : UsedBy({}, t) = 0
      BY CostsAre
    <2>3. Used({}) <= Budget /\ \A t : UsedBy({}, t) <= TierShare
      BY <2>2 DEF RetrievalAssumption
    <2>. QED
      BY <2>1, <2>3 DEF WithinBudget
  <1>2. RanksOK
    <2>1. found \in Ranks /\ \A c \in Channels : found[c] = <<>>
      BY EmptyList DEF RetInit, Ranks
    <2>2. Short(found)
      BY <2>1, FewFindable, EmptyList DEF Short
    <2>. QED
      BY <2>1, <2>2, EmptyList DEF RanksOK, Allowed
  <1>3. ItemsOK /\ ResultOK
    BY <1>1, EmptyList DEF ItemsOK, ResultOK, Allowed, RetInit
  <1>4. VisibleOK
    BY DEF RetInit, VisibleOK, Statuses
  <1>. QED
    BY <1>2, <1>3, <1>4 DEF RetInv

\* The mode does not change, and with it what fusing a list of ranks gives.
LEMMA FusedStays ==
    ASSUME mode' = mode
    PROVE  /\ found' = found => Fused(found)' = Fused(found)
           /\ \A x : x = Fused(found') => x = Fused(found)'
  <1>1. ASSUME found' = found PROVE Fused(found)' = Fused(found)
    BY <1>1 DEF Fused, FusedScore, Recency
  <1>2. ASSUME NEW x, x = Fused(found') PROVE x = Fused(found)'
    BY <1>2 DEF Fused, FusedScore, Recency
  <1>. QED
    BY <1>1, <1>2

LEMMA BudgetStays ==
    ASSUME result' = result, WithinBudget
    PROVE  WithinBudget'
  BY DEF WithinBudget, Used, UsedBy, TierShare

LEMMA ResultStays ==
    ASSUME result' = result, usable \subseteq usable', step' = "start" => step = "start", ResultOK
    PROVE  ResultOK'
  <1>1. WithinBudget'
    BY BudgetStays DEF ResultOK
  <1>. QED
    BY <1>1 DEF ResultOK, Allowed

LEMMA RanksStay ==
    ASSUME found' = found, usable \subseteq usable', RanksOK
    PROVE  RanksOK'
  BY DEF RanksOK, Ranks, Short, Allowed

LEMMA ItemsStay ==
    ASSUME items' = items, found' = found, mode' = mode, usable \subseteq usable', ItemsOK,
           step' = "start" => step = "start",
           step' \in {"expand", "follow"} => step \in {"expand", "follow"}
    PROVE  ItemsOK'
  <1>1. Fused(found)' = Fused(found)
    BY FusedStays
  <1>. QED
    BY <1>1 DEF ItemsOK, Allowed

LEMMA StartKeeps ==
    ASSUME RetrievalAssumption, RetInv, Start
    PROVE  RetInv'
  <1>. USE DEF RetInv
  <1>1. /\ step = "start" /\ usable' = Visible /\ step' = "channels" /\ mem' = mem /\ mode' = mode
        /\ found' = found /\ items' = items /\ result' = result
    BY DEF Start
  <1>2. items = <<>> /\ result = <<>> /\ \A c \in Channels : found[c] = <<>>
    BY <1>1 DEF VisibleOK, ItemsOK, ResultOK
  <1>3. VisibleOK'
    BY <1>1 DEF VisibleOK, Visible, Admitted
  <1>4. RanksOK'
    BY <1>1, <1>2, EmptyList DEF RanksOK, Allowed, Ranks, Short
  <1>5. ItemsOK'
    BY <1>1, <1>2, EmptyList DEF ItemsOK, Allowed
  <1>6. ResultOK'
    <2>1. WithinBudget'
      BY <1>1, BudgetStays DEF ResultOK
    <2>. QED
      BY <1>1, <1>2, <2>1, EmptyList DEF ResultOK, Allowed
  <1>. QED
    BY <1>3, <1>4, <1>5, <1>6

\* A step that leaves the memories alone and is not the first.
Reads == mem' = mem /\ mode' = mode /\ usable' = usable /\ step # "start" /\ step' # "start"

LEMMA VisibleStays ==
    ASSUME Reads, VisibleOK
    PROVE  VisibleOK'
  BY DEF Reads, VisibleOK, Visible, Admitted

LEMMA QueryKeeps ==
    ASSUME RetrievalAssumption, RetInv, NEW c \in {"dense", "sparse", "entity"}, Query(c)
    PROVE  RetInv'
  <1>. USE DEF RetInv
  <1>1. /\ step = "channels" /\ step' = step /\ mem' = mem /\ mode' = mode
        /\ items' = items /\ result' = result /\ usable' = usable
    BY DEF Query
  <1>. DEFINE S == IF c = "entity" THEN Facts ELSE Visible
  <1>2. PICK r \in SetToAllKPermutations(S) : found' = [found EXCEPT ![c] = r]
    BY DEF Query
  <1>3. S \in SUBSET Findable /\ S \cap Memories \subseteq usable
    BY <1>1 DEF Visible, Findable, VisibleOK, RetrievalAssumption
  <1>4. r \in Seq(Findable) /\ Len(r) <= Cardinality(Findable) /\ ToSet(r) \subseteq S
    <2>. HIDE DEF S
    <2>. QED
      BY <1>2, <1>3, SomeAnswer
  <1>5. RanksOK'
    <2>1. found' \in Ranks /\ \A d \in Channels : found'[d] = IF d = c THEN r ELSE found[d]
      BY <1>2, <1>4 DEF RanksOK, Ranks, Channels
    <2>2. found \in Ranks /\ Short(found) /\ \A d \in Channels : Allowed(found[d])
      BY DEF RanksOK
    <2>3. Short(found')
      BY <1>4, <2>1, <2>2 DEF Short
    <2>4. ToSet(r) \cap Memories \subseteq usable
      BY <1>3, <1>4
    <2>5. \A d \in Channels : ToSet(found'[d]) \cap Memories \subseteq usable'
      BY <1>1, <2>1, <2>2, <2>4 DEF Allowed
    <2>. QED
      BY <2>1, <2>3, <2>5 DEF RanksOK, Ranks, Short, Allowed
  <1>6. VisibleOK'
    BY <1>1, VisibleStays DEF Reads
  <1>7. ItemsOK'
    BY <1>1 DEF ItemsOK, Allowed
  <1>8. ResultOK'
    BY <1>1, ResultStays
  <1>. QED
    BY <1>5, <1>6, <1>7, <1>8

LEMMA FuseKeeps ==
    ASSUME RetrievalAssumption, RetInv, Fuse
    PROVE  RetInv'
  <1>. USE DEF RetInv
  <1>1. /\ step = "channels" /\ step' = "expand" /\ items' = Fused(found) /\ mem' = mem /\ mode' = mode
        /\ found' = found /\ result' = result /\ usable' = usable
    BY DEF Fuse
  <1>2. ItemsOK'
    <2>1. found \in Ranks /\ Short(found) /\ \A c \in Channels : Allowed(found[c])
      BY DEF RanksOK
    <2>2. /\ items' \in Seq(Findable) /\ Distinct(items')
          /\ ToSet(items') = UNION {ToSet(found[c]) : c \in Channels}
      BY <1>1, <2>1, FusedKeeps
    <2>3. Fused(found)' = Fused(found)
      BY <1>1, FusedStays
    <2>4. ToSet(items') \cap Memories \subseteq usable
      BY <2>1, <2>2 DEF Allowed
    <2>. QED
      BY <1>1, <2>2, <2>3, <2>4 DEF ItemsOK, Allowed, Distinct
  <1>3. RanksOK'
    BY <1>1, RanksStay
  <1>4. VisibleOK'
    BY <1>1, VisibleStays DEF Reads
  <1>5. ResultOK'
    BY <1>1, ResultStays
  <1>. QED
    BY <1>2, <1>3, <1>4, <1>5

LEMMA ExpandKeeps ==
    ASSUME RetrievalAssumption, RetInv, Expand
    PROVE  RetInv'
  <1>. USE DEF RetInv
  <1>1. /\ step = "expand" /\ step' = "follow" /\ mem' = mem /\ mode' = mode
        /\ result' = result /\ usable' = usable
    BY DEF Expand
  <1>2. PICK S \in SUBSET Visible :
            found' = [found EXCEPT !["graph"] = SetToSeq(S)] /\ items' = Fused(found')
    BY DEF Expand, Reachable
  <1>. DEFINE r == SetToSeq(S)
  <1>3. S \in SUBSET Findable /\ S \subseteq usable
    BY <1>1 DEF Visible, Findable, VisibleOK
  <1>4. r \in Seq(Findable) /\ Len(r) <= Cardinality(Findable) /\ ToSet(r) = S
    BY <1>3, OneList
  <1>5. found' = [found EXCEPT !["graph"] = r]
    BY <1>2
  <1>. HIDE DEF r
  <1>6. found' \in Ranks /\ Short(found') /\ \A c \in Channels : ToSet(found'[c]) \cap Memories \subseteq usable
    <2>1. found' \in Ranks /\ \A c \in Channels : found'[c] = IF c = "graph" THEN r ELSE found[c]
      BY <1>4, <1>5 DEF RanksOK, Ranks, Channels
    <2>2. Short(found) /\ \A c \in Channels : Allowed(found[c])
      BY DEF RanksOK
    <2>3. Short(found')
      BY <1>4, <2>1, <2>2 DEF Short
    <2>. QED
      BY <1>3, <1>4, <2>1, <2>2, <2>3 DEF Allowed
  <1>7. RanksOK'
    BY <1>1, <1>6 DEF RanksOK, Ranks, Short, Allowed
  <1>8. ItemsOK'
    <2>. DEFINE f == found'
    <2>1. f \in Ranks /\ Short(f)
      BY <1>6
    <2>2. items' = Fused(f)
      BY <1>2
    <2>3. /\ items' \in Seq(Findable) /\ Distinct(items')
          /\ ToSet(items') = UNION {ToSet(f[c]) : c \in Channels}
      <3>. HIDE DEF f
      <3>. QED
        BY <2>1, <2>2, FusedKeeps
    <2>4. ToSet(items') \cap Memories \subseteq usable'
      BY <1>1, <1>6, <2>3
    <2>5. items' = Fused(found)'
      BY <1>1, <1>2, FusedStays
    <2>. QED
      BY <1>1, <2>3, <2>4, <2>5 DEF ItemsOK, Allowed, Distinct
  <1>9. VisibleOK'
    BY <1>1, VisibleStays DEF Reads
  <1>10. ResultOK'
    BY <1>1, ResultStays
  <1>. QED
    BY <1>7, <1>8, <1>9, <1>10

LEMMA FollowUpKeeps ==
    ASSUME RetrievalAssumption, RetInv, FollowUp
    PROVE  RetInv'
  <1>. USE DEF RetInv
  <1>1. /\ step = "follow" /\ step' = "assemble" /\ mem' = mem /\ mode' = mode
        /\ found' = found /\ result' = result /\ usable' = usable
    BY DEF FollowUp
  <1>2. PICK S \in SUBSET Visible : items' \in SetToSeqs(ToSet(items) \cup S)
    BY DEF FollowUp
  <1>. DEFINE T == ToSet(items) \cup S
  <1>3. T \in SUBSET Findable /\ T \cap Memories \subseteq usable
    BY <1>1 DEF Visible, Findable, VisibleOK, ItemsOK, ToSet, Allowed
  <1>4. items' \in Seq(Findable) /\ Distinct(items') /\ ToSet(items') = T
    <2>1. items' \in SetToSeqs(T)
      BY <1>2
    <2>. HIDE DEF T
    <2>. QED
      BY <1>3, <2>1, OneList
  <1>5. ItemsOK'
    BY <1>1, <1>3, <1>4 DEF ItemsOK, Allowed, Distinct
  <1>6. RanksOK'
    BY <1>1, RanksStay
  <1>7. VisibleOK'
    BY <1>1, VisibleStays DEF Reads
  <1>8. ResultOK'
    BY <1>1, ResultStays
  <1>. QED
    BY <1>5, <1>6, <1>7, <1>8

\* A diversified list has the items, each once.
LEMMA DiverseKeeps ==
    ASSUME RetrievalAssumption, items \in Seq(Findable), Distinct(items), NEW seq \in Diversified
    PROVE  seq \in Seq(Findable) /\ Distinct(seq) /\ ToSet(seq) = ToSet(items)
  <1>1. CASE mode # "divergent" \/ items = <<>>
    BY <1>1 DEF Diversified
  <1>2. CASE ~(mode # "divergent" \/ items = <<>>)
    <2>. DEFINE x == items[1]
                S == ToSet(items) \ {x}
    <2>1. PICK p \in SetToSeqs(S) : seq = <<x>> \o p
      BY <1>2 DEF Diversified
    <2>2. x \in Findable /\ x \in ToSet(items) /\ ToSet(items) \subseteq Findable
      <3>1. Len(items) \in Nat /\ DOMAIN items = 1..Len(items) /\ Len(items) # 0
        BY <1>2
      <3>2. 1 \in DOMAIN items
        BY <3>1
      <3>. QED
        BY <3>2 DEF ToSet
    <2>3. p \in Seq(Findable) /\ Distinct(p) /\ ToSet(p) = S
      <3>1. S \in SUBSET Findable
        BY <2>2
      <3>. HIDE DEF S
      <3>. QED
        BY <2>1, <3>1, OneList
    <2>. HIDE DEF x
    <2>4. /\ seq \in Seq(Findable) /\ DOMAIN seq = 1..(Len(p) + 1) /\ Len(p) \in Nat /\ DOMAIN p = 1..Len(p)
          /\ seq[1] = x /\ \A i \in 1..Len(p) : seq[i + 1] = p[i]
      BY <2>1, <2>2, <2>3
    <2>5. \A i \in 1..(Len(p) + 1) : i = 1 \/ (i - 1 \in 1..Len(p) /\ (i - 1) + 1 = i)
      BY <2>4
    <2>6. \A i \in 1..(Len(p) + 1) : i # 1 => i - 1 \in DOMAIN p /\ seq[i] = p[i - 1]
      BY <2>4, <2>5
    <2>7. \A k \in DOMAIN p : p[k] # x
      BY <2>3 DEF ToSet
    <2>8. Distinct(seq)
      <3>1. ASSUME NEW i \in 1..(Len(p) + 1), NEW j \in 1..(Len(p) + 1), seq[i] = seq[j] PROVE i = j
        <4>1. CASE i = 1 \/ j = 1
          BY <2>4, <2>6, <2>7, <3>1, <4>1
        <4>2. CASE i # 1 /\ j # 1
          <5>1. p[i - 1] = p[j - 1] /\ i - 1 \in DOMAIN p /\ j - 1 \in DOMAIN p
            BY <2>6, <3>1, <4>2
          <5>2. i - 1 = j - 1
            BY <2>3, <5>1 DEF Distinct
          <5>. QED
            BY <5>2
        <4>. QED
          BY <4>1, <4>2
      <3>. QED
        BY <2>4, <3>1 DEF Distinct
    <2>9. ToSet(seq) = {x} \cup ToSet(p)
      <3>1. ToSet(seq) \subseteq {x} \cup ToSet(p)
        BY <2>4, <2>6 DEF ToSet
      <3>2. x \in ToSet(seq)
        BY <2>4 DEF ToSet
      <3>3. ASSUME NEW k \in DOMAIN p PROVE p[k] \in ToSet(seq)
        <4>1. k + 1 \in DOMAIN seq /\ seq[k + 1] = p[k]
          BY <2>4
        <4>. QED
          BY <4>1 DEF ToSet
      <3>. QED
        BY <3>1, <3>2, <3>3 DEF ToSet
    <2>. QED
      BY <2>2, <2>3, <2>4, <2>8, <2>9
  <1>. QED
    BY <1>1, <1>2

LEMMA AssembleKeeps ==
    ASSUME RetrievalAssumption, RetInv, Assemble
    PROVE  RetInv'
  <1>. USE DEF RetInv
  <1>1. /\ step = "assemble" /\ step' = "done" /\ mem' = mem /\ mode' = mode
        /\ found' = found /\ items' = items /\ usable' = usable
    BY DEF Assemble
  <1>2. PICK seq \in Diversified : result' = Edged(Packed(seq))
    BY DEF Assemble
  <1>3. items \in Seq(Findable) /\ Distinct(items) /\ Allowed(items)
    BY DEF ItemsOK
  <1>4. seq \in Seq(Findable) /\ Distinct(seq) /\ ToSet(seq) = ToSet(items)
    BY <1>3, DiverseKeeps
  <1>. DEFINE p == Packed(seq)
              S == ToSet(p)
  <1>5. /\ p \in Seq(Findable) /\ Distinct(p) /\ S \subseteq ToSet(items)
        /\ Used(S) <= Budget /\ \A t \in {"identity", "fact"} : UsedBy(S, t) <= TierShare
    BY <1>4, PackedFits
  <1>6. result' \in Seq(Findable) /\ Distinct(result') /\ ToSet(result') = S
    <2>. HIDE DEF p
    <2>. QED
      BY <1>2, <1>3, <1>5, EdgedKeeps DEF p
  <1>. HIDE DEF S
  <1>7. WithinBudget'
    <2>1. ToSet(result)' = S
      BY <1>6 DEF ToSet
    <2>. QED
      BY <1>5, <2>1 DEF WithinBudget, Used, UsedBy, TierShare
  <1>8. ResultOK'
    <2>1. S \cap Memories \subseteq usable
      BY <1>3, <1>5 DEF Allowed
    <2>. QED
      BY <1>1, <1>6, <1>7, <2>1 DEF ResultOK, Allowed, Distinct
  <1>9. ItemsOK'
    BY <1>1, ItemsStay
  <1>10. RanksOK'
    BY <1>1, RanksStay
  <1>11. VisibleOK'
    BY <1>1, VisibleStays DEF Reads
  <1>. QED
    BY <1>8, <1>9, <1>10, <1>11

LEMMA MovesKeeps ==
    ASSUME RetrievalAssumption, RetInv, NEW m \in Memories, Moves(m)
    PROVE  RetInv'
  <1>. USE DEF RetInv
  <1>1. /\ step # "start" /\ step' = step /\ mode' = mode /\ found' = found /\ items' = items /\ result' = result
    BY DEF Moves
  <1>2. PICK s \in {"canonical", "hypothesis", "closed"} :
            /\ mem' = [mem EXCEPT ![m] = s]
            /\ usable' = IF s \in Admitted THEN usable \cup {m} ELSE usable
    BY DEF Moves
  <1>3. usable \subseteq usable'
    BY <1>2
  <1>4. VisibleOK'
    <2>1. mem' \in [Memories -> Statuses] /\ \A x \in Memories : mem'[x] = IF x = m THEN s ELSE mem[x]
      BY <1>2 DEF VisibleOK, Statuses
    <2>2. ASSUME NEW x \in Memories, mem'[x] \in Admitted PROVE x \in usable'
      <3>1. CASE x = m
        BY <1>2, <2>1, <2>2, <3>1
      <3>2. CASE x # m
        <4>1. x \in Visible
          BY <2>1, <2>2, <3>2 DEF Visible
        <4>. QED
          BY <1>1, <1>3, <4>1 DEF VisibleOK
      <3>. QED
        BY <3>1, <3>2
    <2>3. Admitted' = Admitted
      BY <1>1 DEF Admitted
    <2>4. Visible' \subseteq usable'
      BY <2>2, <2>3 DEF Visible
    <2>. QED
      BY <1>1, <2>1, <2>4 DEF VisibleOK
  <1>5. RanksOK'
    BY <1>1, <1>3, RanksStay
  <1>6. ItemsOK'
    BY <1>1, <1>3, ItemsStay
  <1>7. ResultOK'
    BY <1>1, <1>3, ResultStays
  <1>. QED
    BY <1>4, <1>5, <1>6, <1>7

LEMMA RetStep ==
    ASSUME RetrievalAssumption, RetInv, [RetNext]_retVars
    PROVE  RetInv'
  <1>1. CASE UNCHANGED retVars
    <2>1. /\ mem' = mem /\ mode' = mode /\ step' = step /\ found' = found /\ items' = items
          /\ result' = result /\ usable' = usable
      BY <1>1 DEF retVars
    <2>2. VisibleOK'
      BY <2>1 DEF RetInv, VisibleOK, Visible, Admitted
    <2>3. RanksOK'
      BY <2>1, RanksStay DEF RetInv
    <2>4. ItemsOK'
      BY <2>1, ItemsStay DEF RetInv
    <2>5. ResultOK'
      BY <2>1, ResultStays DEF RetInv
    <2>. QED
      BY <2>2, <2>3, <2>4, <2>5 DEF RetInv
  <1>. QED
    BY <1>1, StartKeeps, QueryKeeps, FuseKeeps, ExpandKeeps, FollowUpKeeps, AssembleKeeps, MovesKeeps
    DEF RetNext

LEMMA RetInvShows ==
    ASSUME RetrievalAssumption, RetInv
    PROVE  RetrievalSound
  <1>1. RetTypeOK /\ NothingForbidden /\ WithinBudget
    BY DEF RetInv, ItemsOK, ResultOK, RetTypeOK, NothingForbidden, Allowed
  <1>2. CASE step \in {"expand", "follow"}
    <2>1. found \in Ranks /\ Short(found) /\ items = Fused(found)
      BY <1>2 DEF RetInv, ItemsOK, RanksOK
    <2>2. FusionAgrees
      BY <2>1, FusionFollows
    <2>. QED
      BY <1>1, <2>2 DEF RetrievalSound
  <1>3. CASE step \notin {"expand", "follow"}
    BY <1>1, <1>3 DEF RetrievalSound, FusionAgrees
  <1>. QED
    BY <1>2, <1>3

\* Whatever the memories and however they change meanwhile, fusion agrees with
\* its channels, no stage brings back a memory the mode must not show, and the
\* context keeps to its budget, each item in it once (memory/retrieval).
THEOREM RetrievalHolds == ASSUME RetrievalAssumption PROVE RetSpec => []RetrievalSound
  <1>1. RetInit => RetInv
    BY StartsRet
  <1>2. RetInv /\ [RetNext]_retVars => RetInv'
    BY RetStep
  <1>3. RetInv => RetrievalSound
    BY RetInvShows
  <1>. QED
    BY <1>1, <1>2, <1>3, PTL DEF RetSpec
===============================================================================
