--------------------------- MODULE Learning_proofs ---------------------------
(***************************************************************************)
(* What the system learns and proposes to itself: versions of a prompt that  *)
(* replace one another, lessons drawn from outcomes, and the candidates that *)
(* become goals, decisions and opportunities.                                *)
(***************************************************************************)
EXTENDS Evolution, Lessons, Proposals, FiniteSetTheorems, TLAPS

-----------------------------------------------------------------------------
(* Prompt versions.                                                          *)

PromptRows == [status : {"none", "candidate", "active", "held", "retired"},
               decision : {"none", "promote", "hold"}, rate : Rates, against : Versions \cup {0},
               replaced : SUBSET Versions]
Requests == [at : {"idle", "asked", "scored", "gate", "retire", "commit"}, pmt : Versions \cup {0},
             rate : Rates, against : Versions \cup {0}, pass : BOOLEAN,
             saw : {"pending", "granted", "none"}, snap : SUBSET Versions]
PromptsOK ==
    /\ prompt \in [Versions -> PromptRows]
    /\ caller \in [Callers -> Requests]
    /\ approval \in {"pending", "granted", "none"}
    /\ late \subseteq Versions
    /\ overlaps \in Nat
    /\ \A c \in Callers : caller[c].at # "idle" => caller[c].pmt \in Versions

\* A version active beyond the snapshot of a switch was activated by one counted
\* against it, and so is every other switch about to commit.
Committing == {c \in Callers : caller[c].at = "commit"}
SwitchesCounted ==
    /\ \A c \in Committing :
        Cardinality(ActiveNow \ caller[c].snap) + Cardinality(Committing \ {c}) <= overlaps
    /\ Cardinality(ActiveNow) <= 1 + overlaps

\* Unless its figures were changed late, a baseline keeps the rate it was judged
\* by: by a version that passed, ...
Served(b) == prompt[b].status \in {"active", "retired"}
JudgedFairly ==
    \A p \in Versions : \A b \in Versions \ late :
        prompt[p].decision = "promote" /\ prompt[p].against = b
            => Served(b) /\ prompt[p].rate >= prompt[b].rate
\* ... and by an evaluation about to be written.
ScoredFairly ==
    \A c \in Callers : \A b \in Versions \ late :
        caller[c].at = "scored" /\ caller[c].against = b
            => Served(b) /\ (caller[c].pass => caller[c].rate >= prompt[b].rate)

\* What is active, or on its way to be, passed or was changed late.
Leaving(c) == \/ caller[c].at = "gate" /\ caller[c].pass
              \/ caller[c].at \in {"retire", "commit"}
Passed(p) == p \in late \/ prompt[p].decision = "promote"
ActivePassed ==
    /\ \A p \in ActiveNow : Passed(p)
    /\ \A c \in Callers : Leaving(c) => Passed(caller[c].pmt)

VersionInv == PromptsOK /\ SwitchesCounted /\ JudgedFairly /\ ScoredFairly /\ ActivePassed

\* self_modify is refused without the passed evaluation (safety.pdp.decide).
LEMMA EvalGate ==
    ASSUME NEW call, call.pass = FALSE
    PROVE  Decide(ActivationRequest(call)).verdict # "ALLOW"
  <1>. DEFINE q == ActivationRequest(call)
  <1>1. /\ q.class = "self_modify" /\ q.evalPassed = FALSE /\ q.class # "read"
        /\ q.killUnreadable = FALSE /\ q.budgetHard = FALSE
    BY DEF ActivationRequest
  <1>. HIDE DEF q
  <1>2. \A r, reason : Decision("DENY", r, reason).verdict = "DENY"
    BY DEF Decision
  <1>3. \A reason : FailClosed(reason).verdict = "DENY"
    BY <1>2 DEF FailClosed
  <1>4. \A r : SelfModifyGate(q, r).verdict = "DENY"
    BY <1>1, <1>2 DEF SelfModifyGate
  <1>5. Decide(q).verdict = "DENY"
    BY <1>1, <1>2, <1>3, <1>4 DEF Decide
  <1>. QED
    BY <1>5 DEF q

LEMMA FiniteVersions ==
    ASSUME EvolutionAssumption
    PROVE  /\ \A S : S \subseteq Versions => IsFiniteSet(S) /\ Cardinality(S) \in Nat
           /\ \A S : S \subseteq Callers => IsFiniteSet(S) /\ Cardinality(S) \in Nat
  <1>1. IsFiniteSet(Versions) /\ IsFiniteSet(Callers)
    BY FS_Interval DEF EvolutionAssumption, Versions
  <1>. QED
    BY <1>1, FS_Subset, FS_CardinalityType

LEMMA EmptyCall == NoCall \in Requests /\ NoCall.at = "idle"
  BY DEF NoCall, Requests, Rates

LEMMA VersionsInit == EvolutionAssumption /\ EvoInit => VersionInv
  <1>. SUFFICES ASSUME EvolutionAssumption, EvoInit PROVE VersionInv
    OBVIOUS
  <1>1. NoPrompt \in PromptRows /\ NoCall \in Requests
    BY DEF NoPrompt, NoCall, PromptRows, Requests, Rates
  <1>2. PromptsOK
    BY <1>1 DEF EvoInit, PromptsOK, NoCall
  <1>3. Committing = {} /\ ActiveNow = {}
    BY DEF EvoInit, Committing, ActiveNow, NoCall, NoPrompt
  <1>4. SwitchesCounted
    BY <1>3, FS_EmptySet DEF SwitchesCounted, EvoInit
  <1>5. JudgedFairly /\ ScoredFairly
    BY DEF EvoInit, JudgedFairly, ScoredFairly, NoPrompt, NoCall
  <1>6. ActivePassed
    BY <1>3 DEF EvoInit, ActivePassed, NoCall, Leaving
  <1>. QED
    BY <1>2, <1>4, <1>5, <1>6 DEF VersionInv

\* A step that activates nothing and leaves the switches about to commit as they are.
LEMMA SwitchesAside ==
    ASSUME EvolutionAssumption, VersionInv, ActiveNow' \subseteq ActiveNow, overlaps' = overlaps,
           \A c \in Callers : caller'[c].at = "commit" => caller'[c] = caller[c]
    PROVE  SwitchesCounted'
  <1>1. Committing' \subseteq Committing /\ \A c \in Committing' : caller'[c].snap = caller[c].snap
    BY DEF Committing
  <1>2. ActiveNow \subseteq Versions /\ Committing \subseteq Callers
    BY DEF ActiveNow, Committing
  <1>3. ASSUME NEW c \in Committing'
        PROVE  Cardinality(ActiveNow' \ caller'[c].snap) + Cardinality(Committing' \ {c}) <= overlaps
    <2>1. PICK A : A = ActiveNow \ caller[c].snap
      OBVIOUS
    <2>2. PICK A1 : A1 = ActiveNow' \ caller'[c].snap
      OBVIOUS
    <2>3. A1 \subseteq A /\ A \subseteq Versions /\ A1 \subseteq Versions
      BY <1>1, <1>2, <2>1, <2>2
    <2>4. /\ Cardinality(A1) <= Cardinality(A)
          /\ Cardinality(A1) \in Nat /\ Cardinality(A) \in Nat
      BY <2>3, FiniteVersions, FS_Subset
    <2>5. /\ Cardinality(Committing' \ {c}) <= Cardinality(Committing \ {c})
          /\ Cardinality(Committing' \ {c}) \in Nat /\ Cardinality(Committing \ {c}) \in Nat
      <3>1. Committing' \ {c} \subseteq Committing \ {c} /\ Committing \ {c} \subseteq Callers
        BY <1>1, <1>2
      <3>. QED
        BY <3>1, FiniteVersions, FS_Subset
    <2>6. Cardinality(A) + Cardinality(Committing \ {c}) <= overlaps /\ overlaps \in Nat
      BY <1>1, <2>1 DEF VersionInv, SwitchesCounted, PromptsOK
    <2>. QED
      BY <2>2, <2>4, <2>5, <2>6
  <1>4. Cardinality(ActiveNow') <= 1 + overlaps
    <2>1. /\ Cardinality(ActiveNow') <= Cardinality(ActiveNow)
          /\ Cardinality(ActiveNow') \in Nat /\ Cardinality(ActiveNow) \in Nat
      <3>1. ActiveNow' \subseteq Versions
        BY <1>2
      <3>. QED
        BY <1>2, <3>1, FiniteVersions, FS_Subset
    <2>. QED
      BY <2>1 DEF VersionInv, SwitchesCounted, PromptsOK
  <1>. QED
    BY <1>3, <1>4 DEF SwitchesCounted

\* The switch c starts while those of K are about to commit: d is one of them.
LEMMA SwitchStarts ==
    ASSUME NEW K, IsFiniteSet(K), NEW A, IsFiniteSet(A), NEW c, c \notin K, NEW d \in K,
           NEW o \in Nat, Cardinality(A) + Cardinality(K \ {d}) <= o
    PROVE  Cardinality(A) + Cardinality((K \cup {c}) \ {d}) <= o + Cardinality(K)
  <1>1. IsFiniteSet(K \ {d}) /\ Cardinality(K \ {d}) = Cardinality(K) - 1
    BY FS_RemoveElement
  <1>2. (K \cup {c}) \ {d} = (K \ {d}) \cup {c} /\ c \notin K \ {d}
    OBVIOUS
  <1>3. Cardinality((K \ {d}) \cup {c}) = Cardinality(K \ {d}) + 1
    BY <1>1, <1>2, FS_AddElement
  <1>4. PICK k \in Nat : k = Cardinality(K \ {d})
    BY <1>1, FS_CardinalityType
  <1>5. PICK a \in Nat : a = Cardinality(A)
    BY FS_CardinalityType
  <1>6. PICK n \in Nat : n = Cardinality(K)
    BY FS_CardinalityType
  <1>7. k = n - 1 /\ a + k <= o
    BY <1>1, <1>4, <1>5, <1>6
  <1>8. a + (k + 1) <= o + n
    BY <1>7
  <1>. QED
    BY <1>2, <1>3, <1>4, <1>5, <1>6, <1>8

\* The switch c ends, adding at most the version m to what d has not seen.
LEMMA SwitchEnds ==
    ASSUME NEW K, IsFiniteSet(K), NEW A, IsFiniteSet(A), NEW c \in K, NEW d \in K \ {c},
           NEW B, NEW m, B \subseteq A \cup {m},
           NEW o \in Nat, Cardinality(A) + Cardinality(K \ {d}) <= o
    PROVE  Cardinality(B) + Cardinality((K \ {c}) \ {d}) <= o
  <1>1. IsFiniteSet(K \ {d}) /\ Cardinality(K \ {d}) \in Nat
    BY FS_RemoveElement, FS_CardinalityType
  <1>2. (K \ {c}) \ {d} = (K \ {d}) \ {c} /\ c \in K \ {d}
    OBVIOUS
  <1>3. Cardinality((K \ {d}) \ {c}) = Cardinality(K \ {d}) - 1
    BY <1>1, <1>2, FS_RemoveElement
  <1>4. PICK k \in Nat : k = Cardinality(K \ {d})
    BY <1>1
  <1>5. PICK a \in Nat : a = Cardinality(A)
    BY FS_CardinalityType
  <1>6. PICK b \in Nat : b = Cardinality(B) /\ b <= a + 1
    <2>1. IsFiniteSet(A \cup {m}) /\ Cardinality(A \cup {m}) \in Nat
      BY FS_AddElement, FS_CardinalityType
    <2>2. Cardinality(A \cup {m}) <= Cardinality(A) + 1
      <3>1. CASE m \in A
        <4>1. A \cup {m} = A
          BY <3>1
        <4>2. a <= a + 1
          BY <1>5
        <4>. QED
          BY <4>1, <4>2, <1>5
      <3>2. CASE m \notin A
        BY <1>5, <2>1, <3>2, FS_AddElement
      <3>. QED
        BY <3>1, <3>2
    <2>3. Cardinality(B) <= Cardinality(A \cup {m}) /\ Cardinality(B) \in Nat
      BY <2>1, FS_Subset, FS_CardinalityType
    <2>. QED
      BY <1>5, <2>1, <2>2, <2>3
  <1>7. a + k <= o
    BY <1>4, <1>5
  <1>8. b + (k - 1) <= o
    BY <1>6, <1>7
  <1>. QED
    BY <1>2, <1>3, <1>4, <1>6, <1>8

LEMMA RetiresStep ==
    ASSUME EvolutionAssumption, VersionInv, NEW c \in Callers, ActivateRetires(c)
    PROVE  VersionInv'
  <1>0. PromptsOK
    BY DEF VersionInv
  <1>1. /\ caller[c].at = "retire"
        /\ overlaps' = overlaps + Cardinality(Committing)
        /\ caller' = [caller EXCEPT ![c] = [@ EXCEPT !.at = "commit", !.snap = ActiveNow]]
        /\ UNCHANGED <<prompt, approval, killed, late, spent>>
    BY DEF ActivateRetires, Committing
  <1>2. ActiveNow \subseteq Versions /\ Committing \subseteq Callers /\ ActiveNow' = ActiveNow
    BY <1>1 DEF ActiveNow, Committing
  <1>3. /\ IsFiniteSet(Committing) /\ Cardinality(Committing) \in Nat
        /\ overlaps \in Nat /\ overlaps' \in Nat
    BY <1>0, <1>1, <1>2, FiniteVersions DEF PromptsOK
  <1>4. /\ caller'[c].at = "commit" /\ caller'[c].snap = ActiveNow /\ caller'[c].pmt = caller[c].pmt
        /\ \A d \in Callers \ {c} : caller'[d] = caller[d]
        /\ caller' \in [Callers -> Requests]
    <2>1. PICK was \in Requests : was = caller[c]
      BY <1>0 DEF PromptsOK
    <2>2. PICK snap \in SUBSET Versions : snap = ActiveNow
      BY <1>2
    <2>3. PICK call : call = [was EXCEPT !.at = "commit", !.snap = snap]
      OBVIOUS
    <2>4. call \in Requests /\ call.at = "commit" /\ call.snap = snap /\ call.pmt = was.pmt
      BY <2>3 DEF Requests
    <2>5. caller' = [caller EXCEPT ![c] = call]
      BY <1>1, <2>1, <2>2, <2>3
    <2>. QED
      BY <1>0, <2>1, <2>2, <2>4, <2>5 DEF PromptsOK
  <1>5. Committing' = Committing \cup {c} /\ c \notin Committing
    BY <1>1, <1>4 DEF Committing
  <1>6. PromptsOK'
    BY <1>0, <1>1, <1>3, <1>4 DEF PromptsOK
  <1>7. SwitchesCounted'
    <2>1. ASSUME NEW d \in Committing'
          PROVE  Cardinality(ActiveNow' \ caller'[d].snap) + Cardinality(Committing' \ {d}) <= overlaps'
      <3>1. CASE d = c
        <4>1. ActiveNow' \ caller'[d].snap = {} /\ Committing' \ {d} = Committing
          BY <1>2, <1>4, <1>5, <3>1
        <4>2. Cardinality(ActiveNow' \ caller'[d].snap) = 0
          BY <4>1, FS_EmptySet
        <4>3. PICK n \in Nat : n = Cardinality(Committing)
          BY <1>3
        <4>4. 0 + n <= overlaps + n
          BY <1>3
        <4>. QED
          BY <1>1, <4>1, <4>2, <4>3, <4>4
      <3>2. CASE d # c
        <4>1. d \in Committing /\ caller'[d] = caller[d]
          BY <1>4, <1>5, <2>1, <3>2 DEF Committing
        <4>2. PICK A : A = ActiveNow \ caller[d].snap /\ A = ActiveNow' \ caller'[d].snap
          BY <1>2, <4>1
        <4>3. IsFiniteSet(A)
          BY <1>2, <4>2, FiniteVersions
        <4>4. Cardinality(A) + Cardinality(Committing \ {d}) <= overlaps
          BY <4>1, <4>2 DEF VersionInv, SwitchesCounted
        <4>5. Cardinality(A) + Cardinality((Committing \cup {c}) \ {d})
                <= overlaps + Cardinality(Committing)
          BY <1>3, <1>5, <4>1, <4>3, <4>4, SwitchStarts
        <4>. QED
          BY <1>1, <1>5, <4>2, <4>5
      <3>. QED
        BY <3>1, <3>2
    <2>2. Cardinality(ActiveNow') <= 1 + overlaps'
      <3>1. PICK a \in Nat : a = Cardinality(ActiveNow) /\ a <= 1 + overlaps
        BY <1>2, FiniteVersions DEF VersionInv, SwitchesCounted
      <3>2. PICK n \in Nat : n = Cardinality(Committing)
        BY <1>3
      <3>3. a <= 1 + (overlaps + n)
        BY <1>3, <3>1
      <3>. QED
        BY <1>1, <1>2, <3>1, <3>2, <3>3
    <2>. QED
      BY <2>1, <2>2 DEF SwitchesCounted
  <1>8. JudgedFairly' /\ ScoredFairly'
    BY <1>1, <1>4 DEF VersionInv, JudgedFairly, ScoredFairly, Served
  <1>9. ActivePassed'
    BY <1>1, <1>2, <1>4 DEF VersionInv, ActivePassed, Passed, Leaving
  <1>. QED
    BY <1>6, <1>7, <1>8, <1>9 DEF VersionInv

LEMMA CommitsStep ==
    ASSUME EvolutionAssumption, VersionInv, NEW c \in Callers, ActivateCommits(c)
    PROVE  VersionInv'
  <1>0. PromptsOK
    BY DEF VersionInv
  <1>. PICK m : m = caller[c].pmt
    OBVIOUS
  <1>1. /\ caller[c].at = "commit" /\ m \in Versions
        /\ caller' = [caller EXCEPT ![c] = NoCall]
        /\ UNCHANGED <<approval, killed, late, overlaps, spent>>
    BY <1>0 DEF ActivateCommits, PromptsOK
  <1>2. /\ prompt'[m] = [prompt[m] EXCEPT !.status = "active", !.replaced = ActiveNow \ {m}]
        /\ \A p \in Versions \ {m} :
              prompt'[p] = IF Retired(p, c) THEN [prompt[p] EXCEPT !.status = "retired"]
                                            ELSE prompt[p]
        /\ prompt' = [p \in Versions |-> prompt'[p]]
    BY <1>1 DEF ActivateCommits
  <1>3. ActiveNow \subseteq Versions /\ Committing \subseteq Callers
    BY DEF ActiveNow, Committing
  <1>4. /\ caller'[c].at = "idle" /\ caller'[c] = NoCall
        /\ \A d \in Callers \ {c} : caller'[d] = caller[d]
        /\ caller' \in [Callers -> Requests]
    <2>1. NoCall \in Requests /\ NoCall.at = "idle"
      BY DEF NoCall, Requests, Rates
    <2>. QED
      BY <1>0, <1>1, <2>1 DEF PromptsOK
  <1>5. Committing' = Committing \ {c} /\ c \in Committing
    BY <1>1, <1>4 DEF Committing
  <1>6. /\ \A p \in Versions : /\ prompt'[p] \in PromptRows
                               /\ prompt'[p].decision = prompt[p].decision
                               /\ prompt'[p].rate = prompt[p].rate
                               /\ prompt'[p].against = prompt[p].against
                               /\ Served(p) => Served(p)'
    <2>1. \A p \in Versions : prompt[p] \in PromptRows
      BY <1>0 DEF PromptsOK
    <2>2. CASE TRUE
      <3>1. /\ prompt'[m] \in PromptRows
            /\ prompt'[m].decision = prompt[m].decision
            /\ prompt'[m].rate = prompt[m].rate
            /\ prompt'[m].against = prompt[m].against
            /\ prompt'[m].status = "active"
        <4>1. PICK R \in SUBSET Versions : R = ActiveNow \ {m}
          BY <1>3
        <4>2. prompt'[m] = [prompt[m] EXCEPT !.status = "active", !.replaced = R]
          BY <1>2, <4>1
        <4>3. PICK row \in PromptRows : row = prompt[m]
          BY <1>1, <2>1
        <4>4. prompt'[m] = [row EXCEPT !.status = "active", !.replaced = R]
          BY <4>2, <4>3
        <4>. QED
          BY <4>3, <4>4 DEF PromptRows
      <3>2. ASSUME NEW p \in Versions \ {m}
            PROVE  /\ prompt'[p] \in PromptRows
                   /\ prompt'[p].decision = prompt[p].decision
                   /\ prompt'[p].rate = prompt[p].rate
                   /\ prompt'[p].against = prompt[p].against
                   /\ Served(p) => Served(p)'
        BY <1>2, <2>1 DEF PromptRows, Served
      <3>. QED
        BY <3>1, <3>2 DEF Served
    <2>. QED
      BY <2>2
  <1>7. ActiveNow' = (ActiveNow \ caller[c].snap) \cup {m}
    <2>1. \A p \in Versions : prompt[p] \in PromptRows
      BY <1>0 DEF PromptsOK
    <2>2. prompt'[m].status = "active"
      BY <1>1, <1>2, <2>1 DEF PromptRows
    <2>3. \A p \in Versions \ {m} :
            prompt'[p].status = "active" <=> prompt[p].status = "active" /\ p \notin caller[c].snap
      BY <1>2, <2>1 DEF PromptRows, Retired
    <2>. QED
      BY <1>1, <2>2, <2>3 DEF ActiveNow
  <1>8. PromptsOK'
    BY <1>0, <1>1, <1>2, <1>4, <1>6 DEF PromptsOK
  <1>9. SwitchesCounted'
    <2>0. overlaps \in Nat /\ overlaps' = overlaps /\ IsFiniteSet(Committing)
      BY <1>0, <1>1, <1>3, FiniteVersions DEF PromptsOK
    <2>1. ASSUME NEW d \in Committing'
          PROVE  Cardinality(ActiveNow' \ caller'[d].snap) + Cardinality(Committing' \ {d}) <= overlaps'
      <3>1. d \in Committing \ {c} /\ caller'[d] = caller[d]
        BY <1>3, <1>4, <1>5
      <3>2. PICK A : A = ActiveNow \ caller[d].snap
        OBVIOUS
      <3>3. PICK B : B = ActiveNow' \ caller'[d].snap
        OBVIOUS
      <3>4. B \subseteq A \cup {m} /\ IsFiniteSet(A)
        <4>1. A \subseteq Versions
          BY <1>3, <3>2
        <4>. QED
          BY <1>7, <3>1, <3>2, <3>3, <4>1, FiniteVersions
      <3>5. Cardinality(A) + Cardinality(Committing \ {d}) <= overlaps
        BY <3>1, <3>2 DEF VersionInv, SwitchesCounted
      <3>6. Cardinality(B) + Cardinality((Committing \ {c}) \ {d}) <= overlaps
        BY <1>5, <2>0, <3>1, <3>4, <3>5, SwitchEnds
      <3>. QED
        BY <1>5, <2>0, <3>3, <3>6
    <2>2. Cardinality(ActiveNow') <= 1 + overlaps'
      <3>1. PICK A : A = ActiveNow \ caller[c].snap
        OBVIOUS
      <3>2. A \subseteq Versions /\ A \cup {m} \subseteq Versions
        BY <1>1, <1>3, <3>1
      <3>3. /\ IsFiniteSet(A) /\ IsFiniteSet(A \cup {m})
            /\ Cardinality(A) \in Nat /\ Cardinality(Committing \ {c}) \in Nat
            /\ Cardinality(A \cup {m}) \in Nat
        <4>1. Committing \ {c} \subseteq Callers
          BY <1>3
        <4>. QED
          BY <3>2, <4>1, FiniteVersions
      <3>4. Cardinality(A \cup {m}) <= Cardinality(A) + 1
        <4>1. CASE m \in A
          <5>1. A \cup {m} = A
            BY <4>1
          <5>. QED
            BY <3>3, <5>1
        <4>2. CASE m \notin A
          BY <3>3, <4>2, FS_AddElement
        <4>. QED
          BY <4>1, <4>2
      <3>5. Cardinality(A) + Cardinality(Committing \ {c}) <= overlaps
        BY <1>5, <3>1 DEF VersionInv, SwitchesCounted
      <3>6. PICK a \in Nat : a = Cardinality(A)
        BY <3>3
      <3>7. PICK b \in Nat : b = Cardinality(A \cup {m}) /\ b <= a + 1
        BY <3>3, <3>4, <3>6
      <3>8. PICK k \in Nat : k = Cardinality(Committing \ {c}) /\ a + k <= overlaps
        BY <3>3, <3>5, <3>6
      <3>9. b <= 1 + overlaps
        BY <2>0, <3>7, <3>8
      <3>. QED
        BY <1>7, <2>0, <3>1, <3>7, <3>9
    <2>. QED
      BY <2>1, <2>2 DEF SwitchesCounted
  <1>10. JudgedFairly'
    BY <1>1, <1>6 DEF VersionInv, JudgedFairly
  <1>11. ScoredFairly'
    BY <1>1, <1>4, <1>6 DEF VersionInv, ScoredFairly
  <1>12. ActivePassed'
    <2>1. \A p \in Versions : Passed(p) => Passed(p)'
      BY <1>1, <1>6 DEF Passed
    <2>2. Passed(m)
      BY <1>1 DEF VersionInv, ActivePassed, Leaving
    <2>3. \A p \in ActiveNow' : Passed(p)'
      BY <1>1, <1>3, <1>7, <2>1, <2>2 DEF VersionInv, ActivePassed
    <2>4. ASSUME NEW d \in Callers, Leaving(d)' PROVE Passed(caller[d].pmt)' /\ d # c
      <3>1. d # c
        BY <1>4, <2>4 DEF Leaving
      <3>2. Leaving(d) /\ caller[d].at # "idle" /\ caller[d].pmt \in Versions
        BY <1>0, <1>4, <2>4, <3>1 DEF Leaving, PromptsOK
      <3>3. PICK q \in Versions : q = caller[d].pmt /\ q = caller'[d].pmt
        BY <1>4, <3>1, <3>2
      <3>4. Passed(q)
        BY <3>2, <3>3 DEF VersionInv, ActivePassed
      <3>5. Passed(q)'
        BY <2>1, <3>4
      <3>. QED
        BY <3>1, <3>3, <3>5 DEF Passed
    <2>. QED
      BY <1>4, <2>3, <2>4 DEF ActivePassed
  <1>. QED
    BY <1>8, <1>9, <1>10, <1>11, <1>12 DEF VersionInv

\* A request that moves on without touching a version or starting a switch.
LEMMA RequestMoves ==
    ASSUME EvolutionAssumption, VersionInv, NEW c \in Callers, NEW call \in Requests,
           caller' = [caller EXCEPT ![c] = call],
           UNCHANGED <<prompt, late, overlaps>>, approval' \in {"pending", "granted", "none"},
           call.at \notin {"commit"},
           call.at # "idle" => call.pmt \in Versions,
           call.at = "scored" =>
              \A b \in Versions \ late :
                 call.against = b => Served(b) /\ (call.pass => call.rate >= prompt[b].rate),
           call.at = "retire" \/ (call.at = "gate" /\ call.pass) => Passed(call.pmt)
    PROVE  VersionInv'
  <1>0. PromptsOK
    BY DEF VersionInv
  <1>1. /\ caller'[c] = call
        /\ \A d \in Callers \ {c} : caller'[d] = caller[d]
        /\ caller' \in [Callers -> Requests]
    BY <1>0 DEF PromptsOK
  <1>2. PromptsOK'
    BY <1>0, <1>1 DEF PromptsOK
  <1>3. SwitchesCounted'
    <2>1. ActiveNow' = ActiveNow
      BY DEF ActiveNow
    <2>2. \A d \in Callers : caller'[d].at = "commit" => caller'[d] = caller[d]
      BY <1>1
    <2>. QED
      BY <2>1, <2>2, SwitchesAside
  <1>4. JudgedFairly'
    BY DEF VersionInv, JudgedFairly, Served
  <1>5. ScoredFairly'
    <2>1. ASSUME NEW d \in Callers, NEW b \in Versions \ late,
                 caller'[d].at = "scored", caller'[d].against = b
          PROVE  Served(b) /\ (caller'[d].pass => caller'[d].rate >= prompt[b].rate)
      <3>1. CASE d = c
        BY <1>1, <2>1, <3>1
      <3>2. CASE d # c
        BY <1>1, <2>1, <3>2 DEF VersionInv, ScoredFairly
      <3>. QED
        BY <3>1, <3>2
    <2>. QED
      BY <2>1 DEF ScoredFairly, Served
  <1>6. ActivePassed'
    <2>1. \A p : Passed(p)' <=> Passed(p)
      BY DEF Passed
    <2>2. \A p \in ActiveNow' : Passed(p)'
      BY <2>1 DEF VersionInv, ActivePassed, ActiveNow
    <2>3. ASSUME NEW d \in Callers, Leaving(d)' PROVE Passed(caller[d].pmt)'
      <3>1. Passed(caller'[d].pmt)
        BY <1>1, <2>3 DEF VersionInv, ActivePassed, Leaving
      <3>. QED
        BY <3>1 DEF Passed
    <2>. QED
      BY <2>2, <2>3 DEF ActivePassed
  <1>. QED
    BY <1>2, <1>3, <1>4, <1>5, <1>6 DEF VersionInv

LEMMA WritesStep ==
    ASSUME EvolutionAssumption, VersionInv, NEW c \in Callers, EvalWrites(c)
    PROVE  VersionInv'
  <1>0. PromptsOK
    BY DEF VersionInv
  <1>. PICK p : p = caller[c].pmt
    OBVIOUS
  <1>1. /\ caller[c].at = "scored" /\ p \in Versions
        /\ caller' = [caller EXCEPT ![c] = NoCall]
        /\ late' = IF prompt[p].status \in {"active", "retired"} \/ Activating(p)
                   THEN late \cup {p} ELSE late
        /\ UNCHANGED <<approval, killed, overlaps, spent>>
    BY <1>0 DEF EvalWrites, PromptsOK
  <1>2. PICK verdict \in {"promote", "hold"} :
            /\ verdict = "promote" <=> caller[c].pass
            /\ prompt' = [prompt EXCEPT ![p] = [prompt[p] EXCEPT
                  !.decision = verdict,
                  !.rate = caller[c].rate, !.against = caller[c].against,
                  !.status = IF caller[c].pass THEN prompt[p].status ELSE "held"]]
    <2>1. prompt' = [prompt EXCEPT ![p] = [prompt[p] EXCEPT
                  !.decision = IF caller[c].pass THEN "promote" ELSE "hold",
                  !.rate = caller[c].rate, !.against = caller[c].against,
                  !.status = IF caller[c].pass THEN prompt[p].status ELSE "held"]]
      BY DEF EvalWrites
    <2>2. PICK verdict \in {"promote", "hold"} :
              verdict = IF caller[c].pass THEN "promote" ELSE "hold"
      OBVIOUS
    <2>. QED
      BY <2>1, <2>2
  <1>3. /\ prompt'[p] \in PromptRows
        /\ prompt'[p].decision = verdict
        /\ prompt'[p].rate = caller[c].rate
        /\ prompt'[p].against = caller[c].against
        /\ prompt'[p].status \in {prompt[p].status, "held"}
        /\ prompt' \in [Versions -> PromptRows]
    <2>1. PICK row \in PromptRows : row = prompt[p]
      BY <1>0, <1>1 DEF PromptsOK
    <2>2. PICK rate \in Rates, base \in Versions \cup {0} :
              rate = caller[c].rate /\ base = caller[c].against
      BY <1>0 DEF PromptsOK, Requests
    <2>3. PICK s \in {"none", "candidate", "active", "held", "retired"} :
              /\ s \in {row.status, "held"}
              /\ s = IF caller[c].pass THEN row.status ELSE "held"
      BY DEF PromptRows
    <2>4. PICK new : new = [row EXCEPT !.decision = verdict, !.rate = rate, !.against = base,
                                       !.status = s]
      OBVIOUS
    <2>5. /\ new \in PromptRows
          /\ new.decision = verdict /\ new.rate = rate
          /\ new.against = base /\ new.status = s
      BY <2>4 DEF PromptRows
    <2>6. prompt' = [prompt EXCEPT ![p] = new]
      <3>1. PICK e : e = [prompt[p] EXCEPT
                            !.decision = verdict,
                            !.rate = caller[c].rate, !.against = caller[c].against,
                            !.status = IF caller[c].pass THEN prompt[p].status ELSE "held"]
        OBVIOUS
      <3>2. prompt' = [prompt EXCEPT ![p] = e]
        BY <1>2, <3>1
      <3>3. e = [row EXCEPT !.decision = verdict, !.rate = rate, !.against = base,
                            !.status = IF caller[c].pass THEN row.status ELSE "held"]
        BY <2>1, <2>2, <3>1 DEF PromptRows
      <3>4. e = new
        BY <2>3, <2>4, <3>3
      <3>. QED
        BY <3>2, <3>4
    <2>7. prompt'[p] = new
      BY <1>0, <1>1, <2>6 DEF PromptsOK
    <2>. QED
      BY <1>0, <2>1, <2>2, <2>3, <2>5, <2>6, <2>7 DEF PromptsOK
  <1>4. \A q \in Versions \ {p} : prompt'[q] = prompt[q]
    BY <1>0, <1>2 DEF PromptsOK
  <1>5. /\ caller'[c] = NoCall /\ NoCall.at = "idle"
        /\ \A d \in Callers \ {c} : caller'[d] = caller[d]
        /\ caller' \in [Callers -> Requests]
    <2>1. NoCall \in Requests /\ NoCall.at = "idle"
      BY DEF NoCall, Requests, Rates
    <2>. QED
      BY <1>0, <1>1, <2>1 DEF PromptsOK
  <1>6. late \subseteq late' /\ late' \subseteq Versions
    BY <1>0, <1>1 DEF PromptsOK
  <1>7. PromptsOK'
    BY <1>0, <1>1, <1>3, <1>5, <1>6 DEF PromptsOK
  <1>8. SwitchesCounted'
    <2>1. ActiveNow' \subseteq ActiveNow
      BY <1>1, <1>3, <1>4 DEF ActiveNow
    <2>2. \A d \in Callers : caller'[d].at = "commit" => caller'[d] = caller[d]
      BY <1>5
    <2>. QED
      BY <1>1, <2>1, <2>2, SwitchesAside
  <1>9. \A b \in Versions \ late' : Served(b) => Served(b)' /\ prompt'[b] = prompt[b]
    <2>1. Served(p) => p \in late'
      BY <1>1 DEF Served
    <2>. QED
      BY <1>4, <2>1 DEF Served
  <1>10. JudgedFairly'
    <2>1. ASSUME NEW q \in Versions, NEW b \in Versions \ late',
                 prompt'[q].decision = "promote", prompt'[q].against = b
          PROVE  Served(b)' /\ prompt'[q].rate >= prompt'[b].rate
      <3>1. CASE q = p
        <4>1. caller[c].pass /\ caller[c].against = b
          BY <1>2, <1>3, <2>1, <3>1
        <4>2. Served(b) /\ caller[c].rate >= prompt[b].rate
          BY <1>1, <1>6, <4>1 DEF VersionInv, ScoredFairly
        <4>. QED
          BY <1>3, <1>9, <3>1, <4>2
      <3>2. CASE q # p
        <4>1. prompt'[q] = prompt[q]
          BY <1>4, <3>2
        <4>2. Served(b) /\ prompt[q].rate >= prompt[b].rate
          BY <1>6, <2>1, <4>1 DEF VersionInv, JudgedFairly
        <4>. QED
          BY <1>9, <4>1, <4>2
      <3>. QED
        BY <3>1, <3>2
    <2>. QED
      BY <2>1 DEF JudgedFairly, Served
  <1>11. ScoredFairly'
    <2>1. ASSUME NEW d \in Callers, NEW b \in Versions \ late',
                 caller'[d].at = "scored", caller'[d].against = b
          PROVE  Served(b)' /\ (caller'[d].pass => caller'[d].rate >= prompt'[b].rate)
      <3>1. caller'[d] = caller[d]
        BY <1>5, <2>1
      <3>2. Served(b) /\ (caller[d].pass => caller[d].rate >= prompt[b].rate)
        BY <1>6, <2>1, <3>1 DEF VersionInv, ScoredFairly
      <3>. QED
        BY <1>9, <3>1, <3>2
    <2>. QED
      BY <2>1 DEF ScoredFairly, Served
  <1>12. ActivePassed'
    <2>1. \A q \in Versions \ {p} : Passed(q) => Passed(q)'
      BY <1>4, <1>6 DEF Passed
    <2>2. (p \in ActiveNow' \/ Activating(p)) => Passed(p)'
      <3>1. p \in ActiveNow' => prompt[p].status = "active"
        BY <1>3 DEF ActiveNow
      <3>. QED
        BY <1>1, <3>1 DEF Passed
    <2>3. \A q \in ActiveNow' : Passed(q)'
      <3>1. \A q \in ActiveNow' : q \in Versions /\ (q # p => q \in ActiveNow)
        BY <1>4 DEF ActiveNow
      <3>. QED
        BY <2>1, <2>2, <3>1 DEF VersionInv, ActivePassed
    <2>4. ASSUME NEW d \in Callers, Leaving(d)' PROVE Passed(caller[d].pmt)'
      <3>1. d # c /\ caller'[d] = caller[d] /\ Leaving(d)
        BY <1>5, <2>4 DEF Leaving
      <3>2. PICK q \in Versions : q = caller[d].pmt /\ q = caller'[d].pmt
        BY <1>0, <3>1 DEF PromptsOK, Leaving
      <3>3. Passed(q)
        BY <3>1, <3>2 DEF VersionInv, ActivePassed
      <3>4. Passed(q)'
        <4>1. CASE q = p
          BY <2>2, <3>1, <3>2, <4>1 DEF Activating, Leaving
        <4>2. CASE q # p
          BY <2>1, <3>3, <4>2
        <4>. QED
          BY <4>1, <4>2
      <3>. QED
        BY <3>2, <3>4 DEF Passed
    <2>. QED
      BY <2>3, <2>4 DEF ActivePassed
  <1>. QED
    BY <1>7, <1>8, <1>10, <1>11, <1>12 DEF VersionInv

LEMMA VersionsNext == EvolutionAssumption /\ VersionInv /\ [EvoNext]_evoVars => VersionInv'
  <1>. SUFFICES ASSUME EvolutionAssumption, VersionInv, [EvoNext]_evoVars PROVE VersionInv'
    OBVIOUS
  <1>0. PromptsOK
    BY DEF VersionInv
  <1>1. ASSUME NEW p \in Versions, Propose(p) PROVE VersionInv'
    <2>1. /\ prompt[p].status = "none" /\ UNCHANGED <<approval, killed, caller, late, overlaps>>
          /\ prompt' = [prompt EXCEPT ![p].status = "candidate"]
      BY <1>1 DEF Propose
    <2>2. /\ prompt'[p] \in PromptRows
          /\ prompt'[p].decision = prompt[p].decision /\ prompt'[p].rate = prompt[p].rate
          /\ prompt'[p].against = prompt[p].against /\ prompt'[p].status = "candidate"
          /\ \A q \in Versions \ {p} : prompt'[q] = prompt[q]
          /\ prompt' \in [Versions -> PromptRows]
      BY <1>0, <2>1 DEF PromptsOK, PromptRows
    <2>3. PromptsOK'
      BY <1>0, <2>1, <2>2 DEF PromptsOK
    <2>4. ActiveNow' = ActiveNow
      BY <2>1, <2>2 DEF ActiveNow
    <2>5. SwitchesCounted'
      BY <2>1, <2>4, SwitchesAside
    <2>6. \A b \in Versions : prompt'[b].rate = prompt[b].rate /\ (Served(b) => Served(b)')
      BY <2>1, <2>2 DEF Served
    <2>7. JudgedFairly'
      BY <2>1, <2>2, <2>6 DEF VersionInv, JudgedFairly
    <2>8. ScoredFairly'
      BY <2>1, <2>6 DEF VersionInv, ScoredFairly
    <2>9. ActivePassed'
      <3>1. \A q \in Versions : Passed(q) => Passed(q)'
        BY <2>1, <2>2 DEF Passed
      <3>2. \A q \in ActiveNow' : Passed(q)'
        BY <2>4, <3>1 DEF VersionInv, ActivePassed, ActiveNow
      <3>3. ASSUME NEW d \in Callers, Leaving(d)' PROVE Passed(caller[d].pmt)'
        <4>1. PICK q \in Versions : q = caller[d].pmt /\ q = caller'[d].pmt /\ Leaving(d)
          BY <1>0, <2>1, <3>3 DEF PromptsOK, Leaving
        <4>2. Passed(q)
          BY <4>1 DEF VersionInv, ActivePassed
        <4>3. Passed(q)'
          BY <3>1, <4>2
        <4>. QED
          BY <4>1, <4>3 DEF Passed
      <3>. QED
        BY <3>2, <3>3 DEF ActivePassed
    <2>. QED
      BY <2>3, <2>5, <2>7, <2>8, <2>9 DEF VersionInv
  <1>2. ASSUME NEW c \in Callers, NEW p \in Versions, EvalReads(c, p) PROVE VersionInv'
    <2>1. PICK call : /\ call = [NoCall EXCEPT !.at = "asked", !.pmt = p]
                      /\ caller' = [caller EXCEPT ![c] = call]
                      /\ UNCHANGED <<prompt, approval, late, overlaps>>
      BY <1>2 DEF EvalReads
    <2>2. call \in Requests /\ call.at = "asked" /\ call.pmt \in Versions
      BY <2>1, EmptyCall DEF Requests
    <2>. QED
      BY <1>0, <2>1, <2>2, RequestMoves DEF PromptsOK
  <1>3. ASSUME NEW c \in Callers, NEW p \in Versions, ActivateReads(c, p) PROVE VersionInv'
    <2>1. PICK call : /\ call = [NoCall EXCEPT !.at = "gate", !.pmt = p,
                                   !.pass = prompt[p].decision = "promote", !.saw = approval]
                      /\ caller' = [caller EXCEPT ![c] = call]
                      /\ UNCHANGED <<prompt, approval, late, overlaps>>
      BY <1>3 DEF ActivateReads
    <2>2. /\ call \in Requests /\ call.at = "gate" /\ call.pmt = p
          /\ call.pass = (prompt[p].decision = "promote")
      <3>1. PICK passed \in BOOLEAN : passed = (prompt[p].decision = "promote")
        OBVIOUS
      <3>2. PICK saw \in {"pending", "granted", "none"} : saw = approval
        BY <1>0 DEF PromptsOK
      <3>3. call = [NoCall EXCEPT !.at = "gate", !.pmt = p, !.pass = passed, !.saw = saw]
        BY <2>1, <3>1, <3>2
      <3>4. call \in Requests /\ call.at = "gate" /\ call.pmt = p /\ call.pass = passed
        BY <3>3, EmptyCall DEF Requests
      <3>. QED
        BY <3>1, <3>4
    <2>. QED
      BY <1>0, <2>1, <2>2, RequestMoves DEF PromptsOK, Passed
  <1>4. ASSUME NEW c \in Callers, EvalScores(c) PROVE VersionInv'
    <2>1. PICK rate \in Rates, base \in ActiveNow \cup {0} :
              /\ caller' = [caller EXCEPT ![c] = [@ EXCEPT !.at = "scored", !.rate = rate,
                                              !.against = base, !.pass = Passes(rate, base)]]
              /\ caller[c].at = "asked" /\ UNCHANGED <<prompt, approval, late, overlaps>>
      BY <1>4 DEF EvalScores
    <2>0. PICK call :
              /\ call = [caller[c] EXCEPT !.at = "scored", !.rate = rate,
                                          !.against = base, !.pass = Passes(rate, base)]
              /\ caller' = [caller EXCEPT ![c] = call]
      BY <2>1
    <2>2. PICK was \in Requests : was = caller[c] /\ was.pmt \in Versions
      BY <1>0, <2>1 DEF PromptsOK
    <2>3. PICK ok \in BOOLEAN : /\ ok = Passes(rate, base)
                                /\ ok => (base # 0 => rate >= prompt[base].rate)
      BY DEF Passes
    <2>4. /\ call \in Requests /\ call.at = "scored" /\ call.pmt \in Versions
          /\ call.rate = rate /\ call.against = base /\ call.pass = ok
      <3>1. base \in Versions \cup {0}
        BY DEF ActiveNow
      <3>2. call = [was EXCEPT !.at = "scored", !.rate = rate, !.against = base, !.pass = ok]
        BY <2>0, <2>2, <2>3
      <3>. QED
        BY <2>2, <3>1, <3>2 DEF Requests
    <2>5. \A b \in Versions \ late : 
             call.against = b => Served(b) /\ (call.pass => call.rate >= prompt[b].rate)
      <3>1. \A b \in Versions : b # 0
        BY DEF Versions
      <3>. QED
        BY <2>3, <2>4, <3>1 DEF Served, ActiveNow
    <2>. QED
      BY <1>0, <2>0, <2>1, <2>4, <2>5, RequestMoves DEF PromptsOK
  <1>5. ASSUME NEW c \in Callers, ActivateGate(c) PROVE VersionInv'
    <2>1. /\ caller[c].at = "gate" /\ UNCHANGED <<prompt, approval, late, overlaps>>
          /\ caller' = [caller EXCEPT ![c] =
                IF Decide(ActivationRequest(caller[c])).verdict = "ALLOW"
                THEN [caller[c] EXCEPT !.at = "retire"] ELSE NoCall]
      BY <1>0, <1>5 DEF ActivateGate, PromptsOK
    <2>2. CASE Decide(ActivationRequest(caller[c])).verdict = "ALLOW"
      <3>1. caller[c].pass
        <4>1. caller[c].pass # FALSE
          BY <2>2, EvalGate
        <4>2. caller[c].pass \in BOOLEAN
          BY <1>0 DEF PromptsOK, Requests
        <4>. QED
          BY <4>1, <4>2
      <3>2. PICK call : call = [caller[c] EXCEPT !.at = "retire"]
        OBVIOUS
      <3>3. caller' = [caller EXCEPT ![c] = call]
        BY <2>1, <2>2, <3>2
      <3>4. call \in Requests /\ call.at = "retire" /\ call.pmt \in Versions
            /\ call.pmt = caller[c].pmt
        BY <1>0, <2>1, <3>2 DEF PromptsOK, Requests
      <3>5. Passed(call.pmt)
        <4>1. Passed(caller[c].pmt)
          BY <2>1, <3>1 DEF VersionInv, ActivePassed, Leaving
        <4>. QED
          BY <3>4, <4>1
      <3>. QED
        BY <1>0, <2>1, <3>3, <3>4, <3>5, RequestMoves DEF PromptsOK
    <2>3. CASE Decide(ActivationRequest(caller[c])).verdict # "ALLOW"
      <3>1. NoCall \in Requests /\ NoCall.at = "idle"
        BY DEF NoCall, Requests, Rates
      <3>2. caller' = [caller EXCEPT ![c] = NoCall]
        BY <2>1, <2>3
      <3>. QED
        BY <1>0, <2>1, <3>1, <3>2, RequestMoves DEF PromptsOK
    <2>. QED
      BY <2>2, <2>3
  <1>6. ASSUME ControlsChange \/ UNCHANGED evoVars PROVE VersionInv'
    <2>1. UNCHANGED <<prompt, caller, late, overlaps>>
          /\ approval' \in {"pending", "granted", "none"}
      BY <1>0, <1>6 DEF ControlsChange, evoVars, PromptsOK
    <2>2. ActiveNow' = ActiveNow /\ PromptsOK'
      BY <1>0, <2>1 DEF ActiveNow, PromptsOK
    <2>3. SwitchesCounted'
      BY <2>1, <2>2, SwitchesAside
    <2>4. JudgedFairly' /\ ScoredFairly'
      BY <2>1 DEF VersionInv, JudgedFairly, ScoredFairly, Served
    <2>5. ActivePassed'
      BY <2>1, <2>2 DEF VersionInv, ActivePassed, Passed, Leaving
    <2>. QED
      BY <2>2, <2>3, <2>4, <2>5 DEF VersionInv
  <1>. QED
    BY <1>1, <1>2, <1>3, <1>4, <1>5, <1>6, WritesStep, RetiresStep, CommitsStep DEF EvoNext

\* Whatever the evaluations, activations, approvals and kills, and however they
\* interleave: a version that replaced the baseline it was judged by is no worse
\* than it, figures changed during or after an activation aside (NoRegression), and
\* more than one version is active only by the switches that overlapped (OneActive):
\* evolution.evaluate_prompt and activate_prompt.
THEOREM VersionsHold ==
    ASSUME EvolutionAssumption
    PROVE  EvoSpec => []VersionsSound
  <1>1. VersionInv => VersionsSound
    <2>. SUFFICES ASSUME VersionInv PROVE EvoTypeOK /\ NoRegression /\ OneActive
      BY DEF VersionsSound
    <2>1. EvoTypeOK
      BY DEF VersionInv, PromptsOK, PromptRows, EvoTypeOK
    <2>2. ASSUME NEW p \in ActiveNow, NEW q \in prompt[p].replaced,
                 prompt[p].against = q, {p, q} \cap late = {}
          PROVE  prompt[p].rate >= prompt[q].rate
      <3>1. p \in Versions /\ q \in Versions \ late /\ p \notin late
        BY <2>2 DEF VersionInv, PromptsOK, PromptRows, ActiveNow
      <3>2. prompt[p].decision = "promote"
        BY <3>1 DEF VersionInv, ActivePassed, Passed
      <3>. QED
        BY <2>2, <3>1, <3>2 DEF VersionInv, JudgedFairly
    <2>. QED
      BY <2>1, <2>2 DEF NoRegression, OneActive, VersionInv, SwitchesCounted
  <1>. QED
    BY <1>1, VersionsInit, VersionsNext, PTL DEF EvoSpec

-----------------------------------------------------------------------------
(* Lessons.                                                                  *)

LessonRows == [status : {"none", "provisional", "validated", "retired"}, topic : Topics \cup {""},
               support : Nat, from : SUBSET Outcomes, conf : 0..100]
CallRows == [step : {"idle", "distil", "write"}, todo : SUBSET Outcomes, out : Nat,
             topic : Topics \cup {""}, nearest : Nat]
LessonRowsOK ==
    /\ outcome \in [Outcomes -> {"none", "plain", "surprising"}]
    /\ lesson \in [Ids -> LessonRows]
    /\ entity \in [Ids -> {0, 1}]
    /\ at \in [Calls -> CallRows]
    /\ parallel \in Nat
    /\ \A c \in Calls : at[c].step = "write" =>
            at[c].out \in Outcomes /\ at[c].nearest \in Known \cup {0}

\* Lessons are numbered in the order they are written.
Numbered == \E n \in 0..MaxLessons : Known = 1..n

\* An outcome is counted once by a lesson no call confirmed twice with one.
Supported ==
    \A l \in Ids \ twice :
        /\ Cardinality(lesson[l].from) = lesson[l].support
        /\ lesson[l].status = "validated" => lesson[l].support >= 3

On(topic) == {l \in Known : lesson[l].topic = topic}

\* Each call about to write a new lesson on a topic beyond the first was counted.
CreationsCounted ==
    \A t \in Topics : Cardinality(On(t)) + Cardinality(Writing(t)) <= 1 + parallel

LessonInv == LessonRowsOK /\ Numbered /\ Supported /\ CreationsCounted

LEMMA Countable ==
    ASSUME LessonsAssumption
    PROVE  /\ IsFiniteSet(Ids) /\ IsFiniteSet(Outcomes)
           /\ \A t : /\ IsFiniteSet(On(t)) /\ Cardinality(On(t)) \in Nat
                     /\ IsFiniteSet(Writing(t)) /\ Cardinality(Writing(t)) \in Nat
  <1>1. IsFiniteSet(Ids) /\ IsFiniteSet(Outcomes)
    BY FS_Interval DEF LessonsAssumption, Ids, Outcomes
  <1>2. ASSUME NEW t PROVE IsFiniteSet(On(t)) /\ IsFiniteSet(Writing(t))
    <2>1. On(t) \subseteq Ids /\ Writing(t) \subseteq Calls
      BY DEF On, Known, Writing
    <2>. QED
      BY <2>1, <1>1, FS_Subset DEF LessonsAssumption
  <1>. QED
    BY <1>1, <1>2, FS_CardinalityType

LEMMA LessonsInit == LessonsAssumption /\ LesInit => LessonInv
  <1>. SUFFICES ASSUME LessonsAssumption, LesInit PROVE LessonInv
    OBVIOUS
  <1>1. Known = {}
    BY DEF LesInit, Known, NoLesson
  <1>2. LessonRowsOK
    <2>1. NoLesson \in LessonRows /\ Waiting \in CallRows
      BY DEF LessonRows, CallRows, NoLesson, Waiting
    <2>. QED
      BY <1>1, <2>1 DEF LesInit, LessonRowsOK, Waiting
  <1>3. Numbered
    BY <1>1 DEF Numbered, LessonsAssumption
  <1>4. Supported
    BY FS_EmptySet DEF LesInit, Supported, NoLesson
  <1>5. CreationsCounted
    <2>. SUFFICES ASSUME NEW t \in Topics
                  PROVE  Cardinality(On(t)) + Cardinality(Writing(t)) <= 1 + parallel
      BY DEF CreationsCounted
    <2>1. On(t) = {} /\ Writing(t) = {}
      BY <1>1 DEF On, Writing, LesInit, Waiting
    <2>. QED
      BY <2>1, FS_EmptySet DEF LesInit
  <1>. QED
    BY <1>2, <1>3, <1>4, <1>5 DEF LessonInv

\* A step that leaves the lessons, and who is writing one, alone.
LEMMA LessonsAside ==
    ASSUME LessonsAssumption, LessonInv, UNCHANGED <<lesson, entity, twice, parallel>>,
           outcome' \in [Outcomes -> {"none", "plain", "surprising"}],
           at' \in [Calls -> CallRows],
           \A c \in Calls : at'[c].step = "write" => at'[c] = at[c]
    PROVE  LessonInv'
  <1>1. /\ Known' = Known
        /\ \A t : On(t)' = On(t)
    BY DEF Known, On
  <1>2. LessonRowsOK' /\ Numbered' /\ Supported'
    BY <1>1 DEF LessonInv, LessonRowsOK, Numbered, Supported
  <1>3. CreationsCounted'
    <2>. SUFFICES ASSUME NEW t \in Topics
                  PROVE  Cardinality(On(t)') + Cardinality(Writing(t)') <= 1 + parallel'
      BY DEF CreationsCounted
    <2>1. Writing(t)' \subseteq Writing(t)
      BY DEF Writing
    <2>2. Cardinality(Writing(t)') <= Cardinality(Writing(t)) /\ Cardinality(Writing(t)') \in Nat
      BY <2>1, Countable, FS_Subset, FS_CardinalityType
    <2>. QED
      BY <1>1, <2>2, Countable DEF LessonInv, LessonRowsOK, CreationsCounted
  <1>. QED
    BY <1>2, <1>3 DEF LessonInv

\* The SELECT of a reinforcement: one more about to create is counted.
LEMMA LooksStep ==
    ASSUME LessonsAssumption, LessonInv,
           NEW c \in Calls, NEW o \in Outcomes, NEW topic \in Topics, NEW todo \in SUBSET Outcomes,
           at[c].step # "write", Looks(c, o, topic, todo),
           UNCHANGED <<outcome, lesson, entity, twice>>
    PROVE  LessonInv'
  <1>1. PICK l \in Ids \cup {0} :
            /\ Nearest(topic, l)
            /\ at' = [at EXCEPT ![c] = [step |-> "write", todo |-> todo, out |-> o,
                                        topic |-> topic, nearest |-> l]]
            /\ parallel' = parallel + IF l = 0 THEN Cardinality(Writing(topic)) ELSE 0
    BY DEF Looks
  <1>2. /\ Known' = Known
        /\ \A t : On(t)' = On(t)
    BY DEF Known, On
  <1>3. l \in Known \cup {0} /\ l \in Nat /\ (l = 0 => On(topic) = {})
    BY <1>1 DEF Nearest, On, Known, Ids, LessonsAssumption
  <1>4. LessonRowsOK'
    <2>1. parallel' \in Nat
      BY <1>1, Countable DEF LessonInv, LessonRowsOK
    <2>2. at' \in [Calls -> CallRows]
      <3>1. [step |-> "write", todo |-> todo, out |-> o, topic |-> topic, nearest |-> l] \in CallRows
        <4>1. o \in Nat /\ l \in Nat
          BY <1>3 DEF Outcomes, LessonsAssumption
        <4>. QED
          BY <4>1 DEF CallRows
      <3>. QED
        BY <1>1, <3>1 DEF LessonInv, LessonRowsOK
    <2>3. \A d \in Calls : at'[d].step = "write" =>
              at'[d].out \in Outcomes /\ at'[d].nearest \in Known' \cup {0}
      BY <1>1, <1>2, <1>3 DEF LessonInv, LessonRowsOK, CallRows
    <2>. QED
      BY <2>1, <2>2, <2>3 DEF LessonInv, LessonRowsOK
  <1>5. Numbered' /\ Supported'
    BY <1>2 DEF LessonInv, Numbered, Supported
  <1>6. CreationsCounted'
    <2>. SUFFICES ASSUME NEW t \in Topics
                  PROVE  Cardinality(On(t)') + Cardinality(Writing(t)') <= 1 + parallel'
      BY DEF CreationsCounted
    <2>0. /\ parallel \in Nat
          /\ Cardinality(On(t)) + Cardinality(Writing(t)) <= 1 + parallel
          /\ Cardinality(On(t)) \in Nat /\ Cardinality(Writing(t)) \in Nat
          /\ Cardinality(Writing(topic)) \in Nat /\ IsFiniteSet(Writing(t))
      BY Countable DEF LessonInv, LessonRowsOK, CreationsCounted
    <2>1. CASE l = 0 /\ t = topic
      <3>1. Writing(t)' = Writing(t) \cup {c} /\ c \notin Writing(t)
        BY <1>1, <2>1 DEF Writing, LessonInv, LessonRowsOK
      <3>2. Cardinality(Writing(t)') = Cardinality(Writing(t)) + 1
        BY <3>1, <2>0, FS_AddElement
      <3>3. On(t)' = {} /\ Cardinality(On(t)') = 0
        BY <1>2, <1>3, <2>1, FS_EmptySet
      <3>4. parallel' = parallel + Cardinality(Writing(t))
        BY <1>1, <2>1
      <3>. QED
        BY <2>0, <3>2, <3>3, <3>4
    <2>2. CASE ~(l = 0 /\ t = topic)
      <3>1. Writing(t)' = Writing(t)
        BY <1>1, <2>2 DEF Writing, LessonInv, LessonRowsOK
      <3>2. parallel' >= parallel /\ parallel' \in Nat
        BY <1>1, <2>0
      <3>. QED
        BY <1>2, <2>0, <3>1, <3>2
    <2>. QED
      BY <2>1, <2>2
  <1>. QED
    BY <1>4, <1>5, <1>6 DEF LessonInv

\* The lesson a call writes: the one it found, or the next number.
LEMMA WrittenLesson ==
    ASSUME LessonsAssumption, LessonInv, NEW c \in Calls, at[c].step = "write",
           Cardinality(Known) < MaxLessons \/ at[c].nearest # 0
    PROVE  /\ Target(c) \in Ids
           /\ at[c].nearest # 0 => Target(c) \in Known
           /\ at[c].nearest = 0 => Target(c) \notin Known /\ Known = 1..(Target(c) - 1)
  <1>1. CASE at[c].nearest # 0
    BY <1>1 DEF Target, LessonInv, LessonRowsOK, Known
  <1>2. CASE at[c].nearest = 0
    <2>1. PICK n \in 0..MaxLessons : Known = 1..n
      BY DEF LessonInv, Numbered
    <2>2. Cardinality(Known) = n
      BY <2>1, FS_Interval DEF LessonsAssumption
    <2>3. n + 1 \in Ids /\ n + 1 \notin Known /\ \A k \in 1..((n + 1) - 1) : k \in Known
      BY <1>2, <2>1, <2>2 DEF Ids, LessonsAssumption
    <2>4. \E l \in Ids : l \notin Known /\ \A k \in 1..(l - 1) : k \in Known
      BY <2>3
    <2>5. /\ Target(c) \in Ids /\ Target(c) \notin Known
          /\ \A k \in 1..(Target(c) - 1) : k \in Known
      BY <1>2, <2>4 DEF Target
    <2>6. Target(c) = n + 1
      BY <2>1, <2>5 DEF Ids, LessonsAssumption
    <2>. QED
      BY <1>2, <2>1, <2>5, <2>6
  <1>. QED
    BY <1>1, <1>2

LEMMA WriteLessonStep ==
    ASSUME LessonsAssumption, LessonInv, NEW c \in Calls, WriteLesson(c)
    PROVE  LessonInv'
  <1>1. PICK l \in Ids : l = Target(c)
    BY WrittenLesson DEF WriteLesson
  <1>2. PICK o \in Outcomes : o = at[c].out
    BY DEF WriteLesson, LessonInv, LessonRowsOK
  <1>3. PICK row : row = IF l \in Known THEN Reinforced(l, o)
                ELSE [status |-> "provisional", topic |-> at[c].topic, support |-> 1,
                      from |-> {o}, conf |-> 50]
    OBVIOUS
  <1>4. /\ at[c].step = "write"
        /\ lesson' = [lesson EXCEPT ![l] = row]
        /\ twice' = IF l \in Known /\ o \in lesson[l].from THEN twice \cup {l} ELSE twice
        /\ entity' = [entity EXCEPT ![l] = IF @ = 0 THEN 1 ELSE @]
        /\ outcome' = [outcome EXCEPT ![o] = IF @ = "none" THEN "plain" ELSE @]
        /\ at' = [at EXCEPT ![c] = IF @.todo = {} THEN Waiting ELSE [Waiting EXCEPT !.step = "distil", !.todo = @]]
        /\ parallel' = parallel
    BY <1>1, <1>2, <1>3 DEF WriteLesson
  <1>5. /\ at[c].nearest # 0 => l \in Known
        /\ at[c].nearest = 0 => l \notin Known /\ Known = 1..(l - 1)
    BY <1>1, WrittenLesson DEF WriteLesson
  <1>6. row \in LessonRows /\ row.status # "none"
    <2>1. lesson[l] \in LessonRows /\ at[c].topic \in Topics \cup {""}
      BY DEF LessonInv, LessonRowsOK, CallRows
    <2>2. CASE l \in Known
      <3>1. Confirmed(lesson[l].status, lesson[l].support) \in {"provisional", "validated", "retired"}
        BY <2>1, <2>2 DEF Confirmed, Known, LessonRows
      <3>2. PICK f \in 0..100 : f = MinOf2(100, lesson[l].conf + 10)
        <4>1. PICK g \in 0..100 : g = lesson[l].conf
          BY <2>1 DEF LessonRows
        <4>2. MinOf2(100, g + 10) \in 0..100
          BY DEF MinOf2
        <4>. QED
          BY <4>1, <4>2
      <3>4. PICK n \in Nat : n = lesson[l].support + 1
        <4>1. PICK k \in Nat : k = lesson[l].support
          BY <2>1 DEF LessonRows
        <4>. QED
          BY <4>1
      <3>3. row = [lesson[l] EXCEPT !.support = n, !.from = lesson[l].from \cup {o}, !.conf = f,
                                    !.status = Confirmed(lesson[l].status, lesson[l].support)]
        BY <1>3, <2>1, <2>2, <3>2, <3>4 DEF Reinforced, LessonRows
      <3>. QED
        BY <2>1, <3>1, <3>3 DEF LessonRows
    <2>3. CASE l \notin Known
      <3>1. row = [status |-> "provisional", topic |-> at[c].topic, support |-> 1, from |-> {o}, conf |-> 50]
        BY <1>3, <2>3
      <3>2. 1 \in Nat /\ 50 \in 0..100 /\ {o} \in SUBSET Outcomes
        OBVIOUS
      <3>. QED
        BY <2>1, <3>1, <3>2 DEF LessonRows
    <2>. QED
      BY <2>2, <2>3
  <1>7. Known' = Known \cup {l}
    BY <1>4, <1>6 DEF Known, LessonInv, LessonRowsOK
  <1>8. LessonRowsOK'
    <2>1. at' \in [Calls -> CallRows] /\ at'[c].step # "write" /\ \A d \in Calls \ {c} : at'[d] = at[d]
      BY <1>4 DEF LessonInv, LessonRowsOK, CallRows, Waiting
    <2>2. /\ outcome' \in [Outcomes -> {"none", "plain", "surprising"}]
          /\ lesson' \in [Ids -> LessonRows]
          /\ entity' \in [Ids -> {0, 1}]
          /\ parallel' \in Nat
      BY <1>4, <1>6 DEF LessonInv, LessonRowsOK
    <2>3. \A d \in Calls : at'[d].step = "write" =>
              at'[d].out \in Outcomes /\ at'[d].nearest \in Known' \cup {0}
      BY <2>1, <1>7 DEF LessonInv, LessonRowsOK
    <2>. QED
      BY <2>1, <2>2, <2>3 DEF LessonRowsOK
  <1>9. Numbered'
    <2>1. CASE l \in Known
      BY <1>7, <2>1 DEF LessonInv, Numbered
    <2>2. CASE l \notin Known
      <3>1. Known' = 1..l
        BY <1>5, <1>7, <2>2 DEF Ids, LessonsAssumption
      <3>. QED
        BY <3>1 DEF Numbered, Ids, LessonsAssumption
    <2>. QED
      BY <2>1, <2>2
  <1>10. Supported'
    <2>. SUFFICES ASSUME NEW k \in Ids \ twice'
                  PROVE  /\ Cardinality(lesson'[k].from) = lesson'[k].support
                         /\ lesson'[k].status = "validated" => lesson'[k].support >= 3
      BY DEF Supported
    <2>1. k \in Ids \ twice
      BY <1>4
    <2>2. CASE k # l
      BY <1>4, <2>1, <2>2 DEF LessonInv, Supported, LessonRowsOK
    <2>3. CASE k = l /\ l \in Known
      <3>1. o \notin lesson[l].from
        BY <1>4, <2>3
      <3>2. lesson'[k] = Reinforced(l, o)
        BY <1>3, <1>4, <2>3 DEF LessonInv, LessonRowsOK
      <3>3. lesson[l] \in LessonRows /\ lesson[l].from \subseteq Outcomes /\ lesson[l].support \in Nat
        BY DEF LessonInv, LessonRowsOK, LessonRows
      <3>4. /\ lesson'[k].from = lesson[l].from \cup {o}
            /\ lesson'[k].support = lesson[l].support + 1
            /\ lesson'[k].status = Confirmed(lesson[l].status, lesson[l].support)
        BY <3>2, <3>3 DEF Reinforced, LessonRows
      <3>5. Cardinality(lesson'[k].from) = Cardinality(lesson[l].from) + 1
        BY <3>1, <3>3, <3>4, FS_AddElement, FS_Subset, Countable
      <3>6. /\ Cardinality(lesson[l].from) = lesson[l].support
            /\ lesson[l].status = "validated" => lesson[l].support >= 3
        BY <2>1, <2>3 DEF LessonInv, Supported
      <3>. QED
        BY <3>3, <3>4, <3>5, <3>6 DEF Confirmed
    <2>4. CASE k = l /\ l \notin Known
      <3>1. /\ lesson'[k].from = {o} /\ lesson'[k].support = 1
            /\ lesson'[k].status = "provisional"
        BY <1>3, <1>4, <2>4 DEF LessonInv, LessonRowsOK
      <3>. QED
        BY <3>1, FS_Singleton
    <2>. QED
      BY <2>2, <2>3, <2>4
  <1>11. CreationsCounted'
    <2>. SUFFICES ASSUME NEW t \in Topics
                  PROVE  Cardinality(On(t)') + Cardinality(Writing(t)') <= 1 + parallel'
      BY DEF CreationsCounted
    <2>0. /\ parallel \in Nat
          /\ Cardinality(On(t)) + Cardinality(Writing(t)) <= 1 + parallel
          /\ Cardinality(On(t)) \in Nat /\ Cardinality(Writing(t)) \in Nat
          /\ IsFiniteSet(Writing(t)) /\ IsFiniteSet(On(t))
      BY Countable DEF LessonInv, LessonRowsOK, CreationsCounted
    <2>1. Writing(t)' = Writing(t) \ {c}
      BY <1>4 DEF Writing, LessonInv, LessonRowsOK, CallRows, Waiting
    <2>2. CASE l \in Known
      <3>1. row.topic = lesson[l].topic
        BY <1>3, <2>2 DEF Reinforced, LessonInv, LessonRowsOK, LessonRows
      <3>2. On(t)' = On(t)
        BY <3>1, <1>4, <1>7, <2>2 DEF On, LessonInv, LessonRowsOK, Known
      <3>3. Cardinality(Writing(t)') <= Cardinality(Writing(t)) /\ Cardinality(Writing(t)') \in Nat
        BY <2>0, <2>1, FS_Subset, FS_CardinalityType
      <3>. QED
        BY <1>4, <2>0, <3>2, <3>3
    <2>3. CASE l \notin Known
      <3>1. at[c].nearest = 0
        BY <1>5, <2>3
      <3>2. row.topic = at[c].topic
        BY <1>3, <2>3
      <3>3. l \notin On(t)
        BY <2>3 DEF On
      <3>4. CASE at[c].topic = t
        <4>1. On(t)' = On(t) \cup {l}
          BY <1>4, <1>7, <2>3, <3>2, <3>4 DEF On, LessonInv, LessonRowsOK, Known
        <4>2. c \in Writing(t)
          BY <1>4, <3>1, <3>4 DEF Writing
        <4>3. Cardinality(On(t)') = Cardinality(On(t)) + 1
          BY <2>0, <3>3, <4>1, FS_AddElement
        <4>4. Cardinality(Writing(t)') = Cardinality(Writing(t)) - 1
          BY <2>0, <2>1, <4>2, FS_RemoveElement
        <4>. QED
          BY <1>4, <2>0, <4>3, <4>4
      <3>5. CASE at[c].topic # t
        <4>1. On(t)' = On(t)
          BY <1>4, <1>7, <2>3, <3>2, <3>5 DEF On, LessonInv, LessonRowsOK, Known
        <4>2. Cardinality(Writing(t)') <= Cardinality(Writing(t)) /\ Cardinality(Writing(t)') \in Nat
          BY <2>0, <2>1, FS_Subset, FS_CardinalityType
        <4>. QED
          BY <1>4, <2>0, <4>1, <4>2
      <3>. QED
        BY <3>4, <3>5
    <2>. QED
      BY <2>2, <2>3
  <1>. QED
    BY <1>8, <1>9, <1>10, <1>11 DEF LessonInv

\* A confidence that fades stays one.
LEMMA Fades ==
    \A f \in 0..100, d \in {85, 44} : f * d \in Nat /\ (f * d) \div 100 \in 0..100
  <1>. SUFFICES ASSUME NEW f \in 0..100, NEW d \in {85, 44}
                PROVE  f * d \in Nat /\ (f * d) \div 100 \in 0..100
    OBVIOUS
  <1>1. f * d \in 0..8500
    OBVIOUS
  <1>2. \A raw \in 0..8500 : raw \div 100 \in 0..100
    OBVIOUS
  <1>. QED
    BY <1>1, <1>2

\* What is rewritten in a lesson that fades.
LEMMA FadedRow ==
    ASSUME NEW old \in LessonRows, NEW n \in 0..100
    PROVE  /\ [old EXCEPT !.conf = n] \in LessonRows
           /\ [old EXCEPT !.conf = n].topic = old.topic
           /\ [old EXCEPT !.conf = n].from = old.from
           /\ [old EXCEPT !.conf = n].support = old.support
           /\ [old EXCEPT !.conf = n].status = old.status
           /\ [old EXCEPT !.status = "retired"] \in LessonRows
           /\ [old EXCEPT !.status = "retired"].topic = old.topic
           /\ [old EXCEPT !.status = "retired"].from = old.from
           /\ [old EXCEPT !.status = "retired"].support = old.support
           /\ [old EXCEPT !.status = "retired"].status = "retired"
  BY DEF LessonRows

\* decay_lesson_confidence never validates, and takes no lesson off its topic.
LEMMA DecayStep ==
    ASSUME LessonsAssumption, LessonInv, NEW w \in Gaps, Decay(w)
    PROVE  LessonInv'
  <1>1. \A l \in Ids :
            /\ Decayed(l, w) \in LessonRows
            /\ Decayed(l, w).topic = lesson[l].topic /\ Decayed(l, w).from = lesson[l].from
            /\ Decayed(l, w).support = lesson[l].support
            /\ Decayed(l, w).status = "none" <=> lesson[l].status = "none"
            /\ Decayed(l, w).status = "validated" => lesson[l].status = "validated"
    <2>. SUFFICES ASSUME NEW l \in Ids
                  PROVE  /\ Decayed(l, w) \in LessonRows
                         /\ Decayed(l, w).topic = lesson[l].topic
                         /\ Decayed(l, w).from = lesson[l].from
                         /\ Decayed(l, w).support = lesson[l].support
                         /\ Decayed(l, w).status = "none" <=> lesson[l].status = "none"
                         /\ Decayed(l, w).status = "validated" => lesson[l].status = "validated"
      OBVIOUS
    <2>1. lesson[l] \in LessonRows
      BY DEF LessonInv, LessonRowsOK
    <2>2. PICK f \in 0..100 : f = lesson[l].conf
      BY <2>1 DEF LessonRows
    <2>3. PICK d \in {85, 44} : d = DecayFactor[w]
      BY DEF DecayFactor, LessonsAssumption
    <2>4. PICK raw \in Nat : raw = f * d
      BY Fades
    <2>5. PICK cent \in 0..100 : cent = raw \div 100
      BY <2>4, Fades
    <2>6. lesson[l].conf * DecayFactor[w] = raw /\ (lesson[l].conf * DecayFactor[w]) \div 100 = cent
      BY <2>2, <2>3, <2>4, <2>5
    <2>7. PICK n \in 0..100 : n = IF cent < Floor THEN Floor ELSE cent
      BY DEF Floor
    <2>8. PICK old \in LessonRows : old = lesson[l]
      BY <2>1
    <2>12. Decayed(l, w) = IF old.status \notin Retrievable THEN old
               ELSE IF raw < 100 * RetireBelow THEN [old EXCEPT !.status = "retired"]
               ELSE [old EXCEPT !.conf = IF cent < Floor THEN Floor ELSE cent]
      BY <2>6, <2>8 DEF Decayed
    <2>9. CASE old.status \notin Retrievable
      <3>1. Decayed(l, w) = old
        BY <2>8, <2>9 DEF Decayed
      <3>. QED
        BY <2>8, <3>1
    <2>10. CASE old.status \in Retrievable /\ raw < 100 * RetireBelow
      <3>1. Decayed(l, w) = [old EXCEPT !.status = "retired"]
        BY <2>10, <2>12
      <3>4. [old EXCEPT !.status = "retired"] \in LessonRows
        BY DEF LessonRows
      <3>2. PICK new \in LessonRows : new = [old EXCEPT !.status = "retired"]
        BY <3>4
      <3>3. /\ new.topic = old.topic /\ new.from = old.from
            /\ new.support = old.support /\ new.status = "retired"
        BY <3>2, FadedRow
      <3>. QED
        BY <2>8, <2>10, <3>1, <3>2, <3>3 DEF Retrievable
    <2>11. CASE old.status \in Retrievable /\ ~(raw < 100 * RetireBelow)
      <3>1. Decayed(l, w) = [old EXCEPT !.conf = n]
        BY <2>7, <2>11, <2>12
      <3>4. [old EXCEPT !.conf = n] \in LessonRows
        BY DEF LessonRows
      <3>2. PICK new \in LessonRows : new = [old EXCEPT !.conf = n]
        BY <3>4
      <3>3. /\ new.topic = old.topic /\ new.from = old.from
            /\ new.support = old.support /\ new.status = old.status
        BY <3>2, FadedRow
      <3>. QED
        BY <2>8, <3>1, <3>2, <3>3
    <2>. QED
      BY <2>9, <2>10, <2>11
  <1>2. /\ lesson' = [l \in Ids |-> Decayed(l, w)]
        /\ UNCHANGED <<outcome, entity, at, twice, parallel>>
    BY DEF Decay
  <1>3. Known' = Known
    BY <1>1, <1>2 DEF Known
  <1>4. \A t : On(t)' = On(t) /\ Writing(t)' = Writing(t)
    BY <1>1, <1>2, <1>3 DEF On, Writing, Known
  <1>5. LessonRowsOK'
    BY <1>1, <1>2, <1>3 DEF LessonInv, LessonRowsOK
  <1>6. Numbered' /\ CreationsCounted'
    BY <1>2, <1>3, <1>4 DEF LessonInv, Numbered, CreationsCounted
  <1>7. Supported'
    BY <1>1, <1>2 DEF LessonInv, Supported
  <1>. QED
    BY <1>5, <1>6, <1>7 DEF LessonInv

LEMMA LessonsStep ==
    ASSUME LessonsAssumption, LessonInv, [LesNext]_lesVars
    PROVE  LessonInv'
  <1>1. ASSUME NEW o \in Outcomes, NEW k \in {"plain", "surprising"}, Review(o, k)
        PROVE  LessonInv'
    <2>1. /\ outcome' \in [Outcomes -> {"none", "plain", "surprising"}]
          /\ at' \in [Calls -> CallRows]
          /\ UNCHANGED <<lesson, entity, at, twice, parallel>>
      BY <1>1 DEF Review, LessonInv, LessonRowsOK
    <2>. QED
      BY <2>1, LessonsAside
  <1>2. ASSUME NEW c \in Calls, NEW o \in Outcomes, NEW t \in Topics, ReviewWithLesson(c, o, t)
        PROVE  LessonInv'
    BY <1>2, LooksStep DEF ReviewWithLesson
  <1>3. ASSUME NEW c \in Calls, NEW o \in Outcomes, NEW t \in Topics, DistillOne(c, o, t)
        PROVE  LessonInv'
    <2>1. at[c].todo \ {o} \in SUBSET Outcomes
      BY DEF LessonInv, LessonRowsOK, CallRows
    <2>. QED
      BY <1>3, <2>1, LooksStep DEF DistillOne
  <1>4. ASSUME NEW c \in Calls, DistillStarts(c) PROVE LessonInv'
    <2>1. PICK todo \in SUBSET Outcomes :
              at' = [at EXCEPT ![c] = [Waiting EXCEPT !.step = "distil", !.todo = todo]]
      BY <1>4 DEF DistillStarts
    <2>2. /\ at' \in [Calls -> CallRows]
          /\ \A d \in Calls : at'[d].step = "write" => at'[d] = at[d]
      BY <2>1 DEF LessonInv, LessonRowsOK, CallRows, Waiting
    <2>. QED
      BY <1>4, <2>2, LessonsAside DEF DistillStarts, LessonInv, LessonRowsOK
  <1>5. CASE UNCHANGED lesVars
    BY <1>5, LessonsAside DEF lesVars, LessonInv, LessonRowsOK
  <1>. QED
    BY <1>1, <1>2, <1>3, <1>4, <1>5, WriteLessonStep, DecayStep DEF LesNext

\* A validated lesson rests on three different outcomes unless one outcome confirmed
\* it twice, and lessons that say the same come only from creations that overlapped,
\* for any number of calls, topics, outcomes and lessons
\* (decision_loop.distill_or_reinforce_lesson, decay_lesson_confidence).
THEOREM LessonsHold ==
    ASSUME LessonsAssumption
    PROVE  LesSpec => []LessonsSound
  <1>1. LesInit => LessonInv
    BY LessonsInit
  <1>2. LessonInv /\ [LesNext]_lesVars => LessonInv'
    BY LessonsStep
  <1>3. LessonInv => LessonsSound
    <2>. SUFFICES ASSUME LessonInv PROVE LesTypeOK /\ ValidatedByThree /\ NoCloneLessons
      BY DEF LessonsSound
    <2>1. LesTypeOK
      BY DEF LessonInv, LessonRowsOK, LessonRows, LesTypeOK
    <2>2. ValidatedByThree
      BY DEF LessonInv, Supported, ValidatedByThree
    <2>3. NoCloneLessons
      <3>. SUFFICES ASSUME NEW t \in Topics PROVE Cardinality(On(t)) <= 1 + parallel
        BY DEF NoCloneLessons, On
      <3>. QED
        BY Countable DEF LessonInv, LessonRowsOK, CreationsCounted
    <2>. QED
      BY <2>1, <2>2, <2>3
  <1>. QED
    BY <1>1, <1>2, <1>3, PTL DEF LesSpec

-----------------------------------------------------------------------------
(* Proposals.                                                                *)

Statuses == Open \cup {"recorded", "closed", "accepted", "rejected"}
ProposalRows == [title : Headings, status : Statuses, from : Nat]
Opps == DOMAIN rows["opportunity"]
ScanStates == [table : Tables \cup {""}, seen : SUBSET Headings, hidden : SUBSET Headings, rows : Nat]
SweepStates(opps) == [todo : SUBSET opps, opp : opps \cup {0}]

ProposalRowsOK ==
    /\ rows \in [Tables -> Seq(ProposalRows)] /\ Opps \subseteq 1..MaxRows
    /\ \A k \in Tables : \A i \in DOMAIN rows[k] : rows[k][i].from \in Opps \cup {0}
    /\ scan \in [Scanners -> ScanStates] /\ sweep \in [Sweepers -> SweepStates(Opps)]
    /\ repeats \in [Tables -> [Headings -> Nat]] /\ lapses \in [1..MaxRows -> Nat]

\* A scan whose table nobody else added to has every open title before it, or beyond
\* its list.
SeenAll ==
    \A s \in Scanners : scan[s].table # "" =>
        /\ scan[s].rows <= Len(rows[scan[s].table])
        /\ scan[s].rows = Len(rows[scan[s].table]) =>
                OpenTitles(scan[s].table) \subseteq scan[s].seen \cup scan[s].hidden

Under(k, t) == {i \in DOMAIN rows[k] : rows[k][i].title = t /\ IsOpen(k, i)}
RepeatsCounted ==
    \A k \in {"opportunity", "decision"}, t \in Headings :
        Cardinality(Under(k, t)) <= 1 + repeats[k][t]

\* The goals an opportunity became and the sweeps about to make one of it are no
\* more than its lapses, and one: none if it is open and in nobody's hands.
Children(o) == {g \in DOMAIN rows["goal"] : rows["goal"][g].from = o}
Takers(o) == {w \in Sweepers : o \in sweep[w].todo}
Spare(o) == IsOpenOpp(o) /\ \A w \in Sweepers : ~Held(o, w)
Room(c, w, l, spare) == c + w <= l + IF spare THEN 0 ELSE 1
PromotionOf(o) == Room(Cardinality(Children(o)), Cardinality(Takers(o)), lapses[o], Spare(o))
PromotionInv == \A o \in Opps : PromotionOf(o)

ProposalInv == ProposalRowsOK /\ SeenAll /\ RepeatsCounted /\ PromotionInv

LEMMA Places ==
    ASSUME NEW S, NEW q \in Seq(S)
    PROVE  Len(q) \in Nat /\ DOMAIN q = 1..Len(q) /\ \A i \in DOMAIN q : q[i] \in S
  OBVIOUS

LEMMA UnderFinite ==
    ASSUME ProposalRowsOK, NEW k \in Tables, NEW t
    PROVE  IsFiniteSet(Under(k, t)) /\ Cardinality(Under(k, t)) \in Nat
  <1>1. rows[k] \in Seq(ProposalRows)
    BY DEF ProposalRowsOK
  <1>2. Under(k, t) \subseteq 1..Len(rows[k]) /\ Len(rows[k]) \in Int
    BY <1>1, Places DEF Under
  <1>3. IsFiniteSet(1..Len(rows[k]))
    BY <1>2, FS_Interval
  <1>. QED
    BY <1>2, <1>3, FS_Subset, FS_CardinalityType

LEMMA OneMore ==
    ASSUME NEW S, NEW x, IsFiniteSet(S)
    PROVE  /\ IsFiniteSet(S \cup {x}) /\ Cardinality(S \cup {x}) \in Nat
           /\ Cardinality(S \cup {x}) <= Cardinality(S) + 1
  <1>1. Cardinality(S) \in Nat
    BY FS_CardinalityType
  <1>2. IsFiniteSet(S \cup {x})
    BY FS_AddElement
  <1>3. Cardinality(S \cup {x}) = IF x \in S THEN Cardinality(S) ELSE Cardinality(S) + 1
    BY FS_AddElement
  <1>. QED
    BY <1>1, <1>2, <1>3

\* What the counts of an opportunity are.
LEMMA PromotionFacts ==
    ASSUME ProposalsAssumption, ProposalRowsOK, NEW o \in Opps
    PROVE  /\ IsFiniteSet(Children(o)) /\ Cardinality(Children(o)) \in Nat
           /\ IsFiniteSet(Takers(o)) /\ Cardinality(Takers(o)) \in Nat
           /\ lapses[o] \in Nat /\ Spare(o) \in BOOLEAN /\ o \in Nat \ {0} /\ MaxRows \in Nat
           /\ rows["opportunity"] \in Seq(ProposalRows) /\ rows["goal"] \in Seq(ProposalRows)
  <1>1. rows["goal"] \in Seq(ProposalRows) /\ rows["opportunity"] \in Seq(ProposalRows)
    BY DEF ProposalRowsOK, Tables
  <1>2. PICK n \in Nat : n = Len(rows["goal"]) /\ DOMAIN rows["goal"] = 1..n
    BY <1>1, Places
  <1>3. IsFiniteSet(1..n) /\ Children(o) \subseteq 1..n
    BY <1>2, FS_Interval DEF Children
  <1>4. IsFiniteSet(Children(o)) /\ IsFiniteSet(Takers(o))
    BY <1>3, FS_Subset DEF Takers, ProposalsAssumption
  <1>5. MaxRows \in Nat
    BY DEF ProposalsAssumption
  <1>6. o \in 1..MaxRows /\ lapses[o] \in Nat
    BY DEF ProposalRowsOK
  <1>7. o \in Nat \ {0}
    BY <1>5, <1>6
  <1>. QED
    BY <1>1, <1>4, <1>5, <1>6, <1>7, FS_CardinalityType DEF Spare

LEMMA ProposalsInit == PrInit => ProposalInv
  <1>. SUFFICES ASSUME PrInit PROVE ProposalInv
    OBVIOUS
  <1>1. /\ \A k \in Tables : rows[k] = <<>>
        /\ rows["opportunity"] = <<>> /\ rows["goal"] = <<>>
        /\ rows \in [Tables -> Seq(ProposalRows)]
    BY DEF PrInit, Tables
  <1>0. Opps = {} /\ \A k \in Tables : DOMAIN rows[k] = {}
    BY <1>1 DEF Opps
  <1>2. ProposalRowsOK
    <2>1. scan \in [Scanners -> ScanStates]
      BY DEF PrInit, NoScan, ScanStates
    <2>2. sweep \in [Sweepers -> SweepStates(Opps)]
      BY DEF PrInit, NoSweep, SweepStates
    <2>3. repeats \in [Tables -> [Headings -> Nat]] /\ lapses \in [1..MaxRows -> Nat]
      BY DEF PrInit
    <2>. QED
      BY <1>0, <1>1, <2>1, <2>2, <2>3 DEF ProposalRowsOK
  <1>3. SeenAll
    BY DEF PrInit, SeenAll, NoScan
  <1>4. RepeatsCounted
    <2>. SUFFICES ASSUME NEW k \in {"opportunity", "decision"}, NEW t \in Headings
                  PROVE  Cardinality(Under(k, t)) <= 1 + repeats[k][t]
      BY DEF RepeatsCounted
    <2>1. Under(k, t) = {} /\ repeats[k][t] = 0
      BY <1>1 DEF Under, Tables, PrInit
    <2>. QED
      BY <2>1, FS_EmptySet
  <1>5. PromotionInv
    BY <1>0 DEF PromotionInv
  <1>. QED
    BY <1>2, <1>3, <1>4, <1>5 DEF ProposalInv

\* A row added: the others stay where they are.
LEMMA AddsRow ==
    ASSUME ProposalRowsOK, NEW k \in Tables, NEW title \in Headings,
           NEW from \in Nat, Adds(k, title, from)
    PROVE  /\ rows' \in [Tables -> Seq(ProposalRows)]
           /\ Len(rows'[k]) = Len(rows[k]) + 1
           /\ \A i \in DOMAIN rows[k] : rows'[k][i] = rows[k][i]
           /\ rows'[k][Len(rows[k]) + 1].title = title
           /\ rows'[k][Len(rows[k]) + 1].from = from
           /\ \A j \in Tables \ {k} : rows'[j] = rows[j]
  <1>1. PICK status \in Statuses :
            rows' = [rows EXCEPT ![k] = Append(rows[k], Row(title, status, from))]
    BY DEF Adds, Statuses, Open, Tables, ProposalRowsOK
  <1>2. rows[k] \in Seq(ProposalRows) /\ rows["opportunity"] \in Seq(ProposalRows)
    BY DEF ProposalRowsOK, Tables
  <1>4. PICK row \in ProposalRows : row = Row(title, status, from)
    BY DEF ProposalRows, Row
  <1>5. PICK q \in Seq(ProposalRows) : q = rows[k]
    BY <1>2
  <1>6. /\ Append(q, row) \in Seq(ProposalRows) /\ Len(Append(q, row)) = Len(q) + 1
        /\ \A i \in DOMAIN q : Append(q, row)[i] = q[i]
        /\ Append(q, row)[Len(q) + 1] = row
    OBVIOUS
  <1>7. rows' = [rows EXCEPT ![k] = Append(q, row)] /\ rows \in [Tables -> Seq(ProposalRows)]
    BY <1>1, <1>4, <1>5 DEF ProposalRowsOK
  <1>8. rows'[k] = Append(q, row) /\ \A j \in Tables \ {k} : rows'[j] = rows[j]
    BY <1>7
  <1>9. rows' \in [Tables -> Seq(ProposalRows)]
    BY <1>6, <1>7
  <1>10. row.title = title /\ row.from = from
    BY <1>4 DEF Row
  <1>. QED
    BY <1>5, <1>6, <1>8, <1>9, <1>10

LEMMA Level == \A m \in Nat : m <= m
  OBVIOUS

LEMMA Wider ==
    /\ \A n, m \in Nat : n <= m => 1..n \subseteq 1..m /\ 0..n \subseteq 0..m
    /\ \A n \in Nat : \A x \in 0..n : x \in Nat
    /\ \A n \in Nat : (1..n) \cup {0} = 0..n /\ 1..(n + 1) = (1..n) \cup {n + 1}
  OBVIOUS

LEMMA Behind ==
    ASSUME NEW n \in Nat, NEW m \in Nat, n <= m
    PROVE  /\ n <= m + 1 /\ n # m + 1
           /\ n + 1 <= m + 1 /\ (n + 1 = m + 1 => n = m)
  OBVIOUS

\* The history of titles, of a row added.
RepeatsGrow ==
    /\ repeats' \in [Tables -> [Headings -> Nat]]
    /\ \A j \in Tables, t \in Headings : repeats'[j][t] >= repeats[j][t]

LEMMA RepeatsGrows ==
    ASSUME ProposalRowsOK, NEW k \in Tables, NEW title \in Headings, NEW unknown,
           Repeats(k, title, unknown)
    PROVE  /\ RepeatsGrow
           /\ unknown => title \notin OpenTitles(k) \/ repeats'[k][title] = repeats[k][title] + 1
  <1>1. repeats \in [Tables -> [Headings -> Nat]] /\ repeats[k][title] \in Nat
    BY DEF ProposalRowsOK
  <1>2. PICK n \in Nat, m \in Nat : /\ n = repeats[k][title] /\ m = n + 1
    BY <1>1
  <1>3. m >= n /\ \A i \in Nat : i >= i
    BY <1>2
  <1>4. \A j \in Tables, t \in Headings : repeats[j][t] \in Nat
    BY <1>1
  <1>5. CASE unknown /\ title \in OpenTitles(k)
    <2>1. repeats' = [repeats EXCEPT ![k][title] = m]
      BY <1>1, <1>2, <1>5 DEF Repeats
    <2>. QED
      BY <1>1, <1>2, <1>3, <1>4, <2>1 DEF RepeatsGrow
  <1>6. CASE ~(unknown /\ title \in OpenTitles(k))
    <2>1. repeats' = repeats
      BY <1>1, <1>6 DEF Repeats
    <2>. QED
      BY <1>1, <1>3, <1>4, <1>6, <2>1 DEF RepeatsGrow
  <1>. QED
    BY <1>5, <1>6

LEMMA RepeatsSame == ProposalRowsOK /\ UNCHANGED repeats => RepeatsGrow
  <1>. SUFFICES ASSUME ProposalRowsOK, UNCHANGED repeats PROVE RepeatsGrow
    OBVIOUS
  <1>1. repeats \in [Tables -> [Headings -> Nat]] /\ \A n \in Nat : n >= n
    BY DEF ProposalRowsOK
  <1>. QED
    BY <1>1 DEF RepeatsGrow

\* The titles: what a row added changes.
LEMMA TitlesAdded ==
    ASSUME ProposalInv, NEW k \in Tables, NEW title \in Headings,
           NEW from \in Nat, Adds(k, title, from),
           RepeatsGrow,
           k = "goal" \/ title \notin OpenTitles(k) \/ repeats'[k][title] = repeats[k][title] + 1,
           \A s \in Scanners :
              \/ scan'[s] = scan[s]
              \/ /\ scan[s].table = k /\ scan'[s].table = k
                 /\ scan'[s].seen = scan[s].seen \cup {title} /\ scan'[s].hidden = scan[s].hidden
                 /\ scan'[s].rows = scan[s].rows + 1
    PROVE  SeenAll' /\ RepeatsCounted'
  <1>0. ProposalRowsOK
    BY DEF ProposalInv
  <1>1. /\ rows' \in [Tables -> Seq(ProposalRows)]
        /\ Len(rows'[k]) = Len(rows[k]) + 1
        /\ \A i \in DOMAIN rows[k] : rows'[k][i] = rows[k][i]
        /\ rows'[k][Len(rows[k]) + 1].title = title
        /\ \A j \in Tables \ {k} : rows'[j] = rows[j]
    BY <1>0, AddsRow
  <1>2. \A j \in Tables : Len(rows[j]) \in Nat /\ DOMAIN rows[j] = 1..Len(rows[j])
    <2>1. \A j \in Tables : rows[j] \in Seq(ProposalRows)
      BY <1>0 DEF ProposalRowsOK
    <2>. QED
      BY <2>1, Places
  <1>3. DOMAIN rows'[k] = DOMAIN rows[k] \cup {Len(rows[k]) + 1}
    <2>1. DOMAIN rows'[k] = 1..Len(rows'[k])
      BY <1>1, Places
    <2>. QED
      BY <1>1, <1>2, <2>1
  <1>4. \A i \in DOMAIN rows[k] : IsOpen(k, i)' <=> IsOpen(k, i)
    BY <1>1 DEF IsOpen
  <1>5. \A j \in Tables : j = k => OpenTitles(j)' \subseteq OpenTitles(j) \cup {title}
    <2>1. OpenTitles(k)' \subseteq OpenTitles(k) \cup {title}
      BY <1>1, <1>3, <1>4 DEF OpenTitles
    <2>. QED
      BY <2>1
  <1>6. \A j \in Tables \ {k} : OpenTitles(j)' = OpenTitles(j)
    BY <1>1 DEF OpenTitles, IsOpen
  <1>7. SeenAll'
    <2>. SUFFICES ASSUME NEW s \in Scanners, NEW j, NEW n, NEW m,
                         j = scan'[s].table, j # "", n = scan'[s].rows, m = Len(rows'[j])
                  PROVE  n <= m /\ (n = m => OpenTitles(j)' \subseteq scan'[s].seen \cup scan'[s].hidden)
      BY DEF SeenAll
    <2>1. j = scan[s].table /\ j \in Tables
      BY <1>0 DEF ProposalRowsOK, ScanStates
    <2>2. PICK n0 \in Nat : n0 = scan[s].rows
      BY <1>0 DEF ProposalRowsOK, ScanStates
    <2>3. PICK m0 \in Nat : m0 = Len(rows[j])
      BY <1>2, <2>1
    <2>4. n0 <= m0 /\ (n0 = m0 => OpenTitles(j) \subseteq scan[s].seen \cup scan[s].hidden)
      BY <2>1, <2>2, <2>3 DEF ProposalInv, SeenAll
    <2>5. CASE j # k
      <3>1. scan'[s] = scan[s] /\ rows'[j] = rows[j] /\ OpenTitles(j)' = OpenTitles(j)
        BY <1>1, <1>6, <2>1, <2>5
      <3>. QED
        BY <2>2, <2>3, <2>4, <3>1
    <2>6. CASE j = k /\ scan'[s] = scan[s]
      <3>1. m = m0 + 1
        BY <1>1, <2>3, <2>6
      <3>2. n = n0
        BY <2>2, <2>6
      <3>3. n0 <= m0 + 1 /\ n0 # m0 + 1
        BY <2>4, Behind
      <3>. QED
        BY <3>1, <3>2, <3>3, Zenon
    <2>7. CASE j = k /\ scan'[s] # scan[s]
      <3>1. /\ scan'[s].seen = scan[s].seen \cup {title} /\ scan'[s].hidden = scan[s].hidden
            /\ n = n0 + 1
        BY <2>2, <2>7
      <3>2. m = m0 + 1
        BY <1>1, <2>3, <2>7
      <3>3. OpenTitles(j)' \subseteq OpenTitles(j) \cup {title}
        BY <1>5, <2>1, <2>7
      <3>4. n <= m /\ (n = m => n0 = m0)
        <4>1. n0 + 1 <= m0 + 1 /\ (n0 + 1 = m0 + 1 => n0 = m0)
          BY <2>4, Behind
        <4>. QED
          BY <3>1, <3>2, <4>1, Zenon
      <3>. QED
        BY <2>4, <3>1, <3>3, <3>4
    <2>. QED
      BY <2>5, <2>6, <2>7
  <1>8. RepeatsCounted'
    <2>. SUFFICES ASSUME NEW j \in {"opportunity", "decision"}, NEW t \in Headings
                  PROVE  Cardinality(Under(j, t)') <= 1 + repeats'[j][t]
      BY DEF RepeatsCounted
    <2>0. j \in Tables
      BY DEF Tables
    <2>1. PICK m \in Nat : m = repeats[j][t]
      BY <1>0, <2>0 DEF ProposalRowsOK
    <2>2. PICK m1 \in Nat : m1 = repeats'[j][t] /\ m1 >= m
      BY <2>0, <2>1 DEF RepeatsGrow
    <2>3. /\ IsFiniteSet(Under(j, t)) /\ Cardinality(Under(j, t)) \in Nat
          /\ Cardinality(Under(j, t)) <= 1 + m
      BY <1>0, <2>0, <2>1, UnderFinite DEF ProposalInv, RepeatsCounted
    <2>4. CASE j # k
      <3>1. Under(j, t)' = Under(j, t)
        BY <1>1, <2>0, <2>4 DEF Under, IsOpen
      <3>. QED
        BY <2>2, <2>3, <3>1
    <2>5. CASE j = k /\ t # title
      <3>1. Under(j, t)' = Under(j, t)
        BY <1>1, <1>3, <1>4, <2>5 DEF Under
      <3>. QED
        BY <2>2, <2>3, <3>1
    <2>6. CASE j = k /\ t = title
      <3>1. PICK new : new = Len(rows[k]) + 1
        OBVIOUS
      <3>2. Under(j, t)' \subseteq Under(j, t) \cup {new}
        BY <1>1, <1>3, <1>4, <2>6, <3>1 DEF Under
      <3>3. /\ IsFiniteSet(Under(j, t) \cup {new})
            /\ Cardinality(Under(j, t) \cup {new}) <= Cardinality(Under(j, t)) + 1
            /\ Cardinality(Under(j, t) \cup {new}) \in Nat
        BY <2>3, OneMore
      <3>4. Cardinality(Under(j, t)') <= Cardinality(Under(j, t)) + 1 /\ Cardinality(Under(j, t)') \in Nat
        BY <2>3, <3>2, <3>3, FS_Subset, FS_CardinalityType
      <3>5. CASE m1 = m + 1
        BY <2>2, <2>3, <3>4, <3>5
      <3>6. CASE title \notin OpenTitles(k)
        <4>1. Under(j, t) = {}
          BY <2>6, <3>6 DEF Under, OpenTitles
        <4>2. Cardinality(Under(j, t)) = 0
          BY <4>1, FS_EmptySet
        <4>. QED
          BY <2>2, <3>4, <4>2
      <3>. QED
        BY <2>1, <2>2, <2>6, <3>5, <3>6
    <2>. QED
      BY <2>4, <2>5, <2>6
  <1>. QED
    BY <1>7, <1>8

\* A step that changes rows in place, if at all, and opens none again.
RowsStay ==
    /\ rows' \in [Tables -> Seq(ProposalRows)]
    /\ \A k \in Tables :
        /\ Len(rows'[k]) = Len(rows[k])
        /\ \A i \in DOMAIN rows[k] : /\ rows'[k][i].title = rows[k][i].title
                                     /\ rows'[k][i].from = rows[k][i].from
                                     /\ IsOpen(k, i)' => IsOpen(k, i)

\* The scans of a step: as they were, over, or begun with what is open now.
ScansLook ==
    \A s \in Scanners :
        \/ scan'[s] = scan[s] \/ scan'[s].table = ""
        \/ \E k \in Tables : /\ scan'[s].table = k
                              /\ OpenTitles(k) \subseteq scan'[s].seen \cup scan'[s].hidden
                              /\ scan'[s].rows = Len(rows[k])

LEMMA SamePlaces ==
    ASSUME ProposalRowsOK, RowsStay
    PROVE  \A j \in Tables : /\ Len(rows[j]) \in Nat /\ Len(rows'[j]) = Len(rows[j])
                             /\ DOMAIN rows[j] = 1..Len(rows[j]) /\ DOMAIN rows'[j] = DOMAIN rows[j]
  <1>1. \A j \in Tables : rows[j] \in Seq(ProposalRows) /\ rows'[j] \in Seq(ProposalRows)
    BY DEF ProposalRowsOK, RowsStay
  <1>. QED
    BY <1>1, Places DEF RowsStay

\* The titles, when rows stay.
LEMMA TitlesKept ==
    ASSUME ProposalInv, RowsStay, ScansLook, UNCHANGED repeats
    PROVE  SeenAll' /\ RepeatsCounted'
  <1>0. ProposalRowsOK
    BY DEF ProposalInv
  <1>1. \A j \in Tables : Len(rows[j]) \in Nat /\ DOMAIN rows'[j] = DOMAIN rows[j]
    BY <1>0, SamePlaces
  <1>2. \A j \in Tables : OpenTitles(j)' \subseteq OpenTitles(j)
    BY <1>1 DEF OpenTitles, RowsStay
  <1>3. SeenAll'
    <2>. SUFFICES ASSUME NEW s \in Scanners, NEW j, NEW n, NEW m,
                         j = scan'[s].table, j # "", n = scan'[s].rows, m = Len(rows'[j])
                  PROVE  n <= m /\ (n = m => OpenTitles(j)' \subseteq scan'[s].seen \cup scan'[s].hidden)
      BY DEF SeenAll
    <2>1. CASE scan'[s] = scan[s]
      <3>1. j \in Tables /\ m = Len(rows[j]) /\ OpenTitles(j)' \subseteq OpenTitles(j)
        BY <1>0, <1>2, <2>1 DEF ProposalRowsOK, ScanStates, RowsStay
      <3>2. n <= m /\ (n = m => OpenTitles(j) \subseteq scan[s].seen \cup scan[s].hidden)
        BY <2>1, <3>1 DEF ProposalInv, SeenAll
      <3>. QED
        BY <2>1, <3>1, <3>2
    <2>2. CASE scan'[s] # scan[s]
      <3>1. PICK k \in Tables :
                /\ scan'[s].table = k /\ scan'[s].rows = Len(rows[k])
                /\ OpenTitles(k) \subseteq scan'[s].seen \cup scan'[s].hidden
        BY <2>2 DEF ScansLook
      <3>2. j = k
        BY <3>1, Zenon
      <3>3. OpenTitles(j) \subseteq scan'[s].seen \cup scan'[s].hidden /\ n = Len(rows[j])
        BY <3>1, <3>2, Zenon
      <3>4. m = Len(rows[j]) /\ OpenTitles(j)' \subseteq OpenTitles(j)
        BY <1>2, <3>1, <3>2, Zenon DEF RowsStay
      <3>5. m \in Nat
        BY <1>1, <3>1, <3>2, <3>4
      <3>6. n = m /\ m <= m
        BY <3>3, <3>4, <3>5, Level, Zenon
      <3>. QED
        BY <3>3, <3>4, <3>6
    <2>. QED
      BY <2>1, <2>2
  <1>4. RepeatsCounted'
    <2>. SUFFICES ASSUME NEW j \in {"opportunity", "decision"}, NEW t \in Headings
                  PROVE  Cardinality(Under(j, t)') <= 1 + repeats'[j][t]
      BY DEF RepeatsCounted
    <2>0. j \in Tables
      BY DEF Tables
    <2>1. PICK m \in Nat : m = repeats[j][t]
      BY <1>0, <2>0 DEF ProposalRowsOK
    <2>2. /\ IsFiniteSet(Under(j, t)) /\ Cardinality(Under(j, t)) \in Nat
          /\ Cardinality(Under(j, t)) <= 1 + m
      BY <1>0, <2>0, <2>1, UnderFinite DEF ProposalInv, RepeatsCounted
    <2>3. Under(j, t)' \subseteq Under(j, t)
      BY <1>1, <2>0 DEF Under, RowsStay
    <2>4. Cardinality(Under(j, t)') <= Cardinality(Under(j, t)) /\ Cardinality(Under(j, t)') \in Nat
      BY <2>2, <2>3, FS_Subset, FS_CardinalityType
    <2>5. repeats'[j][t] = m
      BY <2>1
    <2>6. PICK x \in Nat, y \in Nat : x = Cardinality(Under(j, t)') /\ y = Cardinality(Under(j, t))
      BY <2>2, <2>4
    <2>7. x <= y /\ y <= 1 + m
      BY <2>2, <2>4, <2>6
    <2>8. x <= 1 + m
      BY <2>7
    <2>. QED
      BY <2>5, <2>6, <2>8
  <1>. QED
    BY <1>3, <1>4


LEMMA Replaced ==
    ASSUME NEW S, NEW q \in Seq(S), NEW i \in DOMAIN q, NEW e \in S
    PROVE  /\ [q EXCEPT ![i] = e] \in Seq(S)
           /\ Len([q EXCEPT ![i] = e]) = Len(q)
           /\ \A j \in DOMAIN q : [q EXCEPT ![i] = e][j] = IF j = i THEN e ELSE q[j]
  OBVIOUS

\* A row that is closed or resolved, in its place.
Ends(k, o, status) ==
    rows' = [rows EXCEPT ![k] = [rows[k] EXCEPT ![o] = [rows[k][o] EXCEPT !.status = status]]]

LEMMA RowEnds ==
    ASSUME ProposalRowsOK, NEW k \in {"opportunity", "goal"}, NEW o \in DOMAIN rows[k],
           NEW status \in Statuses \ Open, Ends(k, o, status)
    PROVE  /\ RowsStay
           /\ rows'[k][o].status = status
           /\ \A i \in DOMAIN rows[k] \ {o} : rows'[k][i] = rows[k][i]
           /\ \A j \in Tables \ {k} : rows'[j] = rows[j]
  <1>0. k \in Tables /\ rows \in [Tables -> Seq(ProposalRows)]
    BY DEF Tables, ProposalRowsOK
  <1>1. PICK q \in Seq(ProposalRows) : q = rows[k]
    BY <1>0
  <1>2. o \in DOMAIN q /\ q[o] \in ProposalRows
    BY <1>1, Places
  <1>3. PICK e \in ProposalRows : e = [q[o] EXCEPT !.status = status]
    BY <1>2 DEF ProposalRows
  <1>4. e.title = q[o].title /\ e.from = q[o].from /\ e.status = status
    BY <1>2, <1>3 DEF ProposalRows
  <1>5. PICK p \in Seq(ProposalRows) : p = [q EXCEPT ![o] = e]
    BY <1>2, Replaced
  <1>6. /\ Len(p) = Len(q)
        /\ \A j \in DOMAIN q : p[j] = IF j = o THEN e ELSE q[j]
    BY <1>2, <1>5, Replaced
  <1>7. rows' = [rows EXCEPT ![k] = p]
    BY <1>1, <1>3, <1>5 DEF Ends
  <1>8. rows'[k] = p /\ \A j \in Tables \ {k} : rows'[j] = rows[j]
    BY <1>0, <1>7
  <1>9. rows' \in [Tables -> Seq(ProposalRows)]
    BY <1>0, <1>7
  <1>10. rows'[k][o].status = status /\ \A i \in DOMAIN rows[k] \ {o} : rows'[k][i] = rows[k][i]
    BY <1>1, <1>2, <1>4, <1>6, <1>8
  <1>11. ASSUME NEW j \in Tables
         PROVE  /\ Len(rows'[j]) = Len(rows[j])
                /\ \A i \in DOMAIN rows[j] : /\ rows'[j][i].title = rows[j][i].title
                                             /\ rows'[j][i].from = rows[j][i].from
                                             /\ IsOpen(j, i)' => IsOpen(j, i)
    <2>1. CASE j # k
      BY <1>8, <2>1 DEF IsOpen
    <2>2. CASE j = k
      <3>1. Len(rows'[j]) = Len(rows[j])
        BY <1>1, <1>6, <1>8, <2>2
      <3>. SUFFICES ASSUME NEW i \in DOMAIN rows[j]
                    PROVE  /\ rows'[j][i].title = rows[j][i].title
                           /\ rows'[j][i].from = rows[j][i].from
                           /\ IsOpen(j, i)' => IsOpen(j, i)
        BY <3>1
      <3>2. CASE i = o
        BY <1>1, <1>4, <1>6, <1>8, <2>2, <3>2 DEF IsOpen
      <3>3. CASE i # o
        BY <1>1, <1>6, <1>8, <2>2, <3>3 DEF IsOpen
      <3>. QED
        BY <3>2, <3>3
    <2>. QED
      BY <2>1, <2>2
  <1>12. RowsStay
    BY <1>9, <1>11 DEF RowsStay
  <1>. QED
    BY <1>8, <1>10, <1>12

LEMMA RowsOKStay ==
    ASSUME ProposalRowsOK, RowsStay, UNCHANGED repeats, lapses' \in [1..MaxRows -> Nat],
           scan' \in [Scanners -> ScanStates], sweep' \in [Sweepers -> SweepStates(Opps)]
    PROVE  ProposalRowsOK' /\ Opps' = Opps
  <1>1. \A k \in Tables : DOMAIN rows'[k] = DOMAIN rows[k]
    BY SamePlaces
  <1>2. Opps' = Opps
    BY <1>1 DEF Opps, Tables
  <1>3. \A k \in Tables : \A i \in DOMAIN rows'[k] : rows'[k][i].from \in Opps' \cup {0}
    BY <1>1, <1>2 DEF ProposalRowsOK, RowsStay
  <1>. QED
    BY <1>1, <1>2, <1>3 DEF ProposalRowsOK, RowsStay

LEMMA RowsUnchanged == ProposalRowsOK /\ UNCHANGED rows => RowsStay
  BY DEF ProposalRowsOK, RowsStay, IsOpen

\* An opportunity that keeps, or loses, what is counted of it.
LEMMA PromotionStays ==
    ASSUME ProposalsAssumption, ProposalRowsOK, ProposalRowsOK', NEW o \in Opps, o \in Opps',
           PromotionOf(o), Children(o)' \subseteq Children(o), Takers(o)' \subseteq Takers(o),
           lapses'[o] >= lapses[o], (Spare(o)' => Spare(o)) \/ lapses'[o] > lapses[o]
    PROVE  PromotionOf(o)'
  <1>1. PICK c \in Nat, w \in Nat, l \in Nat, s \in BOOLEAN :
            /\ c = Cardinality(Children(o)) /\ w = Cardinality(Takers(o)) /\ l = lapses[o] /\ s = Spare(o)
            /\ IsFiniteSet(Children(o)) /\ IsFiniteSet(Takers(o))
    BY PromotionFacts
  <1>2. PICK l1 \in Nat : l1 = lapses'[o]
    BY DEF ProposalRowsOK
  <1>3. PICK s1 \in BOOLEAN : s1 = Spare(o)'
    BY DEF Spare
  <1>4. PICK c1 \in Nat, w1 \in Nat :
            c1 = Cardinality(Children(o)') /\ w1 = Cardinality(Takers(o)') /\ c1 <= c /\ w1 <= w
    BY <1>1, FS_Subset, FS_CardinalityType
  <1>5. Room(c, w, l, s) /\ l1 >= l /\ ((s1 => s) \/ l1 > l)
    BY <1>1, <1>2, <1>3 DEF PromotionOf
  <1>6. Room(c1, w1, l1, s1)
    BY <1>4, <1>5 DEF Room
  <1>. QED
    BY <1>2, <1>3, <1>4, <1>6 DEF PromotionOf

\* The history of lapses.
LEMMA LapsesAre ==
    ASSUME ProposalsAssumption, ProposalRowsOK, NEW S, Lapse(S)
    PROVE  /\ lapses' \in [1..MaxRows -> Nat]
           /\ \A o \in Opps : /\ lapses'[o] >= lapses[o]
                              /\ o \in S => lapses'[o] = lapses[o] + 1 /\ lapses'[o] > lapses[o]
  <1>1. /\ lapses \in [1..MaxRows -> Nat] /\ Opps \subseteq 1..MaxRows
        /\ lapses' = [o \in 1..MaxRows |-> IF o \in S THEN lapses[o] + 1 ELSE lapses[o]]
    BY DEF ProposalRowsOK, Lapse
  <1>2. \A n \in Nat : n >= n /\ n + 1 \in Nat /\ n + 1 >= n /\ n + 1 > n
    OBVIOUS
  <1>. QED
    BY <1>1, <1>2

LEMMA LapsesSame ==
    ASSUME ProposalRowsOK
    PROVE  lapses \in [1..MaxRows -> Nat] /\ \A o \in Opps : lapses[o] >= lapses[o]
  <1>1. \A n \in Nat : n >= n
    OBVIOUS
  <1>. QED
    BY <1>1 DEF ProposalRowsOK

LEMMA ChildrenStay ==
    ASSUME ProposalRowsOK, RowsStay, NEW o
    PROVE  Children(o)' = Children(o)
  BY SamePlaces DEF Children, RowsStay, Tables

\* The user.
LEMMA UserResolvesStep ==
    ASSUME ProposalsAssumption, ProposalInv, NEW o \in DOMAIN rows["opportunity"],
           NEW status \in {"accepted", "rejected"}, UserResolves(o, status)
    PROVE  ProposalInv'
  <1>0. ProposalRowsOK /\ PromotionInv /\ "opportunity" \in Tables /\ "goal" \in Tables
    BY DEF ProposalInv, Tables
  <1>1. status \in Statuses \ Open /\ Ends("opportunity", o, status)
    BY DEF Statuses, Open, UserResolves, Ends
  <1>2. /\ RowsStay /\ rows'["opportunity"][o].status \notin Open
        /\ \A i \in Opps \ {o} : rows'["opportunity"][i] = rows["opportunity"][i]
    BY <1>0, <1>1, RowEnds DEF Opps
  <1>3. UNCHANGED <<scan, sweep, repeats, lapses>>
    BY DEF UserResolves
  <1>4. ProposalRowsOK' /\ Opps' = Opps
    BY <1>0, <1>2, <1>3, RowsOKStay DEF ProposalRowsOK
  <1>5. SeenAll' /\ RepeatsCounted'
    BY <1>2, <1>3, TitlesKept DEF ScansLook
  <1>6. ASSUME NEW x \in Opps PROVE PromotionOf(x)'
    <2>1. /\ PromotionOf(x) /\ Children(x)' = Children(x) /\ Takers(x)' = Takers(x)
          /\ lapses'[x] >= lapses[x]
      BY <1>0, <1>2, <1>3, ChildrenStay, LapsesSame DEF PromotionInv, Takers
    <2>2. Spare(x)' => Spare(x)
      BY <1>2, <1>3 DEF Spare, IsOpenOpp, Held
    <2>. QED
      BY <1>0, <1>4, <2>1, <2>2, PromotionStays
  <1>. QED
    BY <1>4, <1>5, <1>6 DEF ProposalInv, PromotionInv

LEMMA CloseGoalStep ==
    ASSUME ProposalsAssumption, ProposalInv, NEW g \in DOMAIN rows["goal"], CloseGoal(g)
    PROVE  ProposalInv'
  <1>0. ProposalRowsOK /\ PromotionInv /\ "opportunity" \in Tables /\ "goal" \in Tables
    BY DEF ProposalInv, Tables
  <1>1. Ends("goal", g, "closed") /\ "closed" \in Statuses \ Open
    BY DEF CloseGoal, Ends, Statuses, Open
  <1>2. RowsStay /\ rows'["opportunity"] = rows["opportunity"]
    BY <1>0, <1>1, RowEnds
  <1>3. UNCHANGED <<scan, sweep, repeats, lapses>>
    BY DEF CloseGoal
  <1>4. ProposalRowsOK' /\ Opps' = Opps
    BY <1>0, <1>2, <1>3, RowsOKStay DEF ProposalRowsOK
  <1>5. SeenAll' /\ RepeatsCounted'
    BY <1>2, <1>3, TitlesKept DEF ScansLook
  <1>6. ASSUME NEW x \in Opps PROVE PromotionOf(x)'
    <2>1. /\ PromotionOf(x) /\ Children(x)' = Children(x) /\ Takers(x)' = Takers(x)
          /\ lapses'[x] >= lapses[x]
      BY <1>0, <1>2, <1>3, ChildrenStay, LapsesSame DEF PromotionInv, Takers
    <2>2. Spare(x)' => Spare(x)
      BY <1>2, <1>3 DEF Spare, IsOpenOpp, Held
    <2>. QED
      BY <1>0, <1>4, <2>1, <2>2, PromotionStays
  <1>. QED
    BY <1>4, <1>5, <1>6 DEF ProposalInv, PromotionInv

\* What the sweeps do while no row is added or opened.
LEMMA SweepsMove ==
    ASSUME ProposalsAssumption, ProposalInv, RowsStay, ScansLook, UNCHANGED repeats,
           scan' \in [Scanners -> ScanStates], sweep' \in [Sweepers -> SweepStates(Opps)],
           lapses' \in [1..MaxRows -> Nat],
           ProposalRowsOK' /\ Opps' = Opps => \A x \in Opps : PromotionOf(x)'
    PROVE  ProposalInv'
  <1>1. ProposalRowsOK' /\ Opps' = Opps
    BY RowsOKStay DEF ProposalInv
  <1>2. SeenAll' /\ RepeatsCounted'
    BY TitlesKept
  <1>. QED
    BY <1>1, <1>2 DEF ProposalInv, PromotionInv


LEMMA SweepReadsStep ==
    ASSUME ProposalsAssumption, ProposalInv, NEW w \in Sweepers, SweepReads(w)
    PROVE  ProposalInv'
  <1>0. ProposalRowsOK /\ PromotionInv
    BY DEF ProposalInv
  <1>1. PICK todo \in SUBSET {i \in DOMAIN rows["opportunity"] : rows["opportunity"][i].status = "scored"} :
            /\ sweep' = [sweep EXCEPT ![w] = [NoSweep EXCEPT !.todo = todo]]
            /\ Lapse({o \in todo : \E v \in Sweepers \ {w} : Held(o, v)})
    BY DEF SweepReads
  <1>2. sweep[w] = NoSweep /\ UNCHANGED <<rows, scan, repeats>> /\ todo \subseteq Opps
    BY DEF SweepReads, Opps
  <1>3. RowsStay /\ Opps' = Opps
    BY <1>0, <1>2, RowsUnchanged DEF Opps
  <1>4. /\ sweep'[w].todo = todo /\ sweep'[w].opp = 0
        /\ \A v \in Sweepers \ {w} : sweep'[v] = sweep[v]
        /\ sweep' \in [Sweepers -> SweepStates(Opps)]
    BY <1>0, <1>1, <1>2 DEF ProposalRowsOK, NoSweep, SweepStates
  <1>5. /\ lapses' \in [1..MaxRows -> Nat]
        /\ \A x \in Opps : /\ lapses'[x] >= lapses[x]
                           /\ x \in todo /\ (\E v \in Sweepers \ {w} : Held(x, v)) =>
                                  lapses'[x] = lapses[x] + 1
    BY <1>0, <1>1, LapsesAre
  <1>6. scan' \in [Scanners -> ScanStates] /\ ScansLook
    BY <1>0, <1>2 DEF ProposalRowsOK, ScansLook
  <1>7. ASSUME ProposalRowsOK', NEW x \in Opps, x \in Opps'
        PROVE  PromotionOf(x)'
    <2>0. PromotionOf(x) /\ x # 0 /\ lapses'[x] >= lapses[x]
      BY <1>0, <1>5, PromotionFacts DEF PromotionInv
    <2>1. Children(x)' = Children(x)
      BY <1>2 DEF Children
    <2>2. CASE x \notin todo
      <3>1. Takers(x)' \subseteq Takers(x)
        BY <1>4, <2>2 DEF Takers
      <3>2. Spare(x)' => Spare(x)
        <4>1. \A v \in Sweepers : Held(x, v) => Held(x, v)'
          BY <1>2, <1>4, <2>0 DEF Held, NoSweep
        <4>. QED
          BY <1>2, <4>1 DEF Spare, IsOpenOpp
      <3>. QED
        BY <1>0, <1>7, <2>0, <2>1, <3>1, <3>2, PromotionStays
    <2>3. CASE x \in todo
      <3>1. ~Spare(x)'
        BY <1>4, <2>3 DEF Spare, Held
      <3>2. Takers(x)' \subseteq Takers(x) \cup {w}
        BY <1>4 DEF Takers
      <3>3. Spare(x) \/ lapses'[x] = lapses[x] + 1
        <4>1. IsOpenOpp(x) /\ ~Held(x, w)
          BY <1>1, <1>2, <2>0, <2>3 DEF IsOpenOpp, Open, Held, NoSweep
        <4>. QED
          BY <1>5, <2>3, <4>1 DEF Spare
      <3>4. PICK c \in Nat, n \in Nat, l \in Nat, s \in BOOLEAN :
                /\ c = Cardinality(Children(x)) /\ n = Cardinality(Takers(x)) /\ l = lapses[x] /\ s = Spare(x)
                /\ IsFiniteSet(Takers(x))
        BY <1>0, PromotionFacts
      <3>5. PICK l1 \in Nat : l1 = lapses'[x]
        BY <1>7 DEF ProposalRowsOK
      <3>6. PICK n1 \in Nat : n1 = Cardinality(Takers(x)') /\ n1 <= n + 1
        <4>1. IsFiniteSet(Takers(x) \cup {w}) /\ Cardinality(Takers(x) \cup {w}) \in Nat
              /\ Cardinality(Takers(x) \cup {w}) <= n + 1
          BY <3>4, OneMore
        <4>2. PICK m \in Nat : m = Cardinality(Takers(x) \cup {w}) /\ m <= n + 1
          BY <4>1
        <4>3. Cardinality(Takers(x)') \in Nat /\ Cardinality(Takers(x)') <= m
          BY <3>2, <4>1, <4>2, FS_Subset, FS_CardinalityType
        <4>. QED
          BY <4>2, <4>3
      <3>7. Room(c, n, l, s) /\ l1 >= l /\ (s \/ l1 = l + 1)
        BY <2>0, <3>3, <3>4, <3>5 DEF PromotionOf
      <3>8. Room(c, n1, l1, FALSE)
        <4>1. c <= c /\ FALSE \in BOOLEAN /\ ~FALSE
          OBVIOUS
        <4>. QED
          BY <3>6, <3>7 DEF Room
      <3>. QED
        BY <2>1, <3>1, <3>4, <3>5, <3>6, <3>8 DEF PromotionOf, Spare
    <2>. QED
      BY <2>2, <2>3
  <1>. QED
    BY <1>2, <1>3, <1>4, <1>5, <1>6, <1>7, SweepsMove

LEMMA SweepResolvesStep ==
    ASSUME ProposalsAssumption, ProposalInv, NEW w \in Sweepers, SweepResolves(w)
    PROVE  ProposalInv'
  <1>0. ProposalRowsOK /\ PromotionInv /\ "opportunity" \in Tables /\ "goal" \in Tables
    BY DEF ProposalInv, Tables
  <1>1. PICK o \in Opps : o = sweep[w].opp /\ o # 0
    BY <1>0 DEF ProposalRowsOK, SweepResolves, SweepStates
  <1>2. UNCHANGED <<scan, repeats, lapses>> /\ sweep' = [sweep EXCEPT ![w].opp = 0]
    BY DEF SweepResolves
  <1>3. /\ RowsStay
        /\ rows'["opportunity"][o].status \notin Open
        /\ \A i \in Opps \ {o} : rows'["opportunity"][i] = rows["opportunity"][i]
    <2>1. CASE rows["opportunity"][o].status \in Open
      <3>1. Ends("opportunity", o, "accepted") /\ "accepted" \in Statuses \ Open
        BY <1>1, <2>1 DEF SweepResolves, Resolution, Ends, Statuses, Open
      <3>. QED
        BY <1>0, <3>1, RowEnds DEF Opps
    <2>2. CASE rows["opportunity"][o].status \notin Open
      <3>1. rows' = rows
        BY <1>1, <2>2 DEF SweepResolves
      <3>. QED
        BY <1>0, <2>2, <3>1, RowsUnchanged
    <2>. QED
      BY <2>1, <2>2
  <1>4. /\ sweep'[w].todo = sweep[w].todo /\ sweep'[w].opp = 0
        /\ \A v \in Sweepers \ {w} : sweep'[v] = sweep[v]
        /\ sweep' \in [Sweepers -> SweepStates(Opps)]
    BY <1>0, <1>2 DEF ProposalRowsOK, SweepStates
  <1>5. /\ lapses' \in [1..MaxRows -> Nat] /\ scan' \in [Scanners -> ScanStates] /\ ScansLook
        /\ UNCHANGED repeats
    BY <1>0, <1>2 DEF ProposalRowsOK, ScansLook
  <1>6. ASSUME ProposalRowsOK', NEW x \in Opps, x \in Opps'
        PROVE  PromotionOf(x)'
    <2>1. /\ PromotionOf(x) /\ Children(x)' = Children(x) /\ Takers(x)' \subseteq Takers(x)
          /\ lapses'[x] >= lapses[x]
      BY <1>0, <1>2, <1>3, <1>4, ChildrenStay, LapsesSame DEF PromotionInv, Takers
    <2>2. Spare(x)' => Spare(x)
      <3>1. CASE x = o
        BY <1>3, <3>1 DEF Spare, IsOpenOpp
      <3>2. CASE x # o
        <4>1. \A v \in Sweepers : Held(x, v) => Held(x, v)'
          BY <1>1, <1>4, <3>2 DEF Held
        <4>. QED
          BY <1>3, <3>2, <4>1 DEF Spare, IsOpenOpp
      <3>. QED
        BY <3>1, <3>2
    <2>. QED
      BY <1>0, <1>6, <2>1, <2>2, PromotionStays
  <1>. QED
    BY <1>3, <1>4, <1>5, <1>6, SweepsMove

\* A sweep that gives up a candidate.
LEMMA FewerTakers ==
    ASSUME ProposalsAssumption, ProposalRowsOK, ProposalRowsOK', NEW o \in Opps, o \in Opps',
           PromotionOf(o), Children(o)' = Children(o), UNCHANGED lapses,
           NEW w \in Takers(o), Takers(o)' \subseteq Takers(o) \ {w}
    PROVE  PromotionOf(o)'
  <1>1. PICK c \in Nat, n \in Nat, l \in Nat, s \in BOOLEAN :
            /\ c = Cardinality(Children(o)) /\ n = Cardinality(Takers(o)) /\ l = lapses[o] /\ s = Spare(o)
            /\ IsFiniteSet(Takers(o))
    BY PromotionFacts
  <1>2. PICK s1 \in BOOLEAN : s1 = Spare(o)'
    BY DEF Spare
  <1>3. PICK n1 \in Nat : n1 = Cardinality(Takers(o)') /\ n1 < n
    <2>1. IsFiniteSet(Takers(o) \ {w}) /\ Cardinality(Takers(o) \ {w}) = n - 1
      BY <1>1, FS_RemoveElement
    <2>2. PICK m \in Nat : m = Cardinality(Takers(o) \ {w}) /\ m = n - 1
      BY <2>1, FS_CardinalityType
    <2>3. Cardinality(Takers(o)') \in Nat /\ Cardinality(Takers(o)') <= m
      BY <2>1, <2>2, FS_Subset, FS_CardinalityType
    <2>. QED
      BY <1>1, <2>2, <2>3
  <1>4. Room(c, n, l, s) /\ c <= c /\ n1 <= n /\ l >= l
    BY <1>1, <1>3 DEF PromotionOf
  <1>5. Room(c, n1, l, s1)
    BY <1>3, <1>4 DEF Room
  <1>. QED
    BY <1>1, <1>2, <1>3, <1>5 DEF PromotionOf

LEMMA SweepFailsStep ==
    ASSUME ProposalsAssumption, ProposalInv, NEW w \in Sweepers, SweepFails(w)
    PROVE  ProposalInv'
  <1>0. ProposalRowsOK /\ PromotionInv /\ UNCHANGED <<rows, scan, repeats>>
    BY DEF ProposalInv, SweepFails
  <1>1. RowsStay /\ scan' \in [Scanners -> ScanStates] /\ ScansLook
    BY <1>0, RowsUnchanged DEF ProposalRowsOK, ScansLook
  <1>2. ASSUME NEW o \in sweep[w].todo, sweep' = [sweep EXCEPT ![w].todo = @ \ {o}], UNCHANGED lapses
        PROVE  ProposalInv'
    <2>1. /\ sweep'[w].todo = sweep[w].todo \ {o} /\ sweep'[w].opp = sweep[w].opp
          /\ \A v \in Sweepers \ {w} : sweep'[v] = sweep[v]
          /\ sweep' \in [Sweepers -> SweepStates(Opps)]
      BY <1>0, <1>2 DEF ProposalRowsOK, SweepStates
    <2>2. lapses' \in [1..MaxRows -> Nat]
      BY <1>0, <1>2 DEF ProposalRowsOK
    <2>3. ASSUME ProposalRowsOK', NEW x \in Opps, x \in Opps'
          PROVE  PromotionOf(x)'
      <3>0. PromotionOf(x) /\ Children(x)' = Children(x) /\ lapses'[x] >= lapses[x]
        BY <1>0, <1>2, LapsesSame DEF PromotionInv, Children
      <3>1. CASE x = o
        <4>1. w \in Takers(x) /\ Takers(x)' \subseteq Takers(x) \ {w}
          BY <2>1, <3>1 DEF Takers
        <4>. QED
          BY <1>0, <1>2, <2>3, <3>0, <4>1, FewerTakers
      <3>2. CASE x # o
        <4>1. Takers(x)' \subseteq Takers(x) /\ \A v \in Sweepers : Held(x, v) => Held(x, v)'
          BY <2>1, <3>2 DEF Takers, Held
        <4>2. Spare(x)' => Spare(x)
          BY <1>0, <4>1 DEF Spare, IsOpenOpp
        <4>. QED
          BY <1>0, <2>3, <3>0, <4>1, <4>2, PromotionStays
      <3>. QED
        BY <3>1, <3>2
    <2>. QED
      BY <1>0, <1>1, <2>1, <2>2, <2>3, SweepsMove
  <1>3. ASSUME sweep[w].opp # 0, sweep' = [sweep EXCEPT ![w].opp = 0], Lapse({sweep[w].opp})
        PROVE  ProposalInv'
    <2>1. /\ sweep'[w].todo = sweep[w].todo /\ sweep'[w].opp = 0
          /\ \A v \in Sweepers \ {w} : sweep'[v] = sweep[v]
          /\ sweep' \in [Sweepers -> SweepStates(Opps)]
      BY <1>0, <1>3 DEF ProposalRowsOK, SweepStates
    <2>2. /\ lapses' \in [1..MaxRows -> Nat]
          /\ \A x \in Opps : /\ lapses'[x] >= lapses[x]
                             /\ x = sweep[w].opp => lapses'[x] > lapses[x]
      BY <1>0, <1>3, LapsesAre
    <2>3. ASSUME ProposalRowsOK', NEW x \in Opps, x \in Opps'
          PROVE  PromotionOf(x)'
      <3>0. /\ PromotionOf(x) /\ Children(x)' = Children(x) /\ lapses'[x] >= lapses[x]
            /\ Takers(x)' \subseteq Takers(x)
        BY <1>0, <2>1, <2>2 DEF PromotionInv, Children, Takers
      <3>1. (Spare(x)' => Spare(x)) \/ lapses'[x] > lapses[x]
        <4>1. CASE x = sweep[w].opp
          BY <2>2, <4>1
        <4>2. CASE x # sweep[w].opp
          <5>1. \A v \in Sweepers : Held(x, v) => Held(x, v)'
            BY <2>1, <4>2 DEF Held
          <5>. QED
            BY <1>0, <5>1 DEF Spare, IsOpenOpp
        <4>. QED
          BY <4>1, <4>2
      <3>. QED
        BY <1>0, <2>3, <3>0, <3>1, PromotionStays
    <2>. QED
      BY <1>0, <1>1, <2>1, <2>2, <2>3, SweepsMove
  <1>. QED
    BY <1>2, <1>3 DEF SweepFails

LEMMA PrCrashStep ==
    ASSUME ProposalsAssumption, ProposalInv, PrCrash
    PROVE  ProposalInv'
  <1>0. ProposalRowsOK /\ PromotionInv
    BY DEF ProposalInv
  <1>1. /\ scan' = [s \in Scanners |-> NoScan]
        /\ sweep' = [w \in Sweepers |-> NoSweep]
        /\ Lapse({o \in Opps : IsOpenOpp(o) /\ \E w \in Sweepers : sweep[w].opp = o})
        /\ UNCHANGED <<rows, repeats>>
    BY DEF PrCrash, Opps
  <1>2. RowsStay
    BY <1>0, <1>1, RowsUnchanged
  <1>3. /\ scan' \in [Scanners -> ScanStates] /\ ScansLook
        /\ sweep' \in [Sweepers -> SweepStates(Opps)]
    BY <1>1 DEF NoScan, NoSweep, ScanStates, SweepStates, ScansLook
  <1>4. /\ lapses' \in [1..MaxRows -> Nat]
        /\ \A x \in Opps : /\ lapses'[x] >= lapses[x]
                           /\ IsOpenOpp(x) /\ (\E w \in Sweepers : sweep[w].opp = x) => lapses'[x] > lapses[x]
    BY <1>0, <1>1, LapsesAre
  <1>5. ASSUME ProposalRowsOK', NEW x \in Opps, x \in Opps'
        PROVE  PromotionOf(x)'
    <2>0. /\ PromotionOf(x) /\ Children(x)' = Children(x) /\ lapses'[x] >= lapses[x]
          /\ Takers(x)' = {}
      BY <1>0, <1>1, <1>4 DEF PromotionInv, Children, Takers, NoSweep
    <2>1. CASE Takers(x) = {}
      <3>1. (Spare(x)' => Spare(x)) \/ lapses'[x] > lapses[x]
        <4>. SUFFICES ASSUME IsOpenOpp(x), ~Spare(x) PROVE lapses'[x] > lapses[x]
          BY <1>1 DEF Spare, IsOpenOpp
        <4>1. PICK w \in Sweepers : Held(x, w)
          BY DEF Spare
        <4>2. sweep[w].opp = x
          BY <2>1, <4>1 DEF Held, Takers
        <4>. QED
          BY <1>4, <4>2
      <3>. QED
        BY <1>0, <1>5, <2>0, <3>1, PromotionStays
    <2>2. CASE Takers(x) # {}
      <3>1. PICK c \in Nat, n \in Nat, l \in Nat, s \in BOOLEAN :
                /\ c = Cardinality(Children(x)) /\ n = Cardinality(Takers(x)) /\ l = lapses[x] /\ s = Spare(x)
                /\ IsFiniteSet(Takers(x))
        BY <1>0, PromotionFacts
      <3>2. PICK l1 \in Nat, s1 \in BOOLEAN : l1 = lapses'[x] /\ s1 = Spare(x)'
        BY <1>5 DEF ProposalRowsOK, Spare
      <3>3. Cardinality(Takers(x)') = 0
        BY <2>0, FS_EmptySet
      <3>4. n # 0
        BY <2>2, <3>1, FS_EmptySet
      <3>5. Room(c, n, l, s) /\ l1 >= l
        BY <2>0, <3>1, <3>2 DEF PromotionOf
      <3>6. c <= c /\ 0 <= n /\ 0 < n /\ 0 \in Nat
        BY <3>4
      <3>7. Room(c, 0, l1, s1)
        BY <3>5, <3>6 DEF Room
      <3>. QED
        BY <2>0, <3>1, <3>2, <3>3, <3>7 DEF PromotionOf
    <2>. QED
      BY <2>1, <2>2
  <1>. QED
    BY <1>1, <1>2, <1>3, <1>4, <1>5, SweepsMove

\* A row added, where the tables are.
LEMMA Grown ==
    ASSUME ProposalsAssumption, ProposalRowsOK, NEW k \in Tables, NEW title \in Headings,
           NEW from \in Nat, Adds(k, title, from)
    PROVE  /\ \A j \in Tables \ {k} : DOMAIN rows'[j] = DOMAIN rows[j]
           /\ DOMAIN rows'[k] = DOMAIN rows[k] \cup {Len(rows[k]) + 1}
           /\ Len(rows[k]) + 1 \notin DOMAIN rows[k]
           /\ Len(rows[k]) + 1 \in 1..MaxRows
  <1>1. \A j \in Tables : rows[j] \in Seq(ProposalRows) /\ rows'[j] \in Seq(ProposalRows)
    BY AddsRow DEF ProposalRowsOK
  <1>2. PICK n \in Nat : n = Len(rows[k]) /\ DOMAIN rows[k] = 1..n
    BY <1>1, Places
  <1>3. DOMAIN rows'[k] = 1..(n + 1)
    BY <1>1, <1>2, Places, AddsRow
  <1>4. PICK a \in Nat, b \in Nat, c \in Nat :
            a = Len(rows["opportunity"]) /\ b = Len(rows["goal"]) /\ c = Len(rows["decision"])
    BY <1>1, Places DEF Tables
  <1>5. PICK m \in Nat : m = MaxRows
    BY DEF ProposalsAssumption
  <1>6. a + b + c < m
    BY <1>4, <1>5 DEF Adds
  <1>7. n = a \/ n = b \/ n = c
    BY <1>2, <1>4 DEF Tables
  <1>8. n + 1 \in 1..m /\ n + 1 \notin 1..n
    BY <1>6, <1>7
  <1>9. \A j \in Tables \ {k} : DOMAIN rows'[j] = DOMAIN rows[j]
    BY AddsRow
  <1>10. 1..(n + 1) = (1..n) \cup {n + 1}
    OBVIOUS
  <1>. QED
    BY <1>2, <1>3, <1>5, <1>8, <1>9, <1>10

LEMMA RowsOKAdded ==
    ASSUME ProposalsAssumption, ProposalRowsOK, NEW k \in Tables, NEW title \in Headings,
           NEW from \in Nat, from \in Opps \cup {0}, Adds(k, title, from), RepeatsGrow, UNCHANGED lapses,
           scan' \in [Scanners -> ScanStates], sweep' \in [Sweepers -> SweepStates(Opps)]
    PROVE  ProposalRowsOK' /\ Opps \subseteq Opps' /\ \A x \in Opps' \ Opps : k = "opportunity"
  <1>1. PICK last : last = Len(rows[k]) + 1
    OBVIOUS
  <1>2. /\ \A j \in Tables \ {k} : DOMAIN rows'[j] = DOMAIN rows[j]
        /\ DOMAIN rows'[k] = DOMAIN rows[k] \cup {last} /\ last \in 1..MaxRows
    BY <1>1, Grown
  <1>3. /\ rows' \in [Tables -> Seq(ProposalRows)]
        /\ \A i \in DOMAIN rows[k] : rows'[k][i] = rows[k][i]
        /\ rows'[k][last].from = from
        /\ \A j \in Tables \ {k} : rows'[j] = rows[j]
    BY <1>1, AddsRow
  <1>4. Opps \subseteq Opps' /\ Opps' \subseteq 1..MaxRows /\ \A x \in Opps' \ Opps : k = "opportunity"
    BY <1>2 DEF Opps, Tables, ProposalRowsOK
  <1>5. ASSUME NEW j \in Tables, NEW i \in DOMAIN rows'[j]
        PROVE  rows'[j][i].from \in Opps' \cup {0}
    <2>1. CASE j # k
      BY <1>3, <1>4, <2>1 DEF ProposalRowsOK
    <2>2. CASE j = k /\ i \in DOMAIN rows[k]
      BY <1>3, <1>4, <2>2 DEF ProposalRowsOK
    <2>3. CASE j = k /\ i \notin DOMAIN rows[k]
      BY <1>2, <1>3, <1>4, <2>3
    <2>. QED
      BY <2>1, <2>2, <2>3
  <1>6. sweep' \in [Sweepers -> SweepStates(Opps')]
    <2>1. \A A, B : A \subseteq B => SweepStates(A) \subseteq SweepStates(B)
      BY DEF SweepStates
    <2>2. SweepStates(Opps) \subseteq SweepStates(Opps')
      BY <1>4, <2>1
    <2>. QED
      BY <2>2
  <1>. QED
    BY <1>3, <1>4, <1>5, <1>6 DEF ProposalRowsOK, RepeatsGrow

\* An opportunity that is new: no goal of it, in nobody's hands.
LEMMA PromotionStarts ==
    ASSUME ProposalsAssumption, ProposalRowsOK', NEW x \in Opps', Children(x)' = {}, Takers(x)' = {}
    PROVE  PromotionOf(x)'
  <1>1. PICK l \in Nat : l = lapses'[x]
    BY DEF ProposalRowsOK
  <1>2. PICK s \in BOOLEAN : s = Spare(x)'
    BY DEF Spare
  <1>3. Cardinality(Children(x)') = 0 /\ Cardinality(Takers(x)') = 0
    BY FS_EmptySet
  <1>4. Room(0, 0, l, s)
    BY DEF Room
  <1>. QED
    BY <1>1, <1>2, <1>3, <1>4 DEF PromotionOf

\* What a request, and a scan, leaves of the sweeps' work.
LEMMA PromotionsAside ==
    ASSUME ProposalsAssumption, ProposalInv, ProposalRowsOK', NEW k \in Tables, NEW title \in Headings,
           Adds(k, title, 0), Opps \subseteq Opps', \A x \in Opps' \ Opps : k = "opportunity",
           UNCHANGED <<sweep, lapses>>
    PROVE  PromotionInv'
  <1>0. ProposalRowsOK /\ PromotionInv /\ "goal" \in Tables /\ "opportunity" \in Tables
    BY DEF ProposalInv, Tables
  <1>1. PICK last : last = Len(rows[k]) + 1
    OBVIOUS
  <1>2. /\ \A j \in Tables \ {k} : DOMAIN rows'[j] = DOMAIN rows[j]
        /\ DOMAIN rows'[k] = DOMAIN rows[k] \cup {last}
    BY <1>0, <1>1, Grown
  <1>3. /\ \A i \in DOMAIN rows[k] : rows'[k][i] = rows[k][i]
        /\ rows'[k][last].from = 0
        /\ \A j \in Tables \ {k} : rows'[j] = rows[j]
    BY <1>0, <1>1, AddsRow
  <1>4. \A x : x # 0 => Children(x)' \subseteq Children(x)
    BY <1>0, <1>2, <1>3 DEF Children
  <1>. SUFFICES ASSUME NEW x \in Opps' PROVE PromotionOf(x)'
    BY DEF PromotionInv
  <1>5. CASE x \in Opps
    <2>1. x # 0 /\ PromotionOf(x) /\ lapses'[x] >= lapses[x] /\ Takers(x)' \subseteq Takers(x)
      BY <1>0, <1>5, PromotionFacts, LapsesSame DEF PromotionInv, Takers
    <2>2. rows'["opportunity"][x] = rows["opportunity"][x]
      BY <1>0, <1>3, <1>5 DEF Opps
    <2>3. Spare(x)' => Spare(x)
      BY <2>2 DEF Spare, IsOpenOpp, Held
    <2>. QED
      BY <1>0, <1>4, <1>5, <2>1, <2>3, PromotionStays
  <1>6. CASE x \notin Opps
    <2>1. k = "opportunity" /\ rows'["goal"] = rows["goal"]
      BY <1>0, <1>3, <1>6
    <2>2. x # 0
      BY <1>0, <1>1, <1>2, <1>6, <2>1, Grown DEF Opps
    <2>3. Children(x)' = {}
      BY <1>0, <1>6, <2>1, <2>2 DEF Children, ProposalRowsOK
    <2>4. Takers(x)' = {}
      BY <1>0, <1>6 DEF Takers, ProposalRowsOK, SweepStates
    <2>. QED
      BY <2>3, <2>4, PromotionStarts
  <1>. QED
    BY <1>5, <1>6

LEMMA SweepCreatesStep ==
    ASSUME ProposalsAssumption, ProposalInv, NEW w \in Sweepers, NEW o \in DOMAIN rows["opportunity"],
           SweepCreates(w, o)
    PROVE  ProposalInv'
  <1>0. /\ ProposalRowsOK /\ PromotionInv /\ "opportunity" \in Tables /\ "goal" \in Tables
        /\ o \in Opps /\ rows["opportunity"] \in Seq(ProposalRows)
    BY DEF ProposalInv, Tables, ProposalRowsOK, Opps
  <1>1. /\ sweep[w].opp = 0 /\ o \in sweep[w].todo
        /\ sweep' = [sweep EXCEPT ![w] = [todo |-> @.todo \ {o}, opp |-> o]]
        /\ UNCHANGED <<scan, lapses>>
    BY DEF SweepCreates
  <1>2. PICK title \in Headings : title = rows["opportunity"][o].title
    <2>1. rows["opportunity"][o] \in ProposalRows
      BY <1>0, Places
    <2>. QED
      BY <2>1 DEF ProposalRows
  <1>3. Adds("goal", title, o) /\ Repeats("goal", title, TRUE)
    BY <1>2 DEF SweepCreates
  <1>4. o \in Nat /\ o # 0
    BY <1>0, PromotionFacts
  <1>5. RepeatsGrow
    BY <1>0, <1>3, RepeatsGrows
  <1>6. /\ sweep'[w].todo = sweep[w].todo \ {o} /\ sweep'[w].opp = o
        /\ \A v \in Sweepers \ {w} : sweep'[v] = sweep[v]
        /\ sweep' \in [Sweepers -> SweepStates(Opps)] /\ scan' \in [Scanners -> ScanStates]
    BY <1>0, <1>1 DEF ProposalRowsOK, SweepStates
  <1>7. ProposalRowsOK' /\ Opps' = Opps
    <2>1. o \in Opps \cup {0} /\ "goal" # "opportunity"
      BY <1>0
    <2>. QED
      BY <1>0, <1>1, <1>3, <1>4, <1>5, <1>6, <2>1, RowsOKAdded
  <1>8. SeenAll' /\ RepeatsCounted'
    BY <1>0, <1>1, <1>3, <1>4, <1>5, TitlesAdded
  <1>9. PICK last : last = Len(rows["goal"]) + 1
    OBVIOUS
  <1>10. /\ DOMAIN rows'["goal"] = DOMAIN rows["goal"] \cup {last}
         /\ \A i \in DOMAIN rows["goal"] : rows'["goal"][i] = rows["goal"][i]
         /\ rows'["goal"][last].from = o
         /\ rows'["opportunity"] = rows["opportunity"]
    BY <1>0, <1>3, <1>4, <1>9, AddsRow, Grown
  <1>11. ASSUME NEW x \in Opps, x \in Opps'
         PROVE  PromotionOf(x)'
    <2>0. PromotionOf(x) /\ lapses'[x] >= lapses[x]
      BY <1>0, <1>1, LapsesSame DEF PromotionInv
    <2>1. CASE x # o
      <3>1. Children(x)' \subseteq Children(x)
        BY <1>10, <2>1 DEF Children
      <3>2. Takers(x)' \subseteq Takers(x) /\ \A v \in Sweepers : Held(x, v) => Held(x, v)'
        <4>1. x # 0
          BY <1>0, PromotionFacts
        <4>. QED
          BY <1>1, <1>6, <2>1, <4>1 DEF Takers, Held
      <3>3. Spare(x)' => Spare(x)
        BY <1>10, <3>2 DEF Spare, IsOpenOpp
      <3>. QED
        BY <1>0, <1>7, <1>11, <2>0, <3>1, <3>2, <3>3, PromotionStays
    <2>2. CASE x = o
      <3>1. PICK c \in Nat, n \in Nat, l \in Nat, s \in BOOLEAN :
                /\ c = Cardinality(Children(x)) /\ n = Cardinality(Takers(x)) /\ l = lapses[x] /\ s = Spare(x)
                /\ IsFiniteSet(Takers(x)) /\ IsFiniteSet(Children(x))
        BY <1>0, PromotionFacts
      <3>2. ~Spare(x)' /\ lapses'[x] = l
        BY <1>1, <1>6, <2>2, <3>1 DEF Spare, Held
      <3>3. w \in Takers(x) /\ Takers(x)' \subseteq Takers(x) \ {w}
        BY <1>1, <1>6, <2>2 DEF Takers
      <3>4. PICK n1 \in Nat : n1 = Cardinality(Takers(x)') /\ n1 < n
        <4>1. IsFiniteSet(Takers(x) \ {w}) /\ Cardinality(Takers(x) \ {w}) = n - 1
          BY <3>1, <3>3, FS_RemoveElement
        <4>2. PICK m \in Nat : m = Cardinality(Takers(x) \ {w}) /\ m = n - 1
          BY <4>1, FS_CardinalityType
        <4>3. Cardinality(Takers(x)') \in Nat /\ Cardinality(Takers(x)') <= m
          BY <3>3, <4>1, <4>2, FS_Subset, FS_CardinalityType
        <4>. QED
          BY <3>1, <4>2, <4>3
      <3>5. PICK c1 \in Nat : c1 = Cardinality(Children(x)') /\ c1 <= c + 1
        <4>1. Children(x)' \subseteq Children(x) \cup {last}
          BY <1>10 DEF Children
        <4>2. IsFiniteSet(Children(x) \cup {last}) /\ Cardinality(Children(x) \cup {last}) \in Nat
              /\ Cardinality(Children(x) \cup {last}) <= c + 1
          BY <3>1, OneMore
        <4>3. PICK m \in Nat : m = Cardinality(Children(x) \cup {last}) /\ m <= c + 1
          BY <4>2
        <4>4. Cardinality(Children(x)') \in Nat /\ Cardinality(Children(x)') <= m
          BY <4>1, <4>2, <4>3, FS_Subset, FS_CardinalityType
        <4>. QED
          BY <4>3, <4>4
      <3>6. Room(c, n, l, s) /\ l >= l /\ FALSE \in BOOLEAN /\ ~FALSE
        BY <2>0, <3>1 DEF PromotionOf
      <3>7. Room(c1, n1, l, FALSE)
        BY <3>4, <3>5, <3>6 DEF Room
      <3>. QED
        BY <3>2, <3>4, <3>5, <3>7 DEF PromotionOf, Spare
    <2>. QED
      BY <2>1, <2>2
  <1>. QED
    BY <1>7, <1>8, <1>11 DEF ProposalInv, PromotionInv

\* Requests and scans.
LEMMA RequestStep ==
    ASSUME ProposalsAssumption, ProposalInv, NEW k \in Tables, NEW title \in Headings, Request(k, title)
    PROVE  ProposalInv'
  <1>0. ProposalRowsOK /\ 0 \in Nat /\ 0 \in Opps \cup {0}
    BY DEF ProposalInv
  <1>1. Adds(k, title, 0) /\ Repeats(k, title, TRUE) /\ UNCHANGED <<scan, sweep, lapses>>
    BY DEF Request
  <1>2. RepeatsGrow /\ (title \notin OpenTitles(k) \/ repeats'[k][title] = repeats[k][title] + 1)
    BY <1>0, <1>1, RepeatsGrows
  <1>3. scan' \in [Scanners -> ScanStates] /\ sweep' \in [Sweepers -> SweepStates(Opps)]
    BY <1>0, <1>1 DEF ProposalRowsOK
  <1>4. ProposalRowsOK' /\ Opps \subseteq Opps' /\ \A x \in Opps' \ Opps : k = "opportunity"
    BY <1>0, <1>1, <1>2, <1>3, RowsOKAdded
  <1>5. SeenAll' /\ RepeatsCounted'
    BY <1>0, <1>1, <1>2, TitlesAdded
  <1>6. PromotionInv'
    BY <1>1, <1>4, PromotionsAside
  <1>. QED
    BY <1>4, <1>5, <1>6 DEF ProposalInv

LEMMA ScanCreatesStep ==
    ASSUME ProposalsAssumption, ProposalInv, NEW s \in Scanners, NEW title \in Headings,
           ScanCreates(s, title)
    PROVE  ProposalInv'
  <1>0. ProposalRowsOK /\ 0 \in Nat /\ 0 \in Opps \cup {0}
    BY DEF ProposalInv
  <1>1. PICK k \in Tables : k = scan[s].table /\ k # ""
    BY <1>0 DEF ScanCreates, ProposalRowsOK, ScanStates
  <1>2. PICK unknown \in BOOLEAN : unknown = (title \in scan[s].hidden \/ Len(rows[k]) > scan[s].rows)
    OBVIOUS
  <1>3. /\ title \notin scan[s].seen
        /\ Adds(k, title, 0) /\ Repeats(k, title, unknown)
        /\ scan' = [scan EXCEPT ![s].seen = @ \cup {title}, ![s].rows = @ + 1]
        /\ UNCHANGED <<sweep, lapses>>
    BY <1>1, <1>2 DEF ScanCreates
  <1>4. /\ scan' \in [Scanners -> ScanStates]
        /\ scan[s].table = k /\ scan'[s].table = k /\ scan'[s].hidden = scan[s].hidden
        /\ scan'[s].seen = scan[s].seen \cup {title} /\ scan'[s].rows = scan[s].rows + 1
        /\ \A r \in Scanners \ {s} : scan'[r] = scan[r]
    <2>1. PICK n \in Nat, seen \in SUBSET Headings : n = scan[s].rows /\ seen = scan[s].seen
      BY <1>0 DEF ProposalRowsOK, ScanStates
    <2>2. PICK m \in Nat : m = n + 1
      OBVIOUS
    <2>3. PICK wider \in SUBSET Headings : wider = seen \cup {title}
      OBVIOUS
    <2>4. scan' = [scan EXCEPT ![s].seen = wider, ![s].rows = m]
      BY <1>0, <1>3, <2>1, <2>2, <2>3 DEF ProposalRowsOK, ScanStates
    <2>5. /\ scan' \in [Scanners -> ScanStates]
          /\ scan[s].table = k /\ scan'[s].table = k /\ scan'[s].hidden = scan[s].hidden
          /\ scan'[s].seen = wider /\ scan'[s].rows = m
          /\ \A r \in Scanners \ {s} : scan'[r] = scan[r]
      BY <1>0, <1>1, <2>4 DEF ProposalRowsOK, ScanStates
    <2>. QED
      BY <2>1, <2>2, <2>3, <2>5
  <1>5. RepeatsGrow /\ (unknown => title \notin OpenTitles(k) \/ repeats'[k][title] = repeats[k][title] + 1)
    BY <1>0, <1>3, RepeatsGrows
  <1>6. ~unknown => title \notin OpenTitles(k)
    <2>. SUFFICES ASSUME ~unknown PROVE title \notin OpenTitles(k)
      OBVIOUS
    <2>1. PICK n \in Nat, len \in Nat : n = scan[s].rows /\ len = Len(rows[k])
      <3>1. rows[k] \in Seq(ProposalRows)
        BY <1>0 DEF ProposalRowsOK
      <3>. QED
        BY <1>0, <3>1, Places DEF ProposalRowsOK, ScanStates
    <2>2. n <= len /\ (n = len => OpenTitles(k) \subseteq scan[s].seen \cup scan[s].hidden)
      BY <1>1, <2>1 DEF ProposalInv, SeenAll
    <2>3. title \notin scan[s].hidden /\ ~(len > n)
      BY <1>2, <2>1
    <2>4. n = len
      BY <2>2, <2>3
    <2>. QED
      BY <1>3, <2>2, <2>3, <2>4
  <1>7. ProposalRowsOK' /\ Opps \subseteq Opps' /\ \A x \in Opps' \ Opps : k = "opportunity"
    <2>1. sweep' \in [Sweepers -> SweepStates(Opps)]
      BY <1>0, <1>3 DEF ProposalRowsOK
    <2>. QED
      BY <1>0, <1>3, <1>4, <1>5, <2>1, RowsOKAdded
  <1>8. SeenAll' /\ RepeatsCounted'
    BY <1>0, <1>3, <1>4, <1>5, <1>6, TitlesAdded
  <1>9. PromotionInv'
    BY <1>3, <1>7, PromotionsAside
  <1>. QED
    BY <1>7, <1>8, <1>9 DEF ProposalInv

\* A scan that begins, or ends.
LEMMA ScansAside ==
    ASSUME ProposalInv, ScansLook, UNCHANGED <<rows, sweep, repeats, lapses>>,
           scan' \in [Scanners -> ScanStates]
    PROVE  ProposalInv'
  <1>0. ProposalRowsOK /\ PromotionInv /\ RowsStay
    BY RowsUnchanged DEF ProposalInv
  <1>1. SeenAll' /\ RepeatsCounted'
    BY <1>0, TitlesKept
  <1>2. Opps' = Opps /\ ProposalRowsOK'
    BY <1>0 DEF ProposalRowsOK, Opps
  <1>3. PromotionInv'
    BY <1>0, <1>2 DEF PromotionInv, PromotionOf, Children, Takers, Spare, IsOpenOpp, Held
  <1>. QED
    BY <1>1, <1>2, <1>3 DEF ProposalInv

LEMMA ScanReadsStep ==
    ASSUME ProposalInv, NEW s \in Scanners, NEW k \in Tables, ScanReads(s, k)
    PROVE  ProposalInv'
  <1>0. ProposalRowsOK
    BY DEF ProposalInv
  <1>1. rows[k] \in Seq(ProposalRows)
    BY <1>0 DEF ProposalRowsOK
  <1>2. PICK len \in Nat : len = Len(rows[k])
    BY <1>1, Places
  <1>3. OpenTitles(k) \subseteq Headings /\ Seen(k) \subseteq Headings
    <2>1. \A i \in DOMAIN rows[k] : rows[k][i] \in ProposalRows
      BY <1>1, Places
    <2>2. \A i \in DOMAIN rows[k] : rows[k][i].title \in Headings
      BY <2>1 DEF ProposalRows
    <2>. QED
      BY <2>2 DEF OpenTitles, Seen
  <1>4. PICK seen \in SUBSET Headings, unseen \in SUBSET Headings :
            seen = Seen(k) /\ unseen = OpenTitles(k) \ Seen(k) /\ OpenTitles(k) \subseteq seen \cup unseen
    <2>1. Seen(k) \in SUBSET Headings /\ OpenTitles(k) \ Seen(k) \in SUBSET Headings
      BY <1>3
    <2>2. OpenTitles(k) \subseteq Seen(k) \cup (OpenTitles(k) \ Seen(k))
      OBVIOUS
    <2>. QED
      BY <2>1, <2>2
  <1>5. /\ scan' = [scan EXCEPT ![s] = [table |-> k, seen |-> seen, hidden |-> unseen, rows |-> len]]
        /\ UNCHANGED <<rows, sweep, repeats, lapses>>
    BY <1>2, <1>4 DEF ScanReads
  <1>6. /\ scan' \in [Scanners -> ScanStates]
        /\ scan'[s].table = k /\ scan'[s].seen = seen /\ scan'[s].hidden = unseen /\ scan'[s].rows = len
        /\ \A r \in Scanners \ {s} : scan'[r] = scan[r]
    BY <1>0, <1>5 DEF ProposalRowsOK, ScanStates
  <1>7. ScansLook
    BY <1>2, <1>4, <1>6 DEF ScansLook
  <1>. QED
    BY <1>5, <1>6, <1>7, ScansAside

LEMMA ProposalsStep ==
    ASSUME ProposalsAssumption, ProposalInv, [PrNext]_prVars
    PROVE  ProposalInv'
  <1>1. ASSUME NEW s \in Scanners, ScanEnds(s) PROVE ProposalInv'
    <2>1. /\ scan' \in [Scanners -> ScanStates] /\ scan'[s].table = ""
          /\ \A r \in Scanners \ {s} : scan'[r] = scan[r]
          /\ UNCHANGED <<rows, sweep, repeats, lapses>>
      BY <1>1 DEF ScanEnds, NoScan, ProposalInv, ProposalRowsOK, ScanStates
    <2>. QED
      BY <2>1, ScansAside DEF ScansLook
  <1>2. CASE UNCHANGED prVars
    <2>1. scan' \in [Scanners -> ScanStates] /\ UNCHANGED <<rows, scan, sweep, repeats, lapses>>
      BY <1>2 DEF prVars, ProposalInv, ProposalRowsOK
    <2>. QED
      BY <2>1, ScansAside DEF ScansLook
  <1>. QED
    BY <1>1, <1>2, RequestStep, ScanReadsStep, ScanCreatesStep, CloseGoalStep, UserResolvesStep,
       SweepCreatesStep, SweepReadsStep, SweepResolvesStep, SweepFailsStep, PrCrashStep DEF PrNext

\* An opportunity becomes one goal, and one more each time a sweep took it out of
\* another's hands or its resolution failed or was lost after the goal was committed;
\* open titles repeat only by rows whose maker had not been shown them: for any number
\* of scans, sweeps, rows, failures and crashes, and any length of the list that is
\* read (orchestrator.promote_opportunities_sweep, workflows.discovery_scan).
THEOREM ProposalsHold ==
    ASSUME ProposalsAssumption
    PROVE  PrSpec => []ProposalsSound
  <1>1. PrInit => ProposalInv
    BY ProposalsInit
  <1>2. ProposalInv /\ [PrNext]_prVars => ProposalInv'
    BY ProposalsStep
  <1>3. ProposalInv => ProposalsSound
    <2>. SUFFICES ASSUME ProposalInv PROVE PrTypeOK /\ PromotedOnce /\ TitlesDistinct
      BY DEF ProposalsSound
    <2>0. /\ ProposalRowsOK
          /\ \A k \in Tables : rows[k] \in Seq(ProposalRows)
      BY DEF ProposalInv, ProposalRowsOK
    <2>1. PrTypeOK
      <3>1. \A k \in Tables : \A i \in DOMAIN rows[k] : rows[k][i] \in ProposalRows
        BY <2>0, Places
      <3>2. PICK n \in Nat : n = Len(rows["opportunity"]) /\ Opps = 1..n
        BY <2>0, Places DEF Opps, Tables
      <3>3. Opps \cup {0} \subseteq 0..Len(rows["opportunity"])
        BY <3>2, Wider
      <3>. QED
        BY <2>0, <3>1, <3>3 DEF PrTypeOK, ProposalRowsOK, ProposalRows
    <2>2. PromotedOnce
      <3>. SUFFICES ASSUME NEW o \in Opps PROVE Cardinality(Children(o)) <= 1 + lapses[o]
        BY DEF PromotedOnce, Opps, Children
      <3>1. PICK c \in Nat, n \in Nat, l \in Nat, s \in BOOLEAN :
                c = Cardinality(Children(o)) /\ n = Cardinality(Takers(o)) /\ l = lapses[o] /\ s = Spare(o)
        BY <2>0, PromotionFacts
      <3>2. Room(c, n, l, s)
        BY <3>1 DEF ProposalInv, PromotionInv, PromotionOf
      <3>3. c <= 1 + l
        BY <3>2 DEF Room
      <3>. QED
        BY <3>1, <3>3
    <2>3. TitlesDistinct
      BY DEF ProposalInv, RepeatsCounted, TitlesDistinct, Under
    <2>. QED
      BY <2>1, <2>2, <2>3
  <1>. QED
    BY <1>1, <1>2, <1>3, PTL DEF PrSpec
==============================================================================
