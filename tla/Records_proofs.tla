---------------------------- MODULE Records_proofs ----------------------------
(***************************************************************************)
(* The records that requests and jobs write together, identity facts, goals  *)
(* and their homes, the two caches a request may be answered from, settings  *)
(* by their age and recalls by the generation of their scope, the nodes of   *)
(* the knowledge graph, and what the studio makes of sketches and            *)
(* simulations.                                                              *)
(***************************************************************************)
EXTENDS Identity, Placement, Settings, RecallCache, KnowledgeGraph, Studio,
        FiniteSetTheorems, SequenceTheorems, WellFoundedInduction, TLAPS

-----------------------------------------------------------------------------
(* Why the strongest live fact of a predicate is never replaced by a weaker  *)
(* one, for any number of proposals: a proposal closes only what it read to  *)
(* be weaker, and what a conflict pass is about to close has, as long as     *)
(* nothing was invalidated, something above it that is live.                 *)

Row == [conf : Nat, live : BOOLEAN, by : Nat]
Rows == Seq(Row)

FactInv == fact \in Rows /\ dropped \in Nat /\ adrift \in Nat

\* What a proposal is about to close is a row weaker than itself.
ProposalInv ==
    /\ proposal \in [Proposers -> [at : {"idle", "write"}, conf : Nat, saw : Nat, rows : Nat]]
    /\ \A p \in Proposers : proposal[p].at = "write" /\ proposal[p].saw # 0 =>
            proposal[p].saw \in DOMAIN fact /\ proposal[p].conf > fact[proposal[p].saw].conf

\* Something live is above row i.
Covered(i) == \E y \in Live : Above(y, i)

\* What the pass is about to close is covered, unless a fact was invalidated since
\* it read.
PassInv ==
    /\ pass = [pairs |-> pass.pairs, since |-> pass.since]
    /\ pass.since \in 0..dropped
    /\ \A pair \in pass.pairs : pair[1] \in DOMAIN fact /\ pair[2] \in DOMAIN fact
    /\ dropped = pass.since => \A pair \in pass.pairs : Covered(pair[1])

IdInv == FactInv /\ ProposalInv /\ PassInv

\* What the type of the table says of it and of a row.
LEMMA Typed ==
    ASSUME NEW s \in Rows
    PROVE  /\ Len(s) \in Nat /\ DOMAIN s = 1..Len(s) /\ s \in [1..Len(s) -> Row]
           /\ \A i \in DOMAIN s : /\ i \in Nat \ {0} /\ s[i] \in Row
                                  /\ s[i].conf \in Nat /\ s[i].live \in BOOLEAN
  <1>1. Len(s) \in Nat /\ DOMAIN s = 1..Len(s) /\ s \in [1..Len(s) -> Row]
    BY DEF Rows
  <1>2. \A r \in Row : r.conf \in Nat /\ r.live \in BOOLEAN
    BY DEF Row
  <1>. QED
    BY <1>1, <1>2

\* A function from 1 to n into rows is such a table.
LEMMA IsTable ==
    ASSUME NEW n \in Nat, NEW f \in [1..n -> Row]
    PROVE  f \in Rows /\ Len(f) = n
  BY DEF Rows

\* Above is an order on the rows.
LEMMA AboveOrder ==
    ASSUME FactInv, NEW i \in DOMAIN fact, NEW j \in DOMAIN fact, NEW k \in DOMAIN fact
    PROVE  /\ ~Above(i, i)
           /\ Above(i, j) /\ Above(j, k) => Above(i, k)
  BY Typed DEF FactInv, Above

\* The INSERT and the UPDATE of propose_identity_fact.
LEMMA WriteEffect ==
    ASSUME IdInv, NEW p \in Proposers, WriteFact(p)
    PROVE  /\ fact' \in Rows /\ Len(fact') = Len(fact) + 1
           /\ \A i \in DOMAIN fact :
                /\ fact'[i].conf = fact[i].conf
                /\ fact'[i].live <=> fact[i].live /\ i # proposal[p].saw
           /\ fact'[Len(fact) + 1].conf = proposal[p].conf /\ fact'[Len(fact) + 1].live
  <1>. DEFINE kept == [i \in DOMAIN fact |->
                          IF Closes(i, p) THEN [fact[i] EXCEPT !.live = FALSE, !.by = Len(fact) + 1]
                          ELSE fact[i]]
              claim == [conf |-> proposal[p].conf, live |-> TRUE, by |-> 0]
  <1>1. fact' = Append(kept, claim)
    BY DEF WriteFact
  <1>2. fact \in Rows /\ proposal[p].conf \in Nat
    BY DEF IdInv, FactInv, ProposalInv
  <1>3. kept \in Rows /\ Len(kept) = Len(fact) /\ DOMAIN kept = DOMAIN fact
    <2>1. \A i \in 1..Len(fact) : kept[i] \in Row
      <3>. SUFFICES ASSUME NEW i \in 1..Len(fact) PROVE kept[i] \in Row
        OBVIOUS
      <3>1. i \in DOMAIN fact /\ fact[i] \in Row
        BY <1>2, Typed
      <3>2. Len(fact) + 1 \in Nat
        BY <1>2, Typed
      <3>3. CASE Closes(i, p)
        <4>1. kept[i] = [fact[i] EXCEPT !.live = FALSE, !.by = Len(fact) + 1]
          BY <3>1, <3>3
        <4>. QED
          BY <3>1, <3>2, <4>1 DEF Row
      <3>4. CASE ~Closes(i, p)
        BY <3>1, <3>4
      <3>. QED
        BY <3>3, <3>4
    <2>2. Len(fact) \in Nat /\ DOMAIN fact = 1..Len(fact)
      BY <1>2, Typed
    <2>3. kept \in [1..Len(fact) -> Row]
      BY <2>1, <2>2
    <2>. HIDE DEF kept
    <2>. QED
      BY <2>2, <2>3, IsTable
  <1>4. \A i \in DOMAIN fact : /\ kept[i].conf = fact[i].conf
                               /\ kept[i].live <=> fact[i].live /\ i # proposal[p].saw
    BY <1>2, Typed DEF Closes
  <1>5. claim \in Row /\ claim.conf = proposal[p].conf /\ claim.live
    BY <1>2 DEF Row
  <1>. HIDE DEF kept, claim
  <1>6. /\ fact' \in Rows /\ Len(fact') = Len(fact) + 1
        /\ \A i \in DOMAIN fact : fact'[i] = kept[i]
        /\ fact'[Len(fact) + 1] = claim
    BY <1>1, <1>2, <1>3, <1>5 DEF Rows
  <1>. QED
    BY <1>4, <1>5, <1>6

\* The UPDATE of the conflict pass, on a fact still live.
LEMMA ResolveEffect ==
    ASSUME IdInv, NEW pair \in pass.pairs, Resolves(pair)
    PROVE  /\ pair[1] \in DOMAIN fact
           /\ fact' \in Rows /\ DOMAIN fact' = DOMAIN fact
           /\ \A i \in DOMAIN fact :
                /\ fact'[i].conf = fact[i].conf
                /\ fact'[i].live <=> fact[i].live /\ i # pair[1]
  <1>1. fact \in Rows /\ pair[1] \in DOMAIN fact /\ pair[2] \in DOMAIN fact
    BY DEF IdInv, FactInv, PassInv
  <1>2. pair[2] \in Nat
    BY <1>1, Typed
  <1>3. CASE fact[pair[1]].live
    <2>. DEFINE claim == [fact[pair[1]] EXCEPT !.live = FALSE, !.by = pair[2]]
    <2>1. fact' = [fact EXCEPT ![pair[1]] = claim]
      BY <1>1, <1>3 DEF Resolves
    <2>2. /\ claim \in Row
          /\ claim.conf = fact[pair[1]].conf /\ ~claim.live
      <3>1. fact[pair[1]] \in Row
        BY <1>1, Typed
      <3>. QED
        BY <1>2, <3>1 DEF Row
    <2>. HIDE DEF claim
    <2>. QED
      BY <1>1, <2>1, <2>2, Typed, IsTable
  <1>4. CASE ~fact[pair[1]].live
    BY <1>1, <1>4 DEF Resolves
  <1>. QED
    BY <1>3, <1>4

LEMMA InitIdInv == IdInit => IdInv
  BY DEF IdInit, IdInv, FactInv, ProposalInv, PassInv, Rows, NoProposal

\* A row that was covered is covered after a step that keeps the confidences and
\* closes only rows below a live one.
LEMMA StaysCovered ==
    ASSUME FactInv, FactInv', DOMAIN fact \subseteq DOMAIN fact',
           \A i \in DOMAIN fact : fact'[i].conf = fact[i].conf,
           \A y \in Live : y \in Live' \/ \E z \in Live' : z \in DOMAIN fact' /\ Above(z, y)',
           NEW i \in DOMAIN fact, Covered(i)
    PROVE  Covered(i)'
  <1>1. PICK y \in Live : Above(y, i)
    BY DEF Covered
  <1>2. y \in DOMAIN fact /\ Above(y, i)'
    BY <1>1 DEF Live, Above
  <1>3. CASE y \in Live'
    BY <1>2, <1>3 DEF Covered
  <1>4. CASE y \notin Live'
    <2>1. PICK z \in Live' : z \in DOMAIN fact' /\ Above(z, y)'
      BY <1>1, <1>4
    <2>2. Above(z, i)'
      BY <1>2, <2>1, Typed DEF FactInv, Above
    <2>. QED
      BY <2>1, <2>2 DEF Covered
  <1>. QED
    BY <1>3, <1>4

LEMMA NextIdInv == IdInv /\ [IdNext]_idVars => IdInv'
  <1>. SUFFICES ASSUME IdInv, [IdNext]_idVars PROVE IdInv'
    OBVIOUS
  <1>. USE DEF IdInv
  <1>1. CASE ResolveReads
    <2>1. FactInv' /\ ProposalInv'
      BY <1>1 DEF ResolveReads, FactInv, ProposalInv
    <2>2. Live \subseteq DOMAIN fact /\ Live' = Live
      BY <1>1 DEF ResolveReads, Live
    <2>3. \A pair \in pass'.pairs :
            pair[1] \in DOMAIN fact /\ pair[2] \in Live /\ Above(pair[2], pair[1])'
      <3>1. \A pair \in pass'.pairs :
                /\ pair[1] \in Live /\ pair[2] \in Live
                /\ Above(pair[2], pair[1])
        BY <1>1 DEF ResolveReads
      <3>. QED
        BY <1>1, <2>2, <3>1 DEF ResolveReads, Above
    <2>4. pass'.since = dropped /\ dropped' = dropped
          /\ pass' = [pairs |-> pass'.pairs, since |-> pass'.since]
      BY <1>1 DEF ResolveReads
    <2>5. fact' = fact
      BY <1>1 DEF ResolveReads
    <2>6. \A pair \in pass'.pairs : Covered(pair[1])'
      BY <2>2, <2>3 DEF Covered
    <2>7. pass'.since \in 0..dropped' /\ DOMAIN fact' = DOMAIN fact
      BY <2>4, <2>5 DEF FactInv
    <2>. QED
      BY <2>1, <2>2, <2>3, <2>4, <2>6, <2>7 DEF PassInv
  <1>2. ASSUME NEW pair \in pass.pairs, Resolves(pair) PROVE IdInv'
    <2>1. FactInv'
      <3>1. adrift' \in Nat /\ dropped' \in Nat
        BY <1>2 DEF Resolves, FactInv
      <3>. QED
        BY <1>2, <3>1, ResolveEffect DEF FactInv
    <2>2. ProposalInv'
      BY <1>2, ResolveEffect DEF Resolves, ProposalInv
    <2>3. /\ pass'.pairs = pass.pairs \ {pair} /\ pass'.since = pass.since /\ dropped' = dropped
          /\ pass' = [pairs |-> pass'.pairs, since |-> pass'.since]
      <3>1. pass' = [pairs |-> pass.pairs \ {pair}, since |-> pass.since]
        BY <1>2 DEF Resolves, PassInv
      <3>. QED
        BY <1>2, <3>1 DEF Resolves
    <2>4. ASSUME dropped = pass.since, NEW other \in pass'.pairs PROVE Covered(other[1])'
      <3>1. other[1] \in DOMAIN fact /\ Covered(other[1]) /\ Covered(pair[1])
        BY <1>2, <2>3, <2>4 DEF PassInv
      <3>2. PICK z \in Live : Above(z, pair[1])
        BY <3>1 DEF Covered
      <3>3. z \in Live' /\ z \in DOMAIN fact' /\ Above(z, pair[1])'
        BY <1>2, <3>2, ResolveEffect, AboveOrder DEF Live, Above
      <3>4. \A y \in Live : y \in Live' \/ y = pair[1]
        BY <1>2, ResolveEffect DEF Live
      <3>. QED
        BY <1>2, <2>1, <3>1, <3>3, <3>4, ResolveEffect, StaysCovered
    <2>5. PassInv'
      <3>1. DOMAIN fact' = DOMAIN fact /\ pass'.since \in 0..dropped'
        BY <1>2, <2>3, ResolveEffect DEF PassInv
      <3>2. \A other \in pass'.pairs : other[1] \in DOMAIN fact' /\ other[2] \in DOMAIN fact'
        BY <2>3, <3>1 DEF PassInv
      <3>. QED
        BY <2>3, <2>4, <3>1, <3>2 DEF PassInv
    <2>. QED
      BY <2>1, <2>2, <2>5
  <1>3. ASSUME NEW p \in Proposers, WriteFact(p) PROVE IdInv'
    <2>0. PICK n : n = Len(fact) + 1
      OBVIOUS
    <2>1. DOMAIN fact = 1..Len(fact) /\ DOMAIN fact' = 1..n /\ Len(fact) \in Nat
      BY <1>3, <2>0, WriteEffect, Typed DEF FactInv
    <2>2. FactInv'
      BY <1>3, WriteEffect DEF WriteFact, FactInv
    <2>3. ProposalInv'
      <3>1. proposal' = [proposal EXCEPT ![p] = NoProposal]
        BY <1>3 DEF WriteFact
      <3>. QED
        BY <1>3, <2>0, <2>1, <3>1, WriteEffect DEF ProposalInv, NoProposal
    <2>4. pass' = pass /\ dropped' = dropped
      BY <1>3 DEF WriteFact
    <2>5. ASSUME NEW y \in Live, y \notin Live' PROVE n \in Live' /\ n \in DOMAIN fact' /\ Above(n, y)'
      <3>1. y \in DOMAIN fact /\ fact[y].live /\ y = proposal[p].saw
        BY <1>3, <2>0, <2>1, <2>5, WriteEffect DEF Live
      <3>2. proposal[p].conf > fact[y].conf
        <4>1. proposal[p].saw # 0
          BY <2>1, <3>1
        <4>2. proposal[p].at = "write"
          BY <1>3 DEF WriteFact
        <4>. QED
          BY <3>1, <4>1, <4>2 DEF ProposalInv
      <3>3. fact'[n].conf = proposal[p].conf /\ fact'[n].live /\ n \in DOMAIN fact'
        BY <1>3, <2>0, <2>1, WriteEffect
      <3>4. fact'[y].conf = fact[y].conf
        BY <1>3, <3>1, WriteEffect
      <3>. QED
        BY <3>2, <3>3, <3>4 DEF Live, Above
    <2>6. \A i \in DOMAIN fact : Covered(i) => Covered(i)'
      <3>1. DOMAIN fact \subseteq DOMAIN fact'
        BY <2>0, <2>1
      <3>2. \A i \in DOMAIN fact : fact'[i].conf = fact[i].conf
        BY <1>3, WriteEffect
      <3>. QED
        BY <2>2, <2>5, <3>1, <3>2, StaysCovered
    <2>7. PassInv'
      <3>1. DOMAIN fact \subseteq DOMAIN fact'
        BY <2>0, <2>1
      <3>. QED
        BY <2>4, <2>6, <3>1 DEF PassInv
    <2>. QED
      BY <2>2, <2>3, <2>7
  <1>4. ASSUME NEW p \in Proposers, NEW conf \in Confidences, ReadLive(p, conf) PROVE IdInv'
    <2>1. UNCHANGED <<fact, dropped, pass, adrift>>
      BY <1>4 DEF ReadLive
    <2>2. FactInv' /\ PassInv'
      BY <2>1 DEF FactInv, PassInv, Covered, Live, Above
    <2>3. PICK saw \in IF Live = {} THEN {0} ELSE Live :
            /\ saw # 0 => conf > fact[saw].conf
            /\ proposal' = [proposal EXCEPT ![p] =
                    [at |-> "write", conf |-> conf, saw |-> saw, rows |-> Len(fact)]]
      BY <1>4 DEF ReadLive
    <2>4. saw \in Nat /\ (saw # 0 => saw \in DOMAIN fact) /\ Len(fact) \in Nat /\ conf \in Nat
      BY <2>3, IdentityAssumption, Typed DEF Live, FactInv
    <2>. QED
      BY <2>1, <2>2, <2>3, <2>4 DEF ProposalInv
  <1>5. ASSUME NEW i \in DOMAIN fact, Drop(i) PROVE IdInv'
    <2>1. /\ fact' = [fact EXCEPT ![i] = [fact[i] EXCEPT !.live = FALSE]]
          /\ dropped' = dropped + 1 /\ UNCHANGED <<proposal, pass, adrift>>
      BY <1>5 DEF Drop
    <2>2. FactInv' /\ DOMAIN fact' = DOMAIN fact
          /\ \A j \in DOMAIN fact : fact'[j].conf = fact[j].conf
      <3>. DEFINE claim == [fact[i] EXCEPT !.live = FALSE]
      <3>1. claim \in Row /\ claim.conf = fact[i].conf
        <4>1. fact[i] \in Row
          BY Typed DEF FactInv
        <4>. QED
          BY <4>1 DEF Row
      <3>0. fact' = [fact EXCEPT ![i] = claim]
        BY <2>1
      <3>. HIDE DEF claim
      <3>2. fact' \in Rows /\ DOMAIN fact' = DOMAIN fact
        <4>1. Len(fact) \in Nat /\ DOMAIN fact = 1..Len(fact) /\ fact \in [1..Len(fact) -> Row]
          BY Typed DEF FactInv
        <4>2. fact' \in [1..Len(fact) -> Row]
          BY <3>0, <3>1, <4>1
        <4>. QED
          BY <4>1, <4>2, IsTable
      <3>3. dropped' \in Nat /\ adrift' \in Nat
        BY <2>1 DEF FactInv
      <3>. QED
        BY <3>0, <3>1, <3>2, <3>3 DEF FactInv
    <2>3. ProposalInv'
      BY <2>1, <2>2 DEF ProposalInv
    <2>4. PassInv'
      <3>1. dropped' # pass'.since /\ pass'.since \in 0..dropped'
        BY <2>1 DEF PassInv, FactInv
      <3>. QED
        BY <2>1, <2>2, <3>1 DEF PassInv
    <2>. QED
      BY <2>2, <2>3, <2>4
  <1>6. CASE UNCHANGED idVars
    BY <1>6 DEF idVars, FactInv, ProposalInv, PassInv, Covered, Live, Above
  <1>. QED
    BY <1>1, <1>2, <1>3, <1>4, <1>5, <1>6 DEF IdNext

\* One step: whatever is live, something as strong is live after it, or the step
\* is the counted exception.
LEMMA NextKeepsStrength ==
    ASSUME IdInv, [IdNext]_idVars, NEW x \in LiveConf(fact)
    PROVE  dropped' # dropped \/ adrift' # adrift \/ \E y \in LiveConf(fact') : y >= x
  <1>1. PICK j \in DOMAIN fact : fact[j].live /\ x = fact[j].conf
    BY DEF LiveConf
  <1>2. fact \in Rows /\ dropped \in Nat /\ adrift \in Nat /\ x \in Nat
    BY <1>1, Typed DEF IdInv, FactInv
  <1>3. CASE fact' = fact
    BY <1>2, <1>3
  <1>4. ASSUME NEW pair \in pass.pairs, Resolves(pair), fact[pair[1]].live
        PROVE  adrift' # adrift \/ \E y \in LiveConf(fact') : y >= x
    <2>1. CASE dropped # pass.since
      BY <1>2, <1>4, <2>1 DEF Resolves
    <2>2. CASE dropped = pass.since
      <3>1. PICK y \in Live : Above(y, pair[1])
        BY <1>4, <2>2 DEF IdInv, PassInv, Covered
      <3>2. y \in DOMAIN fact /\ fact'[y].live /\ fact'[y].conf = fact[y].conf
        BY <1>4, <3>1, ResolveEffect, AboveOrder DEF Live, IdInv
      <3>3. y \in DOMAIN fact' /\ fact[y].conf \in Nat
        BY <1>2, <1>4, <3>2, ResolveEffect, Typed
      <3>4. j = pair[1] => fact[y].conf >= x
        BY <1>1, <1>2, <3>1, <3>3 DEF Above
      <3>5. j # pair[1] => fact'[j].live /\ fact'[j].conf = x /\ j \in DOMAIN fact'
        BY <1>1, <1>4, ResolveEffect
      <3>. QED
        BY <1>2, <3>2, <3>3, <3>4, <3>5 DEF LiveConf
    <2>. QED
      BY <2>1, <2>2
  <1>5. ASSUME NEW p \in Proposers, WriteFact(p)
        PROVE  \E y \in LiveConf(fact') : y >= x
    <2>1. DOMAIN fact = 1..Len(fact) /\ DOMAIN fact' = 1..(Len(fact) + 1) /\ Len(fact) \in Nat
      BY <1>2, <1>5, WriteEffect, Typed
    <2>2. CASE j = proposal[p].saw
      <3>1. proposal[p].conf > x /\ proposal[p].conf \in Nat
        <4>1. proposal[p].saw # 0
          BY <1>1, <2>1, <2>2
        <4>2. proposal[p].at = "write"
          BY <1>5 DEF WriteFact
        <4>. QED
          BY <1>1, <2>2, <4>1, <4>2 DEF IdInv, ProposalInv
      <3>2. proposal[p].conf \in LiveConf(fact')
        BY <1>5, <2>1, WriteEffect DEF LiveConf
      <3>. QED
        BY <1>2, <3>1, <3>2
    <2>3. CASE j # proposal[p].saw
      <3>1. x \in LiveConf(fact')
        BY <1>1, <1>5, <2>1, <2>3, WriteEffect DEF LiveConf
      <3>. QED
        BY <1>2, <3>1
    <2>. QED
      BY <2>2, <2>3
  <1>6. ASSUME NEW i \in DOMAIN fact, Drop(i) PROVE dropped' # dropped
    BY <1>2, <1>6 DEF Drop
  <1>. QED
    BY <1>3, <1>4, <1>5, <1>6 DEF IdNext, idVars, ResolveReads, Resolves, ReadLive

\* What get_identity_context shows, the strongest live fact, gives way only to
\* something at least as strong, whatever proposals overlap and whenever the
\* conflict pass runs, invalidations aside.
THEOREM ContextHolds == IdSpec => ContextNeverWeakens
  <1>1. IdInv /\ [IdNext]_idVars =>
            [\A x \in LiveConf(fact) :
                dropped' # dropped \/ adrift' # adrift \/ \E y \in LiveConf(fact') : y >= x]_idVars
    BY NextKeepsStrength
  <1>. QED
    BY <1>1, InitIdInv, NextIdInv, PTL DEF IdSpec, ContextNeverWeakens

-----------------------------------------------------------------------------
(* Why goals keep their homes and find their directories there, for any      *)
(* number of goals, calls and projects: a project's row is inserted by one    *)
(* call, which makes the directories, dies or fails before it links; every    *)
(* other call that links has found the row.                                   *)

CallType == [at : {"idle", "area", "makeArea", "project", "makeProject", "tree", "link"},
             goal : Goals \cup {""}, title : Titles \cup {""}, new : BOOLEAN]

TypeInv ==
    /\ title \in [Goals -> Titles] /\ home \in [Goals -> SUBSET Places]
    /\ projects \in [Places -> SUBSET Goals]
    /\ placer \in [Placers -> CallType]
    /\ \A p \in Placers : placer[p].at # "idle" =>
            placer[p].goal \in Goals /\ placer[p].title \in Titles

\* The calls that have the row of their project: they found it, or inserted it.
RowKnown ==
    \A p \in Placers :
        placer[p].at \in {"tree", "link"} \/ (placer[p].at = "makeProject" /\ ~placer[p].new)
            => To(p) \in Created

\* Projects whose directories there are, or were given up, or are about to be made.
Served == trees \cup torn \cup {To(p) : p \in {q \in Placers : placer[q].at = "tree"}}

RowsServed == Created \subseteq Served
HomesCreated == \A g \in Goals : home[g] \subseteq Created

PlInv == TypeInv /\ RowKnown /\ RowsServed /\ HomesCreated

LEMMA InitPlInv == PlInit => PlInv
  <1>. SUFFICES ASSUME PlInit PROVE PlInv
    OBVIOUS
  <1>1. Rested \in CallType /\ Rested.at = "idle"
    BY DEF Rested, CallType
  <1>2. TypeInv /\ \A p \in Placers : placer[p].at = "idle"
    BY <1>1 DEF PlInit, TypeInv
  <1>3. Created = {} /\ \A g \in Goals : home[g] = {}
    BY DEF PlInit, Created
  <1>. QED
    BY <1>2, <1>3 DEF PlInv, RowKnown, RowsServed, HomesCreated

\* Where a call is headed is a place.
LEMMA Headed ==
    ASSUME TypeInv, NEW p \in Placers, placer[p].at # "idle"
    PROVE  To(p) \in Places
  BY DEF TypeInv, To, Places

\* A call's step that leaves what it is about alone leaves the others' errands alone.
LEMMA StepEffect ==
    ASSUME TypeInv, NEW p \in Placers, placer[p].at # "idle",
           NEW place \in {"idle", "area", "makeArea", "project", "makeProject", "tree", "link"},
           NEW new \in BOOLEAN,
           placer' = [placer EXCEPT ![p] = [placer[p] EXCEPT !.at = place, !.new = new]]
    PROVE  /\ placer' \in [Placers -> CallType]
           /\ \A q \in Placers : placer'[q].at # "idle" =>
                placer'[q].goal \in Goals /\ placer'[q].title \in Titles
           /\ \A q \in Placers : To(q)' = To(q)
           /\ placer'[p].at = place /\ placer'[p].new = new
           /\ \A q \in Placers \ {p} : placer'[q] = placer[q]
  <1>1. placer[p] \in CallType /\ placer[p].goal \in Goals /\ placer[p].title \in Titles
    BY DEF TypeInv
  <1>. DEFINE errand == [placer[p] EXCEPT !.at = place, !.new = new]
  <1>2. /\ errand \in CallType /\ errand.at = place /\ errand.new = new
        /\ errand.title = placer[p].title /\ errand.goal = placer[p].goal
    BY <1>1 DEF CallType
  <1>. HIDE DEF errand
  <1>3. placer' = [placer EXCEPT ![p] = errand]
    BY DEF errand
  <1>4. \A q \in Placers : placer'[q].title = placer[q].title
    BY <1>2, <1>3 DEF TypeInv
  <1>. QED
    BY <1>1, <1>2, <1>3, <1>4 DEF TypeInv, To

\* Step moves the call on and leaves what it found as it was.
LEMMA StepIs ==
    ASSUME TypeInv, NEW p \in Placers, NEW place, Step(p, place)
    PROVE  /\ placer[p].new \in BOOLEAN
           /\ placer' = [placer EXCEPT ![p] = [placer[p] EXCEPT !.at = place, !.new = placer[p].new]]
  <1>1. placer[p] \in CallType
    BY DEF TypeInv
  <1>2. [placer[p] EXCEPT !.at = place] = [placer[p] EXCEPT !.at = place, !.new = placer[p].new]
    BY <1>1 DEF CallType
  <1>3. placer' = [placer EXCEPT ![p] = [placer[p] EXCEPT !.at = place]]
    BY DEF Step
  <1>. QED
    BY <1>1, <1>2, <1>3 DEF CallType

LEMMA NextPlInv == PlInv /\ [PlNext]_plVars => PlInv'
  <1>. SUFFICES ASSUME PlInv, [PlNext]_plVars PROVE PlInv'
    OBVIOUS
  <1>. USE DEF PlInv
  <1>1. ASSUME NEW p \in Placers, NEW g \in Goals, Reads(p, g) PROVE PlInv'
    <2>. DEFINE errand == [at |-> "area", goal |-> g, title |-> title[g], new |-> FALSE]
    <2>1. placer' = [placer EXCEPT ![p] = errand] /\ placer[p].at = "idle"
          /\ UNCHANGED <<title, home, areas, projects, trees, torn>>
      BY <1>1 DEF Reads
    <2>2. errand \in CallType /\ errand.at = "area" /\ errand.goal \in Goals /\ errand.title \in Titles
      BY DEF CallType, TypeInv
    <2>. HIDE DEF errand
    <2>3. \A q \in Placers : q # p => placer'[q] = placer[q] /\ To(q)' = To(q)
      BY <2>1 DEF TypeInv, To
    <2>4. placer'[p] = errand
      BY <2>1 DEF TypeInv
    <2>5. TypeInv'
      BY <2>1, <2>2, <2>3, <2>4 DEF TypeInv
    <2>6. Created' = Created /\ Served \subseteq Served'
      BY <2>1, <2>3 DEF Created, Served
    <2>. QED
      BY <2>1, <2>2, <2>3, <2>4, <2>5, <2>6 DEF RowKnown, RowsServed, HomesCreated
  <1>2. ASSUME NEW p \in Placers, FindArea(p) \/ MakeArea(p) \/ FindProject(p) PROVE PlInv'
    <2>1. PICK place \in {"idle", "makeArea", "project", "makeProject"}, new \in BOOLEAN :
            /\ placer' = [placer EXCEPT ![p] = [placer[p] EXCEPT !.at = place, !.new = new]]
            /\ place = "makeProject" => new = (To(p) \notin Created)
      <3>1. CASE FindArea(p)
        BY <3>1 DEF FindArea, TypeInv, CallType
      <3>2. CASE MakeArea(p)
        <4>1. PICK place \in {"idle", "project"} : Step(p, place)
          BY <3>2 DEF MakeArea
        <4>2. /\ placer[p].new \in BOOLEAN
              /\ placer' = [placer EXCEPT ![p] =
                        [placer[p] EXCEPT !.at = place, !.new = placer[p].new]]
          BY <4>1, StepIs
        <4>. QED
          BY <4>1, <4>2
      <3>3. CASE FindProject(p)
        BY <3>3 DEF FindProject, TypeInv, CallType
      <3>. QED
        BY <1>2, <3>1, <3>2, <3>3
    <2>2. /\ UNCHANGED <<title, home, projects, trees, torn>>
          /\ placer[p].at \in {"area", "makeArea", "project"}
      BY <1>2 DEF FindArea, MakeArea, FindProject
    <2>3. /\ TypeInv'
          /\ \A q \in Placers : To(q)' = To(q)
          /\ placer'[p].at = place /\ placer'[p].new = new
          /\ \A q \in Placers \ {p} : placer'[q] = placer[q]
      BY <2>1, <2>2, StepEffect DEF TypeInv
    <2>4. Created' = Created /\ Served \subseteq Served'
      BY <2>2, <2>3 DEF Created, Served
    <2>5. RowKnown'
      BY <2>1, <2>2, <2>3, <2>4 DEF RowKnown
    <2>. QED
      BY <2>2, <2>3, <2>4, <2>5 DEF RowsServed, HomesCreated
  <1>3. ASSUME NEW p \in Placers, MakeProject(p) PROVE PlInv'
    <2>1. PICK place \in {"idle", "link", "tree"} :
            /\ placer' = [placer EXCEPT ![p] = [placer[p] EXCEPT !.at = place, !.new = placer[p].new]]
            /\ \/ UNCHANGED projects /\ (place = "idle" \/ (place = "link" /\ ~placer[p].new))
               \/ place = "tree" /\ projects' = [projects EXCEPT ![To(p)] = {placer[p].goal}]
      <3>1. PICK place \in {"idle", "link", "tree"} :
              /\ Step(p, place)
              /\ \/ UNCHANGED projects /\ (place = "idle" \/ (place = "link" /\ ~placer[p].new))
                 \/ place = "tree" /\ projects' = [projects EXCEPT ![To(p)] = {placer[p].goal}]
        BY <1>3 DEF MakeProject
      <3>. QED
        BY <3>1, StepIs
    <2>2. /\ UNCHANGED <<title, home, trees, torn>>
          /\ placer[p].at = "makeProject"
      BY <1>3 DEF MakeProject
    <2>3. /\ placer' \in [Placers -> CallType]
          /\ \A q \in Placers : placer'[q].at # "idle" =>
                placer'[q].goal \in Goals /\ placer'[q].title \in Titles
          /\ \A q \in Placers : To(q)' = To(q)
          /\ placer'[p].at = place
          /\ \A q \in Placers \ {p} : placer'[q] = placer[q]
      <3>1. placer[p].new \in BOOLEAN
        BY DEF TypeInv, CallType
      <3>. QED
        BY <2>1, <2>2, <3>1, StepEffect
    <2>4. Served \subseteq Served'
      BY <2>2, <2>3 DEF Served
    <2>5. CASE place # "tree"
      <3>1. TypeInv' /\ Created' = Created
        BY <2>1, <2>2, <2>3, <2>5 DEF TypeInv, Created
      <3>2. RowKnown'
        BY <2>1, <2>2, <2>3, <2>5, <3>1 DEF RowKnown
      <3>. QED
        BY <2>2, <2>4, <3>1, <3>2 DEF RowsServed, HomesCreated
    <2>6. CASE place = "tree"
      <3>1. To(p) \in Places /\ placer[p].goal \in Goals
        BY <2>2, Headed DEF TypeInv
      <3>2. TypeInv' /\ Created' = Created \cup {To(p)}
        <4>1. projects' = [projects EXCEPT ![To(p)] = {placer[p].goal}]
          BY <2>1, <2>6
        <4>2. projects' \in [Places -> SUBSET Goals]
          BY <3>1, <4>1 DEF TypeInv
        <4>3. Created' = Created \cup {To(p)}
          BY <3>1, <4>1 DEF TypeInv, Created
        <4>. QED
          BY <2>2, <2>3, <4>2, <4>3 DEF TypeInv
      <3>3. To(p) \in Served'
        BY <2>3, <2>6 DEF Served
      <3>4. RowKnown'
        BY <2>2, <2>3, <2>6, <3>2 DEF RowKnown
      <3>. QED
        BY <2>2, <2>4, <3>2, <3>3, <3>4 DEF RowsServed, HomesCreated
    <2>. QED
      BY <2>5, <2>6
  <1>4. ASSUME NEW p \in Placers, MakeTree(p) \/ TreeFails(p) PROVE PlInv'
    <2>1. PICK place \in {"idle", "link"} :
            placer' = [placer EXCEPT ![p] = [placer[p] EXCEPT !.at = place, !.new = placer[p].new]]
      <3>1. PICK place \in {"idle", "link"} : Step(p, place)
        BY <1>4 DEF MakeTree, TreeFails
      <3>. QED
        BY <3>1, StepIs
    <2>2. /\ UNCHANGED <<title, home, projects>>
          /\ placer[p].at = "tree"
          /\ trees \cup torn \cup {To(p)} \subseteq trees' \cup torn'
      BY <1>4 DEF MakeTree, TreeFails
    <2>3. /\ TypeInv'
          /\ \A q \in Placers : To(q)' = To(q)
          /\ placer'[p].at = place
          /\ \A q \in Placers \ {p} : placer'[q] = placer[q]
      <3>1. placer[p].new \in BOOLEAN
        BY DEF TypeInv, CallType
      <3>. QED
        BY <2>1, <2>2, <3>1, StepEffect DEF TypeInv
    <2>4. Created' = Created /\ Served \subseteq Served'
      BY <2>2, <2>3 DEF Created, Served
    <2>5. To(p) \in Created
      BY <2>2 DEF RowKnown
    <2>. QED
      BY <2>2, <2>3, <2>4, <2>5 DEF RowKnown, RowsServed, HomesCreated
  <1>5. ASSUME NEW p \in Placers, LinkGoal(p) PROVE PlInv'
    <2>1. /\ UNCHANGED <<title, projects, trees, torn>>
          /\ placer[p].at = "link" /\ placer' = [placer EXCEPT ![p] = Rested]
          /\ home' = [home EXCEPT ![placer[p].goal] = Linked(p, placer[p].goal)]
      BY <1>5 DEF LinkGoal
    <2>2. placer[p].goal \in Goals /\ To(p) \in Created /\ To(p) \in Places
      BY <2>1, Headed DEF TypeInv, RowKnown
    <2>3. Rested \in CallType /\ Rested.at = "idle"
      BY DEF Rested, CallType
    <2>4. \A q \in Placers : q # p => placer'[q] = placer[q] /\ To(q)' = To(q)
      BY <2>1 DEF TypeInv, To
    <2>5. placer'[p].at = "idle"
      BY <2>1, <2>3 DEF TypeInv
    <2>6. TypeInv'
      <3>1. home' \in [Goals -> SUBSET Places]
        BY <2>1, <2>2 DEF TypeInv, Linked
      <3>2. placer' \in [Placers -> CallType]
        BY <2>1, <2>3 DEF TypeInv
      <3>. QED
        BY <2>1, <2>4, <2>5, <3>1, <3>2 DEF TypeInv
    <2>7. Created' = Created /\ Served \subseteq Served'
      BY <2>1, <2>4 DEF Created, Served
    <2>8. HomesCreated'
      BY <2>1, <2>2, <2>7 DEF HomesCreated, TypeInv, Linked
    <2>9. RowKnown'
      BY <2>4, <2>5, <2>7 DEF RowKnown
    <2>. QED
      BY <2>6, <2>7, <2>8, <2>9 DEF RowsServed
  <1>6. ASSUME NEW g \in Goals, NEW t \in Titles, Retitle(g, t) PROVE PlInv'
    BY <1>6 DEF Retitle, TypeInv, RowKnown, RowsServed, HomesCreated, Created, Served, To
  <1>7. CASE PlCrash
    <2>1. /\ UNCHANGED <<title, home, projects, trees>>
          /\ placer' = [p \in Placers |-> Rested]
          /\ torn' = torn \cup {To(p) : p \in {q \in Placers : placer[q].at = "tree"}}
      BY <1>7 DEF PlCrash
    <2>2. Rested \in CallType /\ Rested.at = "idle"
      BY DEF Rested, CallType
    <2>3. placer' \in [Placers -> CallType] /\ \A p \in Placers : placer'[p].at = "idle"
      BY <2>1, <2>2
    <2>4. Created' = Created /\ Served \subseteq Served'
      BY <2>1 DEF Created, Served
    <2>. QED
      BY <2>1, <2>3, <2>4 DEF TypeInv, RowKnown, RowsServed, HomesCreated
  <1>8. CASE UNCHANGED plVars
    BY <1>8 DEF plVars, TypeInv, RowKnown, RowsServed, HomesCreated, Created, Served, To
  <1>. QED
    BY <1>1, <1>2, <1>3, <1>4, <1>5, <1>6, <1>7, <1>8 DEF PlNext

\* Only LinkGoal touches a home, and only where there is none.
LEMMA NextHomes ==
    ASSUME PlInv, [PlNext]_plVars, NEW g \in Goals, home[g] # {}
    PROVE  home'[g] = home[g]
  <1>1. ASSUME NEW p \in Placers, LinkGoal(p) PROVE home'[g] = home[g]
    BY <1>1 DEF LinkGoal, Linked, PlInv, TypeInv
  <1>. QED
    BY <1>1 DEF PlNext, plVars, Reads, FindArea, MakeArea, FindProject, MakeProject,
                MakeTree, TreeFails, Retitle, PlCrash

\* A goal's project never changes once it has one, however many dispatches place
\* it at once and whatever it is renamed to (UPDATE ... WHERE project_id IS NULL);
\* and the directories a worker is started in are there, or the call that inserted
\* the row is about to make them, or it died or failed between the two.
THEOREM HomesHold == PlSpec => HomesSound
  <1>1. PlInv /\ [PlNext]_plVars => [\A g \in Goals : home[g] # {} => home'[g] = home[g]]_plVars
    BY NextHomes
  <1>2. PlInv => HomesExist
    BY DEF PlInv, HomesCreated, RowsServed, Served, HomesExist
  <1>. QED
    BY <1>1, <1>2, InitPlInv, NextPlInv, PTL DEF PlSpec, HomesStay, HomesSound

-----------------------------------------------------------------------------
(* Why a cached setting is never older than _CACHE_TTL, for any number of    *)
(* readers and any TTL: what an entry says was true at its stamp or later,   *)
(* and the past is only added to.                                            *)

\* v was the setting's value at some time from s up to now.
HeldSince(s, v) == \E t \in s..today : v \in past[t]

\* The clock and the history: the stored value is that of today and of every
\* later time until it changes.
ClockInv ==
    /\ today \in 0..MaxTime /\ stored \in Nat
    /\ past \in [0..MaxTime -> SUBSET Nat]
    /\ \A t \in today..MaxTime : stored \in past[t]

\* A read in progress knows when it began, and after its query a value that was
\* the setting's since then.
TaskInv ==
    /\ task \in [Tasks -> [at : {"idle", "query", "keep", "answered"}, from : Nat, val : Nat]]
    /\ \A k \in Tasks :
        /\ task[k].from <= today
        /\ task[k].at = "keep" => HeldSince(task[k].from, task[k].val)

EntryInv == \A e \in entry : e.stamp \in 0..today /\ e.val \in Nat /\ HeldSince(e.stamp, e.val)

SetInv == ClockInv /\ TaskInv /\ EntryInv

\* The empty cache of a new process.
LEMMA InitSetInv == SetInit => SetInv
  <1>. SUFFICES ASSUME SetInit PROVE SetInv
    OBVIOUS
  <1>1. ClockInv
    BY SettingsAssumption DEF SetInit, ClockInv
  <1>2. TaskInv
    BY DEF SetInit, TaskInv, Idle
  <1>3. EntryInv
    BY DEF SetInit, EntryInv
  <1>. QED
    BY <1>1, <1>2, <1>3 DEF SetInv

\* get_setting_cached and set_setting keep it, step by step.
LEMMA NextSetInv == SetInv /\ [SetNext]_setVars => SetInv'
  <1>. SUFFICES ASSUME SetInv, [SetNext]_setVars PROVE SetInv'
    OBVIOUS
  <1>. USE SettingsAssumption DEF SetInv, ClockInv, TaskInv, EntryInv, HeldSince
  <1>1. ASSUME NEW k \in Tasks, Asks(k) PROVE SetInv'
    <2>1. UNCHANGED <<stored, past, entry, today>>
      BY <1>1 DEF Asks
    <2>2. \E r \in [at : {"query", "answered"}, from : {today}, val : Nat] :
            task' = [task EXCEPT ![k] = r]
      <3>1. CASE \E e \in entry : today - e.stamp < TTL
        BY <1>1, <3>1 DEF Asks
      <3>2. CASE ~ \E e \in entry : today - e.stamp < TTL
        BY <1>1, <3>2 DEF Asks
      <3>. QED
        BY <3>1, <3>2
    <2>. QED
      BY <2>1, <2>2
  <1>2. ASSUME NEW k \in Tasks, Queries(k) PROVE SetInv'
    <2>1. HeldSince(task[k].from, stored)
      <3>1. today \in task[k].from..today /\ stored \in past[today]
        OBVIOUS
      <3>. QED
        BY <3>1
    <2>. QED
      BY <1>2, <2>1 DEF Queries
  <1>3. ASSUME NEW k \in Tasks, Keeps(k) PROVE SetInv'
    <2>1. UNCHANGED <<past, today, stored>>
      BY <1>3 DEF Keeps
    <2>2. TaskInv'
      <3>. DEFINE r == [task[k] EXCEPT !.at = "answered", !.from = today]
      <3>1. task' = [task EXCEPT ![k] = r]
        BY <1>3 DEF Keeps
      <3>2. r \in [at : {"answered"}, from : {today}, val : Nat]
        OBVIOUS
      <3>. HIDE DEF r
      <3>. QED
        BY <2>1, <3>1, <3>2
    <2>3. EntryInv'
      BY <1>3, <2>1 DEF Keeps, Stamp
    <2>. QED
      BY <2>1, <2>2, <2>3
  <1>4. CASE Commits
    <2>1. /\ today' = today /\ task' = task /\ entry' = entry /\ stored' = stored + 1
          /\ past' = [t \in 0..MaxTime |-> IF t < today THEN past[t]
                         ELSE IF t = today THEN past[t] \cup {stored'} ELSE {stored'}]
      BY <1>4 DEF Commits
    <2>2. ClockInv'
      BY <2>1
    <2>3. \A t \in 0..today : past[t] \subseteq past'[t]
      BY <2>1
    <2>4. ASSUME NEW s \in Nat, NEW v, HeldSince(s, v) PROVE HeldSince(s, v)'
      BY <2>1, <2>3, <2>4
    <2>5. TaskInv'
      BY <2>1, <2>4
    <2>6. EntryInv'
      BY <2>1, <2>4
    <2>. QED
      BY <2>2, <2>5, <2>6
  <1>5. CASE Drops
    BY <1>5 DEF Drops
  <1>6. CASE Tick
    <2>1. /\ today' = today + 1 /\ today' \in 0..MaxTime
          /\ UNCHANGED <<stored, past, task, entry>>
      BY <1>6 DEF Tick
    <2>2. ASSUME NEW s \in Nat, NEW v, HeldSince(s, v) PROVE HeldSince(s, v)'
      BY <2>1, <2>2
    <2>. QED
      BY <2>1, <2>2
  <1>7. CASE UNCHANGED setVars
    BY <1>7 DEF setVars
  <1>. QED
    BY <1>1, <1>2, <1>3, <1>4, <1>5, <1>6, <1>7 DEF SetNext

\* A value the cache answers with was the stored one less than _CACHE_TTL ago,
\* also when a read that overlaps set_setting puts the old value back after
\* invalidate_cache.
THEOREM SettingFresh == SetSpec => []FreshWithinTTL
  <1>1. SetInv => FreshWithinTTL
    BY DEF SetInv, EntryInv, HeldSince, FreshWithinTTL
  <1>. QED
    BY <1>1, InitSetInv, NextSetInv, PTL DEF SetSpec

-----------------------------------------------------------------------------
(* Why a recall misses nothing that was known before it began, for any number *)
(* of memories, recalls and failures of Redis: what recalls owe, by the        *)
(* generation they read, is what the entries under it hold.                   *)

LEMMA RecallFacts ==
    /\ Resting.at = "idle" /\ Resting.missed = {} /\ Resting.since = {}
    /\ RecallAssumption => Resting \in Recalls /\ 0 \in Gens /\ Gens \subseteq Nat
    /\ Sure \subseteq Recallable /\ Sure \subseteq Answering
    /\ \A m \in Mems : m \in Answering \ unbumped /\ m \in Recallable => m \in Sure
  <1>1. Resting.at = "idle" /\ Resting.missed = {} /\ Resting.since = {}
    BY DEF Resting
  <1>2. ASSUME RecallAssumption PROVE Resting \in Recalls /\ 0 \in Gens /\ Gens \subseteq Nat
    <2>1. Cardinality(Mems) \in Nat
      BY <1>2, FS_CardinalityType DEF RecallAssumption
    <2>. QED
      BY <2>1 DEF Resting, Recalls, Gens
  <1>. QED
    BY <1>1, <1>2 DEF Sure, Recallable, Answering

LEMMA RecallInitInv == RecallAssumption /\ RCInit => RecallInv
  <1>. SUFFICES ASSUME RecallAssumption, RCInit PROVE RecallInv
    OBVIOUS
  <1>1. /\ \A r \in Readers : reader[r] = Resting
        /\ reader \in [Readers -> Recalls] /\ cached \in [Gens -> SUBSET SUBSET Mems]
        /\ \A g \in Gens : cached[g] = {}
    BY RecallFacts DEF RCInit, NoEntry
  <1>2. gen = 0 /\ 0 \in Gens /\ unbumped = {} /\ revived = {} /\ Answering = {}
    BY RecallFacts DEF RCInit, Answering
  <1>3. Fresh = {} /\ Seeing = {} /\ Cardinality(Answering) = 0
    BY <1>1, <1>2, RecallFacts, FS_EmptySet DEF Fresh, Seeing
  <1>4. RCTypeOK
    BY <1>1, <1>2 DEF RCTypeOK, RCInit, Recalls
  <1>. QED
    BY <1>1, <1>2, <1>3, <1>4, RecallFacts
       DEF RecallInv, NothingMissed, GensCounted, OwesAgree, EntriesServe, NoEntry, Sure

\* A memory's step: committed, answered (bumped or not), or hidden.
LEMMA MemoryStep ==
    ASSUME RecallAssumption, RecallInv, NEW m \in Mems, Ingest(m) \/ Bump(m) \/ Hide(m)
    PROVE  RecallInv'
  <1>0. RCTypeOK /\ NothingMissed /\ GensCounted /\ OwesAgree /\ EntriesServe
    BY DEF RecallInv
  <1>1. /\ UNCHANGED <<cached, reader, revived>> /\ Fresh' = Fresh /\ Seeing' = Seeing
        /\ row' \in [Mems -> {"none", "ingesting", "known", "hidden"}]
        /\ unbumped \subseteq unbumped' /\ unbumped' \subseteq unbumped \cup {m}
        /\ \A n \in Mems \ {m} : row'[n] = row[n]
    BY <1>0 DEF Ingest, Bump, Hide, RCTypeOK, Fresh, Seeing
  <1>2. \/ row[m] = "none" /\ row'[m] = "ingesting" /\ UNCHANGED <<gen, unbumped>>
        \/ row[m] = "ingesting" /\ row'[m] = "known" /\ gen' = gen + 1 /\ UNCHANGED unbumped
        \/ row[m] = "ingesting" /\ row'[m] = "known" /\ UNCHANGED gen /\ unbumped' = unbumped \cup {m}
        \/ row[m] = "known" /\ row'[m] = "hidden" /\ UNCHANGED <<gen, unbumped>>
    BY <1>0 DEF Ingest, Bump, Hide, RCTypeOK, Bumped
  <1>3. /\ Answering \subseteq Answering' /\ Answering \ unbumped \subseteq Answering' \ unbumped'
        /\ Recallable' \subseteq Recallable \cup {m}
        /\ m \notin Answering => Answering' \subseteq Answering \cup {m}
    BY <1>1, <1>2 DEF Answering, Recallable
  <1>4. IsFiniteSet(Answering) /\ IsFiniteSet(Answering') /\ Cardinality(Mems) \in Nat
        /\ Cardinality(Answering) \in Nat /\ Cardinality(Answering') \in Nat
        /\ Cardinality(Answering') <= Cardinality(Mems)
    <2>1. IsFiniteSet(Mems) /\ Answering \subseteq Mems /\ Answering' \subseteq Mems
      BY DEF RecallAssumption, Answering
    <2>. QED
      BY <2>1, FS_Subset, FS_CardinalityType
  <1>5. gen' <= Cardinality(Answering') /\ gen' \in Gens /\ gen <= gen'
    <2>1. gen \in Nat /\ gen <= Cardinality(Answering)
      BY <1>0, RecallFacts DEF RCTypeOK, GensCounted
    <2>2. CASE gen' = gen + 1
      <3>1. m \notin Answering /\ Answering' = Answering \cup {m}
        BY <1>1, <1>2, <2>1, <2>2 DEF Answering
      <3>2. Cardinality(Answering') = Cardinality(Answering) + 1
        BY <1>4, <3>1, FS_AddElement
      <3>. QED
        BY <1>4, <2>1, <2>2, <3>2 DEF Gens
    <2>3. CASE gen' = gen
      <3>1. Cardinality(Answering) <= Cardinality(Answering')
        BY <1>3, <1>4, FS_Subset
      <3>. QED
        BY <1>0, <1>4, <2>1, <2>3, <3>1 DEF RCTypeOK
    <2>. QED
      BY <1>2, <2>2, <2>3
  <1>6. /\ Recallable' \cap Answering \subseteq Recallable
        /\ \/ Sure' \subseteq Sure /\ gen' = gen
           \/ gen' = gen + 1
    BY <1>1, <1>2 DEF Recallable, Answering, Sure
  <1>7. GensCounted' /\ RCTypeOK' /\ NothingMissed'
    <2>1. \A r \in Fresh : reader[r].gen <= gen'
      <3>1. gen \in Nat /\ gen' \in Nat /\ \A r \in Fresh : reader[r].gen \in Nat
        BY <1>0, <1>5, RecallFacts DEF RCTypeOK, Fresh, Seeing
      <3>. QED
        BY <1>0, <1>5, <3>1 DEF GensCounted
    <2>2. \A g \in Gens \ revived : g > gen' => cached[g] = NoEntry
      <3>1. gen \in Nat /\ gen' \in Nat /\ Gens \subseteq Nat
        BY <1>0, <1>5, RecallFacts DEF RCTypeOK
      <3>. QED
        BY <1>0, <1>5, <3>1 DEF GensCounted
    <2>. QED
      BY <1>0, <1>1, <1>5, <2>1, <2>2 DEF GensCounted, RCTypeOK, NothingMissed
  <1>8. OwesAgree'
    <2>1. \A r \in Readers : reader[r].since \subseteq Answering \ unbumped
      BY <1>0 DEF OwesAgree
    <2>2. \A r \in Readers : reader[r].since \cap Recallable' \subseteq reader[r].since \cap Recallable
      BY <1>6, <2>1
    <2>3. \A r \in Fresh : reader[r].gen = gen' => Sure' \subseteq reader[r].since
      <3>1. gen \in Nat /\ \A r \in Fresh : reader[r].gen \in Nat /\ reader[r].gen <= gen
        BY <1>0, <1>5, RecallFacts DEF RCTypeOK, Fresh, Seeing, GensCounted
      <3>. QED
        BY <1>0, <1>6, <3>1 DEF OwesAgree
    <2>4. Fresh \subseteq Readers /\ Seeing \subseteq Readers
      BY DEF Fresh, Seeing
    <2>. QED
      BY <1>0, <1>1, <1>3, <2>1, <2>2, <2>3, <2>4 DEF OwesAgree
  <1>9. EntriesServe'
    <2>1. \A r \in Readers : reader[r].since \cap Recallable' \subseteq reader[r].since \cap Recallable
      BY <1>0, <1>6 DEF OwesAgree
    <2>2. ASSUME NEW g \in Gens \ revived, NEW ms \in cached[g], g = gen'
          PROVE  Sure' \subseteq ms
      <3>1. CASE gen' = gen + 1
        <4>1. gen \in Nat /\ gen + 1 > gen
          BY <1>0, RecallFacts DEF RCTypeOK
        <4>. QED
          BY <1>0, <2>2, <3>1, <4>1 DEF GensCounted, NoEntry
      <3>2. CASE gen' = gen /\ Sure' \subseteq Sure
        BY <1>0, <2>2, <3>2 DEF EntriesServe
      <3>. QED
        BY <1>6, <3>1, <3>2
    <2>3. Fresh \subseteq Readers /\ Seeing \subseteq Readers
      BY DEF Fresh, Seeing
    <2>. QED
      BY <1>0, <1>1, <2>1, <2>2, <2>3 DEF EntriesServe
  <1>. QED
    BY <1>7, <1>8, <1>9 DEF RecallInv

\* The records a recall's step makes.
LEMMA RecallRecords ==
    ASSUME RecallAssumption
    PROVE  /\ \A t \in Recalls, a \in {"lookup", "dense", "sparse", "store"} : [t EXCEPT !.at = a] \in Recalls
           /\ \A t \in Recalls, ms \in SUBSET Mems :
                 /\ [t EXCEPT !.at = "sparse", !.got = ms] \in Recalls
                 /\ [t EXCEPT !.at = "store", !.got = t.got \cup ms] \in Recalls
                 /\ [Resting EXCEPT !.missed = ms] \in Recalls
           /\ \A t \in Recalls, b \in BOOLEAN : [t EXCEPT !.old = b] \in Recalls
  BY RecallFacts DEF Recalls, Resting

\* A recall rests: it owes nothing more.
LEMMA RecallEnds ==
    ASSUME RecallAssumption, RecallInv, NEW r \in Readers, UNCHANGED <<row, gen, unbumped>>,
           NEW missed, missed = {},
           reader' = [reader EXCEPT ![r] = [Resting EXCEPT !.missed = missed]]
    PROVE  /\ NothingMissed' /\ OwesAgree' /\ reader' \in [Readers -> Recalls]
           /\ Fresh' = Fresh \ {r} /\ Seeing' = Seeing \ {r}
           /\ \A q \in Readers \ {r} : reader'[q] = reader[q]
           /\ Recallable' = Recallable /\ Answering' = Answering /\ Sure' = Sure
  <1>0. RCTypeOK /\ NothingMissed /\ GensCounted /\ OwesAgree /\ reader \in [Readers -> Recalls]
    BY DEF RecallInv, GensCounted
  <1>1. /\ reader'[r].at = "idle" /\ reader'[r].missed = {} /\ reader'[r].since = {}
        /\ \A q \in Readers \ {r} : reader'[q] = reader[q]
        /\ reader' \in [Readers -> Recalls]
    BY <1>0, RecallRecords DEF Resting
  <1>2. Recallable' = Recallable /\ Answering' = Answering /\ Sure' = Sure
    BY DEF Recallable, Answering, Sure
  <1>3. Fresh' = Fresh \ {r} /\ Seeing' = Seeing \ {r}
    BY <1>1 DEF Fresh, Seeing
  <1>4. Fresh \subseteq Readers /\ Seeing \subseteq Readers
    BY DEF Fresh, Seeing
  <1>. QED
    BY <1>0, <1>1, <1>2, <1>3, <1>4 DEF OwesAgree, NothingMissed

\* A recall goes on to a place further on, with the same key and debts.
LEMMA RecallGoesOn ==
    ASSUME RecallAssumption, RecallInv, NEW r \in Readers, reader[r].at # "idle",
           UNCHANGED <<row, gen, unbumped, cached, revived>>,
           NEW t \in Recalls, reader' = [reader EXCEPT ![r] = t],
           t.at # "idle", t.gen = reader[r].gen, t.since = reader[r].since, t.blind = reader[r].blind,
           t.old = reader[r].old, t.missed = reader[r].missed,
           t.at = "store" => t.since \cap Recallable \subseteq t.got
    PROVE  RecallInv'
  <1>0. /\ RCTypeOK /\ NothingMissed /\ GensCounted /\ OwesAgree /\ EntriesServe
        /\ reader \in [Readers -> Recalls]
    BY DEF RecallInv, GensCounted
  <1>1. /\ reader'[r] = t /\ \A q \in Readers \ {r} : reader'[q] = reader[q]
        /\ reader' \in [Readers -> Recalls]
    BY <1>0
  <1>2. Recallable' = Recallable /\ Answering' = Answering /\ Sure' = Sure
    BY DEF Recallable, Answering, Sure
  <1>3. Fresh' = Fresh /\ Seeing' = Seeing
    BY <1>1 DEF Fresh, Seeing
  <1>4. Fresh \subseteq Readers /\ Seeing \subseteq Readers
    BY DEF Fresh, Seeing
  <1>5. \A q \in Readers : /\ reader'[q].gen = reader[q].gen /\ reader'[q].since = reader[q].since
                           /\ reader'[q].missed = reader[q].missed
    BY <1>1
  <1>6. RCTypeOK'
    BY <1>0, <1>1 DEF RCTypeOK, Recalls
  <1>7. NothingMissed' /\ GensCounted'
    BY <1>0, <1>1, <1>2, <1>3, <1>4, <1>5 DEF NothingMissed, GensCounted
  <1>8. OwesAgree'
    BY <1>0, <1>1, <1>2, <1>3, <1>4, <1>5 DEF OwesAgree
  <1>9. EntriesServe'
    BY <1>0, <1>2, <1>3, <1>4, <1>5 DEF EntriesServe
  <1>. QED
    BY <1>6, <1>7, <1>8, <1>9 DEF RecallInv

\* A recall begins: fresh ones owe what is sure, blind ones nothing.
LEMMA RecallBegins ==
    ASSUME RecallAssumption, RecallInv, NEW r \in Readers, ReadsGen(r)
    PROVE  RecallInv'
  <1>0. /\ RCTypeOK /\ NothingMissed /\ GensCounted /\ OwesAgree /\ EntriesServe
        /\ reader \in [Readers -> Recalls]
    BY DEF RecallInv, GensCounted
  <1>1. PICK unsure \in BOOLEAN :
            reader' = [reader EXCEPT ![r] =
                [at |-> "lookup", gen |-> IF unsure THEN 0 ELSE gen, got |-> {},
                 since |-> {m \in Mems : row[m] = "known"} \ unbumped,
                 blind |-> unsure, old |-> FALSE, missed |-> {}]]
    BY DEF ReadsGen
  <1>2. /\ reader[r].at = "idle" /\ UNCHANGED <<row, gen, cached, unbumped, revived>>
        /\ Recallable' = Recallable /\ Answering' = Answering /\ Sure' = Sure
    BY DEF ReadsGen, Recallable, Answering, Sure
  <1>3. /\ \A q \in Readers \ {r} : reader'[q] = reader[q]
        /\ reader'[r] = [at |-> "lookup", gen |-> IF unsure THEN 0 ELSE gen, got |-> {},
                         since |-> Sure, blind |-> unsure, old |-> FALSE, missed |-> {}]
        /\ Sure \subseteq Mems
    BY <1>0, <1>1 DEF Sure
  <1>4. /\ reader'[r].at = "lookup" /\ reader'[r].gen \in Gens /\ reader'[r].got = {}
        /\ reader'[r].since = Sure /\ reader'[r].missed = {} /\ reader'[r].blind = unsure
        /\ ~ reader'[r].old /\ reader'[r] \in Recalls /\ (~unsure => reader'[r].gen = gen)
    BY <1>0, <1>3, RecallFacts DEF RCTypeOK, Recalls
  <1>5. reader' \in [Readers -> Recalls]
    BY <1>0, <1>1, <1>3, <1>4
  <1>6. /\ Fresh \subseteq Readers \ {r} /\ Seeing \subseteq Readers \ {r}
        /\ \/ ~unsure /\ Fresh' = Fresh \cup {r} /\ Seeing' = Seeing \cup {r}
           \/ unsure /\ Fresh' = Fresh /\ Seeing' = Seeing
    BY <1>2, <1>3, <1>4 DEF Fresh, Seeing
  <1>7. RCTypeOK' /\ NothingMissed'
    BY <1>0, <1>2, <1>3, <1>4, <1>5 DEF RCTypeOK, NothingMissed, Recalls
  <1>8. GensCounted'
    <2>1. gen <= gen
      BY <1>0, RecallFacts DEF RCTypeOK
    <2>. QED
      BY <1>0, <1>2, <1>3, <1>4, <1>5, <1>6, <2>1 DEF GensCounted
  <1>9. \A q \in Readers : reader[q].since \cap Recallable \subseteq Sure
    BY <1>0, RecallFacts DEF OwesAgree, Answering, Recallable
  <1>10. OwesAgree'
    <2>1. \A q \in Readers : /\ reader'[q].since \subseteq Answering' \ unbumped'
                             /\ reader'[q].at = "store" =>
                                    reader'[q].since \cap Recallable' \subseteq reader'[q].got
      BY <1>0, <1>2, <1>3, <1>4 DEF OwesAgree, Sure, Answering
    <2>2. \A q \in Fresh' : reader'[q].gen = gen' => Sure' \subseteq reader'[q].since
      BY <1>0, <1>2, <1>3, <1>4, <1>6 DEF OwesAgree
    <2>3. \A q \in Fresh', p \in Fresh' : reader'[q].gen = reader'[p].gen =>
              reader'[q].since \cap Recallable' \subseteq reader'[p].since
      BY <1>0, <1>2, <1>3, <1>4, <1>6, <1>9 DEF OwesAgree
    <2>4. \A q \in Seeing' \ Fresh', p \in Fresh' :
              reader'[q].since \cap Recallable' \subseteq reader'[p].since
      BY <1>0, <1>2, <1>3, <1>4, <1>6, <1>9 DEF OwesAgree
    <2>. QED
      BY <2>1, <2>2, <2>3, <2>4 DEF OwesAgree
  <1>11. EntriesServe'
    BY <1>0, <1>2, <1>3, <1>4, <1>6, RecallFacts DEF EntriesServe
  <1>. QED
    BY <1>7, <1>8, <1>10, <1>11 DEF RecallInv

\* An entry is the answer, and it serves.
LEMMA RecallLooksUp ==
    ASSUME RecallAssumption, RecallInv, NEW r \in Readers, LooksUp(r)
    PROVE  RecallInv'
  <1>0. /\ RCTypeOK /\ NothingMissed /\ GensCounted /\ OwesAgree /\ EntriesServe
        /\ reader \in [Readers -> Recalls] /\ reader[r] \in Recalls
    BY DEF RecallInv, GensCounted
  <1>1. reader[r].at = "lookup" /\ UNCHANGED <<row, gen, cached, unbumped, revived>>
    BY DEF LooksUp
  <1>2. CASE reader' = [reader EXCEPT ![r].at = "dense"]
    <2>1. reader' = [reader EXCEPT ![r] = [reader[r] EXCEPT !.at = "dense"]]
      BY <1>0, <1>2
    <2>. DEFINE t == [reader[r] EXCEPT !.at = "dense"]
    <2>2. /\ t \in Recalls /\ t.at = "dense" /\ t.gen = reader[r].gen /\ t.since = reader[r].since
          /\ t.blind = reader[r].blind /\ t.old = reader[r].old /\ t.missed = reader[r].missed
      BY ZenonT(60), <1>0, RecallRecords DEF Recalls
    <2>3. reader' = [reader EXCEPT ![r] = t]
      BY <2>1
    <2>. HIDE DEF t
    <2>. QED
      BY <1>1, <2>2, <2>3, RecallGoesOn
  <1>3. ASSUME NEW ms \in cached[reader[r].gen],
               reader' = [reader EXCEPT ![r] =
                   Answered(r, ms, reader[r].blind \/ reader[r].gen \in revived)]
        PROVE  RecallInv'
    <2>. DEFINE missed == IF reader[r].blind \/ reader[r].gen \in revived THEN {}
                          ELSE (reader[r].since \cap Recallable) \ ms
    <2>1. missed = {}
      <3>1. r \in Seeing \/ reader[r].blind
        BY <1>1 DEF Seeing
      <3>2. reader[r].gen \in Gens
        BY <1>0 DEF Recalls
      <3>. QED
        BY <1>0, <1>3, <3>1, <3>2 DEF EntriesServe
    <2>2. reader' = [reader EXCEPT ![r] = [Resting EXCEPT !.missed = missed]]
      BY <1>3 DEF Answered
    <2>. HIDE DEF missed
    <2>3. /\ NothingMissed' /\ OwesAgree' /\ reader' \in [Readers -> Recalls]
          /\ Fresh' = Fresh \ {r} /\ Seeing' = Seeing \ {r}
          /\ \A q \in Readers \ {r} : reader'[q] = reader[q]
          /\ Recallable' = Recallable /\ Answering' = Answering /\ Sure' = Sure
      BY <1>1, <2>1, <2>2, RecallEnds
    <2>4. RCTypeOK'
      BY <1>0, <1>1, <2>3 DEF RCTypeOK, Recalls
    <2>5. Fresh \subseteq Readers /\ Seeing \subseteq Readers
      BY DEF Fresh, Seeing
    <2>6. GensCounted'
      BY <1>0, <1>1, <2>3, <2>5 DEF GensCounted
    <2>7. EntriesServe'
      BY <1>0, <1>1, <2>3, <2>5 DEF EntriesServe
    <2>. QED
      BY <2>3, <2>4, <2>6, <2>7 DEF RecallInv
  <1>. QED
    BY <1>2, <1>3 DEF LooksUp

LEMMA RecallSearches ==
    ASSUME RecallAssumption, RecallInv, NEW r \in Readers, Dense(r) \/ Sparse(r)
    PROVE  RecallInv'
  <1>0. reader \in [Readers -> Recalls] /\ reader[r] \in Recalls /\ Recallable \subseteq Mems
    BY DEF RecallInv, GensCounted, Recallable
  <1>1. CASE Dense(r)
    <2>1. PICK found \in SUBSET Mems :
              reader' = [reader EXCEPT ![r] = [reader[r] EXCEPT !.at = "sparse", !.got = found]]
      BY <1>0, <1>1 DEF Dense
    <2>. DEFINE t == [reader[r] EXCEPT !.at = "sparse", !.got = found]
    <2>2. /\ t \in Recalls /\ t.at = "sparse" /\ t.gen = reader[r].gen /\ t.since = reader[r].since
          /\ t.blind = reader[r].blind /\ t.old = reader[r].old /\ t.missed = reader[r].missed
      BY ZenonT(60), <1>0, RecallRecords DEF Recalls
    <2>3. reader' = [reader EXCEPT ![r] = t] /\ reader[r].at # "idle"
          /\ UNCHANGED <<row, gen, cached, unbumped, revived>>
      BY <1>1, <2>1 DEF Dense
    <2>. HIDE DEF t
    <2>. QED
      BY <2>2, <2>3, RecallGoesOn
  <1>2. CASE Sparse(r)
    <2>. DEFINE t == [reader[r] EXCEPT !.at = "store", !.got = reader[r].got \cup Recallable]
    <2>2. /\ t \in Recalls /\ t.at = "store" /\ t.gen = reader[r].gen /\ t.since = reader[r].since
          /\ t.blind = reader[r].blind /\ t.old = reader[r].old /\ t.missed = reader[r].missed
          /\ Recallable \subseteq t.got
      BY ZenonT(60), <1>0, RecallRecords DEF Recalls
    <2>1. reader' = [reader EXCEPT ![r] = t]
      BY <1>0, <1>2 DEF Sparse, Recalls
    <2>3. /\ reader' = [reader EXCEPT ![r] = t] /\ reader[r].at # "idle"
          /\ UNCHANGED <<row, gen, cached, unbumped, revived>>
      BY <1>2, <2>1 DEF Sparse
    <2>. HIDE DEF t
    <2>. QED
      BY <2>2, <2>3, RecallGoesOn
  <1>. QED
    BY <1>1, <1>2

\* What a recall stores serves whoever shares its key, unless it is accounted for.
LEMMA RecallStores ==
    ASSUME RecallAssumption, RecallInv, NEW r \in Readers, Stores(r)
    PROVE  RecallInv'
  <1>0. /\ RCTypeOK /\ NothingMissed /\ GensCounted /\ OwesAgree /\ EntriesServe
        /\ reader \in [Readers -> Recalls] /\ reader[r] \in Recalls
        /\ cached \in [Gens -> SUBSET SUBSET Mems]
    BY DEF RecallInv, GensCounted
  <1>1. /\ reader[r].at = "store" /\ UNCHANGED <<row, gen, unbumped>>
        /\ reader' = [reader EXCEPT ![r] = Answered(r, reader[r].got, reader[r].blind)]
        /\ reader[r].gen \in Gens /\ reader[r].got \subseteq Mems
    BY <1>0 DEF Stores, Recalls
  <1>. DEFINE missed == IF reader[r].blind THEN {} ELSE (reader[r].since \cap Recallable) \ reader[r].got
  <1>2. missed = {} /\ reader' = [reader EXCEPT ![r] = [Resting EXCEPT !.missed = missed]]
        /\ reader[r].since \cap Recallable \subseteq reader[r].got
    BY <1>0, <1>1 DEF OwesAgree, Answered
  <1>. HIDE DEF missed
  <1>3. /\ NothingMissed' /\ OwesAgree' /\ reader' \in [Readers -> Recalls]
        /\ Fresh' = Fresh \ {r} /\ Seeing' = Seeing \ {r}
        /\ \A q \in Readers \ {r} : reader'[q] = reader[q]
        /\ Recallable' = Recallable /\ Answering' = Answering /\ Sure' = Sure
    BY <1>1, <1>2, RecallEnds
  <1>4. Fresh \subseteq Readers /\ Seeing \subseteq Readers
    BY DEF Fresh, Seeing
  <1>5. CASE UNCHANGED <<cached, revived>>
    <2>1. RCTypeOK'
      BY <1>0, <1>1, <1>3, <1>5 DEF RCTypeOK, Recalls
    <2>2. GensCounted'
      BY <1>0, <1>1, <1>3, <1>4, <1>5 DEF GensCounted
    <2>3. EntriesServe'
      BY <1>0, <1>1, <1>3, <1>4, <1>5 DEF EntriesServe
    <2>. QED
      BY <1>3, <2>1, <2>2, <2>3 DEF RecallInv
  <1>6. CASE /\ cached' = [cached EXCEPT ![reader[r].gen] = {reader[r].got}]
             /\ revived' = IF reader[r].old \/ reader[r].blind THEN revived \cup {reader[r].gen}
                           ELSE revived \ {reader[r].gen}
    <2>1. /\ cached' \in [Gens -> SUBSET SUBSET Mems] /\ revived' \subseteq Gens
          /\ cached'[reader[r].gen] = {reader[r].got}
          /\ \A g \in Gens \ {reader[r].gen} : cached'[g] = cached[g] /\ (g \in revived' <=> g \in revived)
          /\ reader[r].gen \notin revived' => r \in Fresh
      BY <1>0, <1>1, <1>6 DEF RCTypeOK, Fresh, Seeing
    <2>2. RCTypeOK'
      BY <1>0, <1>1, <1>3, <2>1 DEF RCTypeOK, Recalls
    <2>3. GensCounted'
      <3>1. r \in Fresh => ~ (reader[r].gen > gen)
        BY <1>0, <1>1, RecallFacts DEF GensCounted, RCTypeOK
      <3>2. \A g \in Gens \ revived' : g > gen => cached'[g] = NoEntry
        BY <1>0, <2>1, <3>1 DEF GensCounted
      <3>. QED
        BY <1>0, <1>1, <1>3, <1>4, <2>1, <3>2 DEF GensCounted
    <2>4. ASSUME NEW g \in Gens \ revived', NEW ms \in cached'[g]
          PROVE  /\ g = gen => Sure \subseteq ms
                 /\ \A q \in Fresh \ {r} : reader[q].gen = g => reader[q].since \cap Recallable \subseteq ms
                 /\ \A q \in (Seeing \ {r}) \ (Fresh \ {r}) : reader[q].since \cap Recallable \subseteq ms
      <3>1. CASE g # reader[r].gen
        BY <1>0, <2>1, <2>4, <3>1 DEF EntriesServe
      <3>2. CASE g = reader[r].gen
        <4>1. r \in Fresh /\ ms = reader[r].got
          BY <2>1, <2>4, <3>2
        <4>2. g = gen => Sure \subseteq reader[r].since \cap Recallable
          BY <1>0, <3>2, <4>1, RecallFacts DEF OwesAgree
        <4>3. \A q \in Fresh : reader[q].gen = g =>
                  reader[q].since \cap Recallable \subseteq reader[r].since \cap Recallable
          BY <1>0, <3>2, <4>1 DEF OwesAgree
        <4>4. \A q \in Seeing \ Fresh :
                  reader[q].since \cap Recallable \subseteq reader[r].since \cap Recallable
          BY <1>0, <4>1 DEF OwesAgree
        <4>. QED
          BY <1>2, <4>1, <4>2, <4>3, <4>4
      <3>. QED
        BY <3>1, <3>2
    <2>5. EntriesServe'
      BY <1>1, <1>3, <1>4, <2>4 DEF EntriesServe
    <2>. QED
      BY <1>3, <2>2, <2>3, <2>5 DEF RecallInv
  <1>. QED
    BY <1>5, <1>6 DEF Stores, KeyOf, Entry

\* An entry goes, or Redis loses everything: every recall in progress is old.
LEMMA RedisStep ==
    ASSUME RecallAssumption, RecallInv, RedisRestarts \/ \E g \in Gens : Expires(g)
    PROVE  RecallInv'
  <1>0. /\ RCTypeOK /\ NothingMissed /\ GensCounted /\ OwesAgree /\ EntriesServe
        /\ reader \in [Readers -> Recalls] /\ cached \in [Gens -> SUBSET SUBSET Mems]
    BY DEF RecallInv, GensCounted
  <1>1. Recallable' = Recallable /\ Answering' = Answering /\ Sure' = Sure
    BY DEF RedisRestarts, Expires, Recallable, Answering, Sure
  <1>2. ASSUME NEW g \in Gens, Expires(g) PROVE RecallInv'
    <2>1. /\ UNCHANGED <<row, gen, reader, unbumped, revived>>
          /\ cached' = [cached EXCEPT ![g] = {}] /\ cached' \in [Gens -> SUBSET SUBSET Mems]
          /\ Fresh' = Fresh /\ Seeing' = Seeing
      BY <1>0, <1>2 DEF Expires, NoEntry, Fresh, Seeing
    <2>2. RCTypeOK' /\ NothingMissed' /\ OwesAgree'
      BY <1>0, <1>1, <2>1 DEF RCTypeOK, NothingMissed, OwesAgree
    <2>3. GensCounted' /\ EntriesServe'
      BY <1>0, <1>1, <2>1 DEF GensCounted, EntriesServe, NoEntry
    <2>. QED
      BY <2>2, <2>3 DEF RecallInv
  <1>3. CASE RedisRestarts
    <2>1. /\ gen' = 0 /\ \A g \in Gens : cached'[g] = {}
          /\ cached' \in [Gens -> SUBSET SUBSET Mems] /\ revived' = {} /\ UNCHANGED <<row, unbumped>>
          /\ reader' = [q \in Readers |-> [reader[q] EXCEPT !.old = reader[q].at # "idle"]]
      BY <1>3 DEF RedisRestarts, NoEntry
    <2>2. /\ reader' \in [Readers -> Recalls]
          /\ \A q \in Readers : /\ reader'[q].at = reader[q].at /\ reader'[q].since = reader[q].since
                                /\ reader'[q].got = reader[q].got /\ reader'[q].missed = reader[q].missed
                                /\ reader[q].at # "idle" => reader'[q].old
      <3>1. ASSUME NEW q \in Readers, NEW b \in BOOLEAN, reader'[q] = [reader[q] EXCEPT !.old = b]
            PROVE  /\ reader'[q] \in Recalls
                   /\ reader'[q].at = reader[q].at /\ reader'[q].since = reader[q].since
                   /\ reader'[q].got = reader[q].got /\ reader'[q].missed = reader[q].missed
                   /\ reader'[q].old = b
        BY <1>0, <3>1 DEF Recalls
      <3>2. \A q \in Readers : \/ reader[q].at # "idle" /\ reader'[q] = [reader[q] EXCEPT !.old = TRUE]
                               \/ reader[q].at = "idle" /\ reader'[q] = [reader[q] EXCEPT !.old = FALSE]
        BY <2>1
      <3>3. DOMAIN reader' = Readers /\ reader' = [q \in Readers |-> reader'[q]]
        BY <2>1
      <3>. QED
        BY <3>1, <3>2, <3>3
    <2>3. Fresh' = {} /\ Seeing' \subseteq Readers
      BY <2>2 DEF Fresh, Seeing
    <2>4. RCTypeOK' /\ NothingMissed'
      BY ZenonT(60), <1>0, <2>1, <2>2, RecallFacts DEF RCTypeOK, NothingMissed, Recalls
    <2>5. GensCounted'
      <3>1. Cardinality(Answering) \in Nat
        <4>1. IsFiniteSet(Mems) /\ Answering \subseteq Mems
          BY DEF RecallAssumption, Answering
        <4>. QED
          BY <4>1, FS_Subset, FS_CardinalityType
      <3>. QED
        BY <1>0, <1>1, <2>1, <2>2, <2>3, <3>1 DEF GensCounted, NoEntry
    <2>6. OwesAgree' /\ EntriesServe'
      BY <1>0, <1>1, <2>1, <2>2, <2>3 DEF OwesAgree, EntriesServe
    <2>. QED
      BY <2>4, <2>5, <2>6 DEF RecallInv
  <1>. QED
    BY <1>2, <1>3

\* "Any write (ingest) invalidates every prior entry instantly": no recall misses a
\* memory that was known before it began, however ingests, recalls, hidings and
\* failures of Redis interleave.
THEOREM RecallHolds ==
    ASSUME RecallAssumption
    PROVE  RCSpec => []RecallSeesIngest
  <1>1. RCInit => RecallInv
    BY RecallInitInv
  <1>2. RecallInv /\ [RCNext]_rcVars => RecallInv'
    <2>1. ASSUME RecallInv, RCNext PROVE RecallInv'
      BY <2>1, MemoryStep, RecallBegins, RecallLooksUp, RecallSearches, RecallStores, RedisStep
         DEF RCNext
    <2>2. ASSUME RecallInv, UNCHANGED rcVars PROVE RecallInv'
      BY <2>2 DEF rcVars, RecallInv, RCTypeOK, NothingMissed, GensCounted, OwesAgree, EntriesServe,
         Fresh, Seeing, Sure, Answering, Recallable
    <2>. QED
      BY <2>1, <2>2
  <1>3. RecallInv => RecallSeesIngest
    BY DEF RecallInv, RecallSeesIngest
  <1>. QED
    BY <1>1, <1>2, <1>3, PTL DEF RCSpec

-----------------------------------------------------------------------------
(* Why the nodes of one name are one but for overlaps and failed lookups,    *)
(* for any number of episodes and names: a task that is about to mint, and   *)
(* looked without an error, passed over no embedded node of the name, and    *)
(* each node without an embedding was counted when it was minted.            *)

NodeRows == [name : Names, tidy : BOOLEAN, vec : BOOLEAN]
EdgeRows == [ep : Episodes, src : Nat, dst : Nat]
Works(n) == [at : {"new", "again", "triple", "near", "mint", "done"},
             triples : Seq(Mentions \X Mentions), seen : [Names -> 0..n],
             mention : SUBSET Mentions, failed : BOOLEAN, rows : 0..n, tries : Nat]
GraphRowsOK ==
    /\ node \in Seq(NodeRows) /\ edge \in Seq(EdgeRows)
    /\ \A i \in DOMAIN edge : {edge[i].src, edge[i].dst} \subseteq DOMAIN node
    /\ work \in [Episodes -> Works(Len(node))]
    /\ minted \in [Names -> Nat] /\ blind \in [Names -> Nat]
    /\ \A e \in Episodes : work[e].at \in {"near", "mint"} => \E m \in Mentions : work[e].mention = {m}

Named(nodes, n) == {i \in DOMAIN nodes : nodes[i].name = n}
Bare(nodes, n) == {i \in DOMAIN nodes : nodes[i].name = n /\ ~nodes[i].vec}

\* A node without an embedding was counted when it was minted.
BareCounted == \A n \in Names : Cardinality(Bare(node, n)) <= blind[n]
\* A task that looked without an error and is about to mint passed over nothing
\* it could have found by its embedding.
LookedWell(w) ==
    w.at = "mint" /\ ~w.failed =>
        \A m \in w.mention, i \in DOMAIN node : i <= w.rows /\ node[i].name = m.name => ~node[i].vec

GraphInv ==
    /\ GraphRowsOK /\ BareCounted /\ OneNodePerName
    /\ \A e \in Episodes : LookedWell(work[e])

LEMMA NodePlaces ==
    ASSUME NEW s \in Seq(NodeRows)
    PROVE  /\ Len(s) \in Nat /\ DOMAIN s = 1..Len(s)
           /\ \A i \in DOMAIN s : s[i] \in NodeRows
           /\ \A n : /\ IsFiniteSet(Named(s, n)) /\ IsFiniteSet(Bare(s, n))
                     /\ Cardinality(Named(s, n)) \in Nat /\ Cardinality(Bare(s, n)) \in Nat
  <1>1. Len(s) \in Nat /\ DOMAIN s = 1..Len(s) /\ \A i \in DOMAIN s : s[i] \in NodeRows
    BY LenProperties, ElementOfSeq
  <1>2. IsFiniteSet(DOMAIN s)
    BY <1>1, FS_Interval
  <1>3. \A n : Named(s, n) \subseteq DOMAIN s /\ Bare(s, n) \subseteq DOMAIN s
    BY DEF Named, Bare
  <1>. QED
    BY <1>1, <1>2, <1>3, FS_Subset, FS_CardinalityType

\* A node added: the others stay where they are.
LEMMA AddsNode ==
    ASSUME NEW s \in Seq(NodeRows), NEW r \in NodeRows, NEW t, t = Append(s, r)
    PROVE  /\ t \in Seq(NodeRows) /\ Len(t) = Len(s) + 1
           /\ DOMAIN t = DOMAIN s \cup {Len(s) + 1} /\ Len(s) + 1 \notin DOMAIN s
           /\ t[Len(s) + 1] = r /\ \A i \in DOMAIN s : t[i] = s[i]
  <1>1. t \in Seq(NodeRows) /\ Len(t) = Len(s) + 1
    BY AppendProperties
  <1>2. t[Len(s) + 1] = r /\ \A i \in 1..Len(s) : t[i] = s[i]
    BY AppendProperties
  <1>3. DOMAIN t = 1..Len(t) /\ DOMAIN s = 1..Len(s) /\ Len(s) \in Nat
    BY <1>1, LenProperties
  <1>. QED
    BY <1>1, <1>2, <1>3

LEMMA NodeGrows ==
    ASSUME node \in Seq(NodeRows), NEW r \in NodeRows, node' = Append(node, r), NEW n \in Names
    PROVE  /\ r.name # n => Named(node', n) = Named(node, n) /\ Bare(node', n) = Bare(node, n)
           /\ r.name = n => Cardinality(Named(node', n)) = Cardinality(Named(node, n)) + 1
           /\ r.name = n /\ r.vec => Bare(node', n) = Bare(node, n)
           /\ r.name = n /\ ~r.vec => Cardinality(Bare(node', n)) = Cardinality(Bare(node, n)) + 1
  <1>0. /\ IsFiniteSet(Named(node, n)) /\ IsFiniteSet(Bare(node, n))
        /\ Cardinality(Named(node, n)) \in Nat /\ Cardinality(Bare(node, n)) \in Nat
    BY NodePlaces
  <1>1. PICK k : k = Len(node) + 1
    OBVIOUS
  <1>2. /\ DOMAIN node' = DOMAIN node \cup {k} /\ k \notin DOMAIN node
        /\ node'[k] = r /\ \A i \in DOMAIN node : node'[i] = node[i]
    BY <1>1, AddsNode
  <1>3. k \notin Named(node, n) /\ k \notin Bare(node, n)
    BY <1>2 DEF Named, Bare
  <1>4. Named(node', n) = IF r.name = n THEN Named(node, n) \cup {k} ELSE Named(node, n)
    BY <1>2 DEF Named
  <1>5. Bare(node', n) = IF r.name = n /\ ~r.vec THEN Bare(node, n) \cup {k} ELSE Bare(node, n)
    BY <1>2 DEF Bare
  <1>6. /\ Cardinality(Named(node, n) \cup {k}) = Cardinality(Named(node, n)) + 1
        /\ Cardinality(Bare(node, n) \cup {k}) = Cardinality(Bare(node, n)) + 1
    BY <1>0, <1>3, FS_AddElement
  <1>. QED
    BY <1>0, <1>4, <1>5, <1>6

LEMMA FreshWorks ==
    ASSUME NEW n \in Nat
    PROVE  /\ NoWork \in Works(n) /\ NoWork.at = "new"
           /\ \A at \in {"again", "done"}, k \in Nat :
                 /\ [NoWork EXCEPT !.at = at, !.tries = k] \in Works(n)
                 /\ [NoWork EXCEPT !.at = at, !.tries = k].at = at
           /\ [NoWork EXCEPT !.at = "done"] \in Works(n)
           /\ [NoWork EXCEPT !.at = "done"].at = "done"
           /\ \A triples \in Seq(Mentions \X Mentions), k \in Nat :
                 /\ [NoWork EXCEPT !.at = "triple", !.triples = triples, !.tries = k] \in Works(n)
                 /\ [NoWork EXCEPT !.at = "triple", !.triples = triples, !.tries = k].at = "triple"
  <1>1. NoWork \in Works(n) /\ NoWork.at = "new"
    BY DEF NoWork, Works
  <1>. QED
    BY <1>1 DEF Works

LEMMA GraphInit == GraphAssumption /\ KGInit => GraphInv
  <1>. SUFFICES ASSUME GraphAssumption, KGInit PROVE GraphInv
    OBVIOUS
  <1>1. Len(node) = 0 /\ DOMAIN node = {} /\ DOMAIN edge = {}
    BY DEF KGInit
  <1>2. GraphRowsOK
    <2>1. \A e \in Episodes : work[e] = NoWork /\ NoWork \in Works(Len(node)) /\ NoWork.at = "new"
      BY <1>1, FreshWorks DEF KGInit
    <2>2. node \in Seq(NodeRows) /\ edge \in Seq(EdgeRows)
      BY DEF KGInit
    <2>3. work \in [Episodes -> Works(Len(node))]
      BY <2>1 DEF KGInit
    <2>. QED
      BY <1>1, <2>1, <2>2, <2>3 DEF KGInit, GraphRowsOK
  <1>3. \A n : Named(node, n) = {} /\ Bare(node, n) = {}
    BY <1>1 DEF Named, Bare
  <1>4. BareCounted
    BY <1>3, FS_EmptySet DEF BareCounted, KGInit
  <1>5. OneNodePerName
    BY <1>3, FS_EmptySet DEF OneNodePerName, KGInit, Named
  <1>6. \A e \in Episodes : LookedWell(work[e])
    BY DEF KGInit, NoWork, LookedWell
  <1>. QED
    BY <1>2, <1>4, <1>5, <1>6 DEF GraphInv

\* A task that goes on without minting.
LEMMA WorkMoves ==
    ASSUME GraphInv, NEW e \in Episodes, NEW w \in Works(Len(node)),
           work' = [work EXCEPT ![e] = w], UNCHANGED <<node, minted, blind>>,
           edge' \in Seq(EdgeRows),
           \A i \in DOMAIN edge' : {edge'[i].src, edge'[i].dst} \subseteq DOMAIN node,
           w.at \in {"near", "mint"} => \E m \in Mentions : w.mention = {m},
           LookedWell(w)
    PROVE  GraphInv'
  <1>1. /\ GraphRowsOK /\ work'[e] = w
        /\ \A d \in Episodes \ {e} : work'[d] = work[d]
    BY DEF GraphInv, GraphRowsOK
  <1>2. GraphRowsOK'
    BY <1>1 DEF GraphRowsOK
  <1>3. BareCounted' /\ OneNodePerName'
    BY DEF GraphInv, BareCounted, OneNodePerName
  <1>4. ASSUME NEW d \in Episodes PROVE LookedWell(work[d])'
    <2>1. LookedWell(work'[d])
      BY <1>1 DEF GraphInv
    <2>. QED
      BY <2>1 DEF LookedWell
  <1>. QED
    BY <1>2, <1>3, <1>4 DEF GraphInv

LEMMA FoundWorks ==
    ASSUME GraphInv, NEW e \in Episodes, NEW n \in Nat, Len(node) <= n, NEW i \in 0..n
    PROVE  /\ Found(e, i) \in Works(n) /\ Found(e, i).at = "triple"
  <1>1. PICK was \in Works(Len(node)) : was = work[e]
    BY DEF GraphInv, GraphRowsOK
  <1>2. PICK x : x = NextMention(e).name
    OBVIOUS
  <1>3. Len(node) \in Nat
    BY NodePlaces DEF GraphInv, GraphRowsOK
  <1>4. PICK seen \in [Names -> 0..n] : seen = [was.seen EXCEPT ![x] = i]
    <2>1. was.seen \in [Names -> 0..Len(node)]
      BY DEF Works
    <2>2. 0..Len(node) \subseteq 0..n
      BY <1>3
    <2>3. was.seen \in [Names -> 0..n]
      BY <2>1, <2>2
    <2>. QED
      BY <2>3
  <1>5. Found(e, i) = [was EXCEPT !.at = "triple", !.mention = {}, !.failed = FALSE, !.seen = seen]
    BY <1>1, <1>2, <1>4 DEF Found, Works
  <1>6. PICK w : w = Found(e, i)
    OBVIOUS
  <1>7. w \in Works(n) /\ w.at = "triple"
    <2>1. was.rows \in 0..n
      <3>1. was.rows \in 0..Len(node)
        BY DEF Works
      <3>. QED
        BY <1>3, <3>1
    <2>. QED
      BY <1>4, <1>5, <1>6, <2>1 DEF Works
  <1>. QED
    BY <1>6, <1>7 DEF Works

LEMMA FirstOf ==
    ASSUME NEW S, S \subseteq Nat, S # {}
    PROVE  \E m \in S : \A y \in S : m <= y
  <1>. DEFINE R == OpToRel(<, Nat)
  <1>1. \A a, b \in Nat : a < b => <<a, b>> \in R
    BY DEF OpToRel
  <1>2. IsWellFoundedOn(R, Nat)
    BY NatLessThanWellFounded
  <1>. HIDE DEF R
  <1>3. PICK m \in S : \A y \in S : ~(<<y, m>> \in R)
    BY <1>2, WFMin
  <1>4. \A y \in S : m <= y
    <2>. SUFFICES ASSUME NEW y \in S PROVE m <= y
      OBVIOUS
    <2>1. m \in Nat /\ y \in Nat /\ ~(y < m)
      BY <1>1, <1>3
    <2>. QED
      BY <2>1
  <1>. QED
    BY <1>4

LEMMA NextIsMention ==
    ASSUME GraphInv, NEW e \in Episodes, Resolving(e)
    PROVE  NextMention(e) \in Mentions
  <1>1. PICK was \in Works(Len(node)) : was = work[e]
    BY DEF GraphInv, GraphRowsOK
  <1>2. was.triples[1] \in Mentions \X Mentions
    BY <1>1, HeadTailProperties, ElementOfSeq, LenProperties, EmptySeq DEF Resolving, Works
  <1>3. Unseen(e) \subseteq {1, 2} /\ Unseen(e) # {}
    BY DEF Unseen, Resolving
  <1>4. PICK i \in {1, 2} : NextMention(e) = was.triples[1][i]
    <2>1. \E i \in Unseen(e) : \A j \in Unseen(e) : i <= j
      BY <1>3
    <2>. QED
      BY <1>1, <1>3, <2>1 DEF NextMention
  <1>. QED
    BY <1>2, <1>4

LEMMA MintStep ==
    ASSUME GraphInv, NEW e \in Episodes, Mint(e)
    PROVE  GraphInv'
  <1>0. GraphRowsOK /\ Len(node) \in Nat
    BY NodePlaces DEF GraphInv, GraphRowsOK
  <1>1. work[e].at = "mint"
    BY DEF Mint
  <1>2. PICK m \in Mentions : work[e].mention = {m} /\ m = CHOOSE x \in work[e].mention : TRUE
    BY <1>0, <1>1 DEF GraphRowsOK
  <1>3. PICK vec \in BOOLEAN, late \in BOOLEAN :
            /\ late = (\E i \in DOMAIN node : i > work[e].rows /\ node[i].name = m.name)
            /\ node' = Append(node, [name |-> m.name, tidy |-> ~m.loose, vec |-> vec])
            /\ minted' = [minted EXCEPT ![m.name] = IF late THEN minted[m.name] + 1 ELSE minted[m.name]]
            /\ blind' = [blind EXCEPT ![m.name] =
                            IF work[e].failed \/ ~vec THEN blind[m.name] + 1 ELSE blind[m.name]]
            /\ work' = [work EXCEPT ![e] = Found(e, Len(node) + 1)]
            /\ edge' = edge
    BY <1>2 DEF Mint
  <1>4. PICK r \in NodeRows : /\ node' = Append(node, r) /\ r.name = m.name /\ r.vec = vec
    <2>1. [name |-> m.name, tidy |-> ~m.loose, vec |-> vec] \in NodeRows
      BY DEF NodeRows, Mentions
    <2>. QED
      BY <1>3, <2>1
  <1>5. /\ node' \in Seq(NodeRows) /\ Len(node') = Len(node) + 1
        /\ DOMAIN node' = DOMAIN node \cup {Len(node) + 1} /\ Len(node) + 1 \notin DOMAIN node
        /\ \A i \in DOMAIN node : node'[i] = node[i]
    BY <1>0, <1>4, AddsNode DEF GraphRowsOK
  <1>6. PICK w : w = Found(e, Len(node) + 1)
    OBVIOUS
  <1>7. w \in Works(Len(node')) /\ w.at = "triple" /\ work' = [work EXCEPT ![e] = w]
    BY <1>0, <1>3, <1>5, <1>6, FoundWorks
  <1>8. \A d \in Episodes \ {e} : work'[d] = work[d] /\ work[d] \in Works(Len(node'))
    <2>1. Works(Len(node)) \subseteq Works(Len(node) + 1)
      BY <1>0 DEF Works
    <2>. QED
      BY <1>0, <1>5, <1>7, <2>1 DEF GraphRowsOK
  <1>9. m.name \in Names
    BY DEF Mentions
  <1>10. minted' \in [Names -> Nat] /\ blind' \in [Names -> Nat]
    BY <1>0, <1>3, <1>9 DEF GraphRowsOK
  <1>11. work'[e] = w /\ work' \in [Episodes -> Works(Len(node'))]
    BY <1>0, <1>7, <1>8 DEF GraphRowsOK
  <1>12. GraphRowsOK'
    <2>1. edge' \in Seq(EdgeRows) /\ \A i \in DOMAIN edge' : {edge'[i].src, edge'[i].dst} \subseteq DOMAIN node'
      BY <1>0, <1>3, <1>5 DEF GraphRowsOK
    <2>2. \A d \in Episodes : work'[d].at \in {"near", "mint"} => \E x \in Mentions : work'[d].mention = {x}
      BY <1>0, <1>7, <1>8, <1>11 DEF GraphRowsOK
    <2>. QED
      BY <1>5, <1>10, <1>11, <2>1, <2>2 DEF GraphRowsOK
  <1>13. \A n \in Names : n # m.name => minted'[n] = minted[n] /\ blind'[n] = blind[n]
    BY <1>0, <1>3 DEF GraphRowsOK
  <1>14. /\ minted'[m.name] = IF late THEN minted[m.name] + 1 ELSE minted[m.name]
         /\ blind'[m.name] = IF work[e].failed \/ ~vec THEN blind[m.name] + 1 ELSE blind[m.name]
    BY <1>0, <1>3, <1>9 DEF GraphRowsOK
  <1>15. ASSUME NEW n \in Names
         PROVE  /\ Cardinality(Bare(node', n)) <= blind'[n]
                /\ Cardinality(Named(node', n)) <= 1 + minted'[n] + blind'[n]
    <2>1. PICK a \in Nat, b \in Nat : a = Cardinality(Named(node, n)) /\ b = Cardinality(Bare(node, n))
      BY <1>0, NodePlaces DEF GraphRowsOK
    <2>2. PICK o \in Nat, l \in Nat : o = minted[n] /\ l = blind[n]
      BY <1>0 DEF GraphRowsOK
    <2>3. a <= 1 + o + l /\ b <= l
      BY <2>1, <2>2 DEF GraphInv, BareCounted, OneNodePerName, Named
    <2>6. node \in Seq(NodeRows) /\ r \in NodeRows /\ node' = Append(node, r)
      BY <1>0, <1>4 DEF GraphRowsOK
    <2>7. /\ r.name # n => Named(node', n) = Named(node, n) /\ Bare(node', n) = Bare(node, n)
          /\ r.name = n => Cardinality(Named(node', n)) = Cardinality(Named(node, n)) + 1
          /\ r.name = n /\ r.vec => Bare(node', n) = Bare(node, n)
          /\ r.name = n /\ ~r.vec => Cardinality(Bare(node', n)) = Cardinality(Bare(node, n)) + 1
      BY <2>6, NodeGrows
    <2>4. CASE n # m.name
      <3>1. Cardinality(Named(node', n)) = a + 0 /\ Cardinality(Bare(node', n)) = b + 0
        BY <1>4, <2>1, <2>4, <2>7
      <3>. QED
        BY <1>13, <2>1, <2>2, <2>3, <2>4, <3>1
    <2>5. CASE n = m.name
      <3>1. /\ Cardinality(Named(node', n)) = a + 1
            /\ Cardinality(Bare(node', n)) = b + (IF vec THEN 0 ELSE 1)
        BY <1>4, <2>1, <2>5, <2>7
      <3>2. CASE work[e].failed \/ ~vec
        <4>1. blind'[n] = l + 1 /\ minted'[n] \in {o, o + 1}
          BY <1>14, <2>2, <2>5, <3>2
        <4>. QED
          BY <2>3, <3>1, <4>1
      <3>3. CASE ~work[e].failed /\ vec /\ late
        <4>1. blind'[n] = l /\ minted'[n] = o + 1
          BY <1>14, <2>2, <2>5, <3>3
        <4>. QED
          BY <2>3, <3>1, <3>3, <4>1
      <3>4. CASE ~work[e].failed /\ vec /\ ~late
        <4>1. blind'[n] = l /\ minted'[n] = o
          BY <1>14, <2>2, <2>5, <3>4
        <4>2. \A i \in DOMAIN node : node[i].name = n => ~node[i].vec
          <5>1. \A i \in DOMAIN node : node[i].name = n => i <= work[e].rows
            <6>1. \A i \in DOMAIN node : node[i].name = n => ~(i > work[e].rows)
              BY <1>3, <2>5, <3>4
            <6>2. work[e].rows \in Nat /\ DOMAIN node \subseteq Nat
              BY <1>0, NodePlaces DEF GraphRowsOK, Works
            <6>. QED
              BY <6>1, <6>2
          <5>2. LookedWell(work[e])
            BY DEF GraphInv
          <5>. QED
            BY <1>1, <1>2, <2>5, <3>4, <5>1, <5>2 DEF LookedWell
        <4>3. Named(node, n) = Bare(node, n)
          BY <4>2 DEF Named, Bare
        <4>4. a = b
          BY <2>1, <4>3
        <4>. QED
          BY <2>3, <3>1, <3>4, <4>1, <4>4
      <3>. QED
        BY <3>2, <3>3, <3>4
    <2>. QED
      BY <2>4, <2>5
  <1>16. BareCounted' /\ OneNodePerName'
    BY <1>15 DEF BareCounted, OneNodePerName, Named
  <1>17. ASSUME NEW d \in Episodes PROVE LookedWell(work[d])'
    <2>1. CASE d = e
      BY <1>7, <1>11, <2>1 DEF LookedWell
    <2>2. CASE d # e
      <3>1. work'[d] = work[d] /\ LookedWell(work[d])
        BY <1>8, <2>2 DEF GraphInv
      <3>2. ASSUME work'[d].at = "mint", ~work'[d].failed,
                   NEW x \in work'[d].mention, NEW i \in DOMAIN node',
                   i <= work'[d].rows, node'[i].name = x.name
            PROVE  ~node'[i].vec
        <4>1. CASE i \in DOMAIN node
          BY <1>5, <3>1, <3>2, <4>1 DEF LookedWell
        <4>2. CASE i = Len(node) + 1
          <5>1. work[d].rows \in 0..Len(node)
            BY <1>0 DEF GraphRowsOK, Works
          <5>. QED
            BY <1>0, <3>1, <3>2, <4>2, <5>1
        <4>. QED
          BY <1>5, <4>1, <4>2
      <3>. QED
        BY <3>2 DEF LookedWell
    <2>. QED
      BY <2>1, <2>2
  <1>. QED
    BY <1>12, <1>16, <1>17 DEF GraphInv

LEMMA GraphStep ==
    ASSUME GraphAssumption, GraphInv, [KGNext]_kgVars
    PROVE  GraphInv'
  <1>0. GraphRowsOK /\ Len(node) \in Nat /\ DOMAIN node = 1..Len(node) /\ edge \in Seq(EdgeRows)
    BY NodePlaces DEF GraphInv, GraphRowsOK
  <1>00. \A i \in DOMAIN edge : {edge[i].src, edge[i].dst} \subseteq DOMAIN node
    BY <1>0 DEF GraphRowsOK
  <1>1. ASSUME NEW e \in Episodes, Extract(e) PROVE GraphInv'
    <2>1. PICK triples \in Seq(Mentions \X Mentions), k \in Nat :
             work' = [work EXCEPT ![e] = [NoWork EXCEPT !.at = "triple", !.triples = triples, !.tries = k]]
      <3>1. PICK triples \in Texts \cup {<<>>} :
               work' = [work EXCEPT ![e] = [NoWork EXCEPT !.at = "triple", !.triples = triples,
                                                          !.tries = work[e].tries + 1]]
        BY <1>1 DEF Extract
      <3>2. triples \in Seq(Mentions \X Mentions)
        <4>1. <<>> \in Seq(Mentions \X Mentions)
          OBVIOUS
        <4>. QED
          BY <4>1 DEF GraphAssumption
      <3>3. PICK was \in Works(Len(node)) : was = work[e]
        BY <1>0 DEF GraphRowsOK
      <3>4. PICK k \in Nat : k = work[e].tries + 1
        BY <3>3 DEF Works
      <3>. QED
        BY <3>1, <3>2, <3>4
    <2>2. PICK w : w = [NoWork EXCEPT !.at = "triple", !.triples = triples, !.tries = k]
      OBVIOUS
    <2>3. w \in Works(Len(node)) /\ w.at = "triple"
      BY <1>0, <2>2, FreshWorks
    <2>. QED
      BY <1>0, <1>00, <1>1, <2>1, <2>2, <2>3, WorkMoves DEF Extract, LookedWell
  <1>2. ASSUME NEW e \in Episodes, Exact(e) PROVE GraphInv'
    <2>1. UNCHANGED <<node, minted, blind, edge>>
      BY <1>2 DEF Exact
    <2>2. PICK m : m = NextMention(e)
      OBVIOUS
    <2>3. m \in Mentions
      BY <1>2, <2>2, NextIsMention DEF Exact
    <2>4. CASE Matches(m) # {}
               /\ work' = [work EXCEPT ![e] = Found(e, CHOOSE i \in Matches(m) : \A j \in Matches(m) : i <= j)]
      <3>1. PICK i \in Matches(m) : \A j \in Matches(m) : i <= j
        <4>1. Matches(m) \subseteq Nat
          BY <1>0 DEF Matches
        <4>. QED
          BY <2>4, <4>1, FirstOf
      <3>2. PICK k \in Matches(m) : work' = [work EXCEPT ![e] = Found(e, k)]
        BY <2>4, <3>1
      <3>3. k \in 0..Len(node)
        BY <1>0 DEF Matches
      <3>4. PICK w \in Works(Len(node)) : w = Found(e, k) /\ w.at = "triple"
        BY <1>0, <3>3, FoundWorks
      <3>. QED
        BY <1>0, <1>00, <2>1, <3>2, <3>4, WorkMoves DEF LookedWell
    <2>5. ASSUME NEW f \in BOOLEAN,
                 work' = [work EXCEPT ![e] = [work[e] EXCEPT !.at = "near", !.mention = {m},
                                                             !.rows = Len(node), !.failed = f]]
          PROVE  GraphInv'
      <3>1. PICK w : w = [work[e] EXCEPT !.at = "near", !.mention = {m}, !.rows = Len(node), !.failed = f]
        OBVIOUS
      <3>2. work[e] \in Works(Len(node)) /\ Len(node) \in 0..Len(node)
        BY <1>0 DEF GraphRowsOK
      <3>3. w \in Works(Len(node)) /\ w.at = "near" /\ w.mention = {m}
        BY <2>3, <3>1, <3>2 DEF Works
      <3>. QED
        BY <1>0, <1>00, <2>1, <2>3, <2>5, <3>1, <3>3, WorkMoves DEF LookedWell
    <2>6. CASE work' = [work EXCEPT ![e] = [work[e] EXCEPT !.at = "near", !.mention = {m}, !.rows = Len(node)]]
      <3>1. PICK f \in BOOLEAN : f = work[e].failed
        BY <1>0 DEF GraphRowsOK, Works
      <3>2. [work[e] EXCEPT !.at = "near", !.mention = {m}, !.rows = Len(node)]
              = [work[e] EXCEPT !.at = "near", !.mention = {m}, !.rows = Len(node), !.failed = f]
        BY <1>0, <3>1 DEF GraphRowsOK, Works
      <3>. QED
        BY <2>5, <2>6, <3>2
    <2>. QED
      BY <1>2, <2>2, <2>4, <2>5, <2>6 DEF Exact
  <1>3. ASSUME NEW e \in Episodes, Near(e) PROVE GraphInv'
    <2>1. UNCHANGED <<node, minted, blind, edge>> /\ work[e].at = "near"
      BY <1>3 DEF Near
    <2>2. PICK m \in Mentions : work[e].mention = {m} /\ m = CHOOSE x \in work[e].mention : TRUE
      BY <1>0, <2>1 DEF GraphRowsOK
    <2>3. work[e] \in Works(Len(node))
      BY <1>0 DEF GraphRowsOK
    <2>4. ASSUME NEW i \in DOMAIN node, work' = [work EXCEPT ![e] = Found(e, i)] PROVE GraphInv'
      <3>1. i \in 0..Len(node)
        BY <1>0
      <3>2. PICK w \in Works(Len(node)) : w = Found(e, i) /\ w.at = "triple"
        BY <1>0, <3>1, FoundWorks
      <3>. QED
        BY <1>0, <1>00, <2>1, <2>4, <3>2, WorkMoves DEF LookedWell
    <2>5. CASE {i \in DOMAIN node : CloseTo(i, m)} = {} /\ work' = [work EXCEPT ![e].at = "mint"]
      <3>1. PICK w : w = [work[e] EXCEPT !.at = "mint"]
        OBVIOUS
      <3>2. w \in Works(Len(node)) /\ w.mention = {m}
        BY <2>2, <2>3, <3>1 DEF Works
      <3>3. \A i \in DOMAIN node : node[i].name = m.name => ~node[i].vec
        BY <2>5 DEF CloseTo
      <3>4. LookedWell(w)
        BY <3>2, <3>3 DEF LookedWell
      <3>5. work' = [work EXCEPT ![e] = w]
        BY <2>5, <3>1
      <3>. QED
        BY <1>0, <1>00, <2>1, <3>2, <3>4, <3>5, WorkMoves
    <2>6. CASE work' = [work EXCEPT ![e].at = "mint", ![e].failed = TRUE]
      <3>1. PICK w : w = [work[e] EXCEPT !.at = "mint", !.failed = TRUE]
        OBVIOUS
      <3>2. w \in Works(Len(node)) /\ w.mention = {m} /\ w.failed
        BY <2>2, <2>3, <3>1 DEF Works
      <3>3. work' = [work EXCEPT ![e] = w]
        BY <1>0, <2>6, <3>1 DEF GraphRowsOK
      <3>. QED
        BY <1>0, <1>00, <2>1, <3>2, <3>3, WorkMoves DEF LookedWell
    <2>. QED
      BY <1>3, <2>2, <2>4, <2>5, <2>6 DEF Near
  <1>4. ASSUME NEW e \in Episodes, Mint(e) PROVE GraphInv'
    BY <1>4, MintStep
  <1>5. ASSUME NEW e \in Episodes, Link(e) PROVE GraphInv'
    <2>1. work[e].at = "triple" /\ work[e].triples # <<>> /\ ~Resolving(e)
      BY <1>5 DEF Link
    <2>2. PICK was \in Works(Len(node)) : was = work[e]
      BY <1>0 DEF GraphRowsOK
    <2>3. PICK t \in Mentions \X Mentions, rest \in Seq(Mentions \X Mentions) :
             t = Head(was.triples) /\ t = was.triples[1] /\ rest = Tail(was.triples)
      <3>1. was.triples \in Seq(Mentions \X Mentions) /\ was.triples # <<>>
        BY <2>1, <2>2 DEF Works
      <3>2. Head(was.triples) = was.triples[1]
        BY <3>1
      <3>. QED
        BY <3>1, <3>2, HeadTailProperties
    <2>4. PICK s \in 0..Len(node), o \in 0..Len(node) :
             s = was.seen[t[1].name] /\ o = was.seen[t[2].name]
      BY <2>2 DEF Works, Mentions
    <2>5. s # 0 /\ o # 0
      <3>1. \A i \in {1, 2} : was.seen[was.triples[1][i].name] # 0
        BY <2>1, <2>2 DEF Resolving, Unseen
      <3>. QED
        BY <2>3, <2>4, <3>1
    <2>6. s \in DOMAIN node /\ o \in DOMAIN node
      BY <1>0, <2>4, <2>5
    <2>7. edge' = (IF s = o THEN edge ELSE Append(edge, [ep |-> e, src |-> s, dst |-> o]))
      BY <1>5, <2>2, <2>3, <2>4 DEF Link
    <2>8. /\ edge' \in Seq(EdgeRows)
          /\ \A i \in DOMAIN edge' : {edge'[i].src, edge'[i].dst} \subseteq DOMAIN node
      <3>1. CASE s = o
        BY <1>0, <1>00, <2>7, <3>1
      <3>2. CASE s # o
        <4>1. PICK r \in EdgeRows : r = [ep |-> e, src |-> s, dst |-> o]
          <5>1. s \in Nat /\ o \in Nat
            BY <1>0, <2>4
          <5>. QED
            BY <5>1 DEF EdgeRows
        <4>2. edge' = Append(edge, r) /\ r.src = s /\ r.dst = o
          BY <2>7, <3>2, <4>1
        <4>3. edge' \in Seq(EdgeRows) /\ Len(edge') = Len(edge) + 1
          BY <1>0, <4>2, AppendProperties
        <4>4. edge'[Len(edge) + 1] = r /\ \A i \in 1..Len(edge) : edge'[i] = edge[i]
          BY <1>0, <4>2, AppendProperties
        <4>5. DOMAIN edge' = 1..Len(edge') /\ DOMAIN edge = 1..Len(edge) /\ Len(edge) \in Nat
          BY <1>0, <4>3, LenProperties
        <4>6. \A i \in DOMAIN edge' : i \in DOMAIN edge \/ i = Len(edge) + 1
          BY <4>3, <4>5
        <4>7. ASSUME NEW i \in DOMAIN edge' PROVE {edge'[i].src, edge'[i].dst} \subseteq DOMAIN node
          <5>1. CASE i \in DOMAIN edge
            <6>1. edge'[i] = edge[i]
              BY <4>4, <4>5, <5>1
            <6>. QED
              BY <1>00, <5>1, <6>1
          <5>2. CASE i = Len(edge) + 1
            <6>1. edge'[i] = r
              BY <4>4, <5>2
            <6>. QED
              BY <2>6, <4>2, <6>1
          <5>. QED
            BY <4>6, <5>1, <5>2
        <4>. QED
          BY <4>3, <4>7
      <3>. QED
        BY <3>1, <3>2
    <2>9. PICK w : w = [was EXCEPT !.triples = rest]
      OBVIOUS
    <2>10. w \in Works(Len(node)) /\ w.at = "triple"
      BY <2>1, <2>2, <2>9 DEF Works
    <2>11. work' = [work EXCEPT ![e] = w] /\ UNCHANGED <<node, minted, blind>>
      BY <1>5, <2>2, <2>3, <2>9 DEF Link
    <2>. QED
      BY <2>8, <2>10, <2>11, WorkMoves DEF LookedWell
  <1>6. ASSUME NEW e \in Episodes, Done(e) PROVE GraphInv'
    <2>1. PICK w : w = [NoWork EXCEPT !.at = "done"]
      OBVIOUS
    <2>2. w \in Works(Len(node)) /\ w.at = "done"
      BY <1>0, <2>1, FreshWorks
    <2>. QED
      BY <1>0, <1>00, <1>6, <2>1, <2>2, WorkMoves DEF Done, LookedWell
  <1>7. ASSUME NEW e \in Episodes, Fails(e) PROVE GraphInv'
    <2>1. PICK at \in {"again", "done"}, k \in Nat :
             work' = [work EXCEPT ![e] = [NoWork EXCEPT !.at = at, !.tries = k]]
      <3>1. work[e].tries \in Nat
        BY <1>0 DEF GraphRowsOK, Works
      <3>. QED
        BY <1>7, <3>1 DEF Fails
    <2>2. PICK w : w = [NoWork EXCEPT !.at = at, !.tries = k]
      OBVIOUS
    <2>3. w \in Works(Len(node)) /\ w.at = at
      <3>1. [NoWork EXCEPT !.at = at, !.tries = k] \in Works(Len(node))
        BY <1>0, FreshWorks
      <3>2. [NoWork EXCEPT !.at = at, !.tries = k].at = at
        BY DEF NoWork
      <3>. QED
        BY <2>2, <3>1, <3>2
    <2>. QED
      BY <1>0, <1>00, <1>7, <2>1, <2>2, <2>3, WorkMoves DEF Fails, LookedWell
  <1>8. CASE UNCHANGED kgVars
    <2>1. UNCHANGED <<node, edge, work, minted, blind>>
      BY <1>8 DEF kgVars
    <2>2. GraphRowsOK' /\ BareCounted' /\ OneNodePerName'
      BY <2>1 DEF GraphInv, GraphRowsOK, BareCounted, OneNodePerName
    <2>3. \A e \in Episodes : LookedWell(work[e])'
      BY <2>1 DEF GraphInv, LookedWell
    <2>. QED
      BY <2>2, <2>3 DEF GraphInv
  <1>. QED
    BY <1>1, <1>2, <1>3, <1>4, <1>5, <1>6, <1>7, <1>8 DEF KGNext

\* The mentions of one name converge on one node, but for tasks that overlap and
\* lookups that fail (resolve_entity, create_entity), and every edge joins two nodes.
THEOREM GraphHolds ==
    ASSUME GraphAssumption
    PROVE  KGSpec => []GraphSound
  <1>1. GraphInv => GraphSound
    <2>. SUFFICES ASSUME GraphInv PROVE GraphSound
      OBVIOUS
    <2>1. \A i \in DOMAIN node : node[i].name \in Names
      BY NodePlaces DEF NodeRows, GraphInv, GraphRowsOK
    <2>. QED
      BY <2>1 DEF GraphInv, GraphRowsOK, GraphSound, KGTypeOK
  <1>2. KGInit => GraphInv
    BY GraphInit
  <1>3. GraphInv /\ [KGNext]_kgVars => GraphInv'
    BY GraphStep
  <1>. QED
    BY <1>1, <1>2, <1>3, PTL DEF KGSpec

-----------------------------------------------------------------------------
(* Why a simulation shows the scenarios of one execution but for overlaps,   *)
(* for any number of requests and executions: an execution read the status   *)
(* before anything was stored, so the second to store is an overlap, and     *)
(* what is stored and untold is before some execution or behind a fault.     *)

Executions == [at : {"idle", "ask", "source", "store", "tell"}, id : Nat,
               size : 0..MaxScenarios, told : Nat, saw : SUBSET Nat]
SimRowsOK ==
    /\ status \in {"absent", "created", "completed"} /\ begun \in Nat
    /\ executor \in [Executors -> Executions]
    /\ scenario \subseteq (1..begun) \X (1..MaxScenarios)
    /\ possible \subseteq scenario
    /\ sourced \subseteq 1..begun /\ broken \subseteq 1..begun /\ rivalled \subseteq 1..begun

\* An execution read the status before anything was stored; it has its episode
\* when it stores, and while it tells, its scenarios are those it stored.
ExecutionOK(x) ==
    /\ x.at # "idle" => x.id \in 1..begun /\ x.saw = {}
    /\ x.at # "tell" => x.told = 0
    /\ x.at \in {"ask", "source", "store"} => x.id \notin Stored
    /\ x.at \in {"store", "tell"} => x.id \in sourced
    /\ x.at = "tell" => /\ x.told <= x.size
                        /\ \A n \in 1..MaxScenarios : <<x.id, n>> \in scenario <=> n <= x.size
ExecutionsApart ==
    \A d, e \in Executors :
        d # e /\ executor[d].at # "idle" /\ executor[e].at # "idle" => executor[d].id # executor[e].id

\* All but one execution stored although another had.
OneUnrivalled ==
    /\ \E k \in Nat : Stored \subseteq {k} \cup rivalled
    /\ Stored # {} => status = "completed"
StoredWasSourced == \A s \in scenario : s[1] \in sourced

\* What is not told yet is about to be, or its execution broke; so with the
\* episodes of executions that stored nothing yet.
UntoldIsComing ==
    \A s \in scenario \ possible :
        \/ s[1] \in broken
        \/ \E e \in Executors : /\ executor[e].at = "tell" /\ executor[e].id = s[1]
                                /\ executor[e].told < s[2]
SourcedIsComing ==
    \A i \in sourced \ broken :
        \/ status = "completed"
        \/ \E e \in Executors : executor[e].at = "store" /\ executor[e].id = i

SimInv ==
    /\ SimRowsOK /\ ExecutionsApart /\ OneUnrivalled /\ StoredWasSourced
    /\ UntoldIsComing /\ SourcedIsComing
    /\ \A e \in Executors : ExecutionOK(executor[e])

LEMMA StartsSimulation == SimulationAssumption /\ SimInit => SimInv
  <1>. SUFFICES ASSUME SimulationAssumption, SimInit PROVE SimInv
    OBVIOUS
  <1>1. NoExecution \in Executions /\ NoExecution.at = "idle"
    BY DEF NoExecution, Executions, SimulationAssumption
  <1>2. \A e \in Executors : executor[e] = NoExecution
    BY DEF SimInit
  <1>3. SimRowsOK
    BY <1>1 DEF SimInit, SimRowsOK
  <1>4. Stored = {}
    BY DEF SimInit, Stored
  <1>5. OneUnrivalled /\ StoredWasSourced /\ UntoldIsComing /\ SourcedIsComing
    BY <1>4 DEF SimInit, OneUnrivalled, StoredWasSourced, UntoldIsComing, SourcedIsComing
  <1>6. ExecutionsApart /\ \A e \in Executors : ExecutionOK(executor[e])
    BY <1>1, <1>2 DEF ExecutionsApart, ExecutionOK, NoExecution
  <1>. QED
    BY <1>3, <1>5, <1>6 DEF SimInv

\* An execution that goes on, gives up or begins again: the others stay as they are.
LEMMA OneExecution ==
    ASSUME SimInv, NEW e \in Executors, NEW x \in Executions, executor' = [executor EXCEPT ![e] = x]
    PROVE  /\ executor' \in [Executors -> Executions] /\ executor'[e] = x
           /\ \A d \in Executors \ {e} : executor'[d] = executor[d]
  BY DEF SimInv, SimRowsOK

LEMMA IdleExecution == SimulationAssumption => NoExecution \in Executions /\ NoExecution.at = "idle"
  BY DEF NoExecution, Executions, SimulationAssumption

\* One that stores nothing and tells nothing.
LEMMA Advances ==
    ASSUME SimInv, NEW e \in Executors, NEW x \in Executions, executor' = [executor EXCEPT ![e] = x],
           UNCHANGED <<status, scenario, possible, rivalled>>,
           begun' \in Nat, begun <= begun',
           sourced \subseteq sourced', sourced' \subseteq 1..begun',
           broken \subseteq broken', broken' \subseteq 1..begun',
           ExecutionOK(x)',
           \A d \in Executors \ {e} : executor[d].at # "idle" /\ x.at # "idle" => executor[d].id # x.id,
           executor[e].at = "tell" => executor[e].id \in broken' \/ executor[e].told = executor[e].size,
           executor[e].at = "store" => executor[e].id \in broken',
           \A i \in sourced' \ sourced : x.at = "store" /\ x.id = i
    PROVE  SimInv'
  <1>0. SimRowsOK /\ executor[e] \in Executions
    BY DEF SimInv, SimRowsOK
  <1>1. /\ executor' \in [Executors -> Executions] /\ executor'[e] = x
        /\ \A d \in Executors \ {e} : executor'[d] = executor[d]
    BY OneExecution
  <1>2. Stored' = Stored
    BY DEF Stored
  <1>3. 1..begun \subseteq 1..begun'
    BY <1>0 DEF SimRowsOK
  <1>4. SimRowsOK'
    BY <1>0, <1>1, <1>3 DEF SimRowsOK
  <1>5. ExecutionsApart'
    BY <1>1 DEF SimInv, ExecutionsApart
  <1>6. OneUnrivalled' /\ StoredWasSourced'
    BY <1>2 DEF SimInv, OneUnrivalled, StoredWasSourced
  <1>7. ASSUME NEW s \in scenario \ possible
        PROVE  \/ s[1] \in broken'
               \/ \E d \in Executors : /\ executor'[d].at = "tell" /\ executor'[d].id = s[1]
                                       /\ executor'[d].told < s[2]
    <2>1. CASE s[1] \in broken
      BY <2>1
    <2>2. ASSUME NEW d \in Executors, executor[d].at = "tell", executor[d].id = s[1],
                 executor[d].told < s[2], d # e
          PROVE  executor'[d].at = "tell" /\ executor'[d].id = s[1] /\ executor'[d].told < s[2]
      BY <1>1, <2>2
    <2>3. CASE executor[e].at = "tell" /\ executor[e].id = s[1] /\ executor[e].told < s[2]
      <3>1. ASSUME executor[e].told = executor[e].size PROVE FALSE
        <4>1. PICK i \in Nat, n \in 1..MaxScenarios : s = <<i, n>>
          BY <1>0 DEF SimRowsOK
        <4>2. executor[e].id = i /\ executor[e].size < n
          BY <2>3, <3>1, <4>1
        <4>3. <<executor[e].id, n>> \in scenario <=> n <= executor[e].size
          BY <2>3 DEF SimInv, ExecutionOK
        <4>4. n <= executor[e].size
          BY <4>1, <4>2, <4>3
        <4>5. n \in Nat /\ executor[e].size \in Nat
          BY <1>0, <4>1 DEF Executions
        <4>. QED
          BY <4>2, <4>4, <4>5
      <3>. QED
        BY <2>3, <3>1
    <2>. QED
      BY <2>1, <2>2, <2>3 DEF SimInv, UntoldIsComing
  <1>8. ASSUME NEW i \in sourced' \ broken'
        PROVE  \/ status = "completed"
               \/ \E d \in Executors : executor'[d].at = "store" /\ executor'[d].id = i
    BY <1>1 DEF SimInv, SourcedIsComing
  <1>9. UntoldIsComing' /\ SourcedIsComing'
    BY <1>7, <1>8 DEF UntoldIsComing, SourcedIsComing
  <1>10. ASSUME NEW d \in Executors PROVE ExecutionOK(executor[d])'
    <2>1. CASE d = e
      BY <1>1, <2>1 DEF ExecutionOK
    <2>2. CASE d # e
      <3>1. executor'[d] = executor[d] /\ ExecutionOK(executor[d])
        BY <1>1, <2>2 DEF SimInv
      <3>. QED
        BY <1>2, <1>3, <3>1 DEF ExecutionOK
    <2>. QED
      BY <2>1, <2>2
  <1>. QED
    BY <1>4, <1>5, <1>6, <1>9, <1>10 DEF SimInv

LEMMA StoresStep ==
    ASSUME SimulationAssumption, SimInv, NEW e \in Executors, StoresScenarios(e)
    PROVE  SimInv'
  <1>0. SimRowsOK /\ begun \in Nat /\ MaxScenarios \in Nat
    BY DEF SimInv, SimRowsOK, SimulationAssumption
  <1>1. PICK was \in Executions : was = executor[e] /\ was.at = "store" /\ ExecutionOK(was)
    BY <1>0 DEF SimInv, SimRowsOK, StoresScenarios
  <1>2. PICK i \in 1..begun, z \in 0..MaxScenarios : i = was.id /\ z = was.size
    BY <1>1 DEF ExecutionOK, Executions
  <1>3. /\ i \notin Stored /\ i \in sourced /\ was.saw = {}
    BY <1>1, <1>2 DEF ExecutionOK
  <1>4. PICK x \in Executions : /\ x = [was EXCEPT !.at = "tell"] /\ x.at = "tell" /\ x.id = i
                               /\ x.size = z /\ x.told = 0 /\ x.saw = {}
    <2>1. PICK x : x = [was EXCEPT !.at = "tell"]
      OBVIOUS
    <2>2. x \in Executions /\ x.at = "tell"
      BY <2>1 DEF Executions
    <2>3. x.id = i /\ x.size = z /\ x.told = 0 /\ x.saw = {}
      BY <1>1, <1>2, <1>3, <2>1 DEF Executions, ExecutionOK
    <2>. QED
      BY <2>1, <2>2, <2>3
  <1>5. /\ executor' = [executor EXCEPT ![e] = x]
        /\ scenario' = scenario \cup ({i} \X (1..z)) /\ status' = "completed"
        /\ rivalled' = IF Stored \subseteq {} THEN rivalled ELSE rivalled \cup {i}
        /\ UNCHANGED <<begun, sourced, possible, broken>>
    BY <1>1, <1>2, <1>3, <1>4 DEF StoresScenarios
  <1>6. /\ executor' \in [Executors -> Executions] /\ executor'[e] = x
        /\ \A d \in Executors \ {e} : executor'[d] = executor[d]
    BY <1>5, OneExecution
  <1>7. SimRowsOK'
    <2>1. 1..z \subseteq 1..MaxScenarios
      BY <1>0
    <2>2. scenario' \subseteq (1..begun) \X (1..MaxScenarios)
      BY <1>0, <1>5, <2>1 DEF SimRowsOK
    <2>3. rivalled' \subseteq 1..begun
      BY <1>0, <1>5 DEF SimRowsOK
    <2>. QED
      BY <1>0, <1>5, <1>6, <2>2, <2>3 DEF SimRowsOK
  <1>8. Stored' \subseteq Stored \cup {i}
    BY <1>5 DEF Stored
  <1>9. OneUnrivalled' /\ StoredWasSourced'
    <2>1. StoredWasSourced'
      BY <1>3, <1>5 DEF SimInv, StoredWasSourced
    <2>2. CASE Stored = {}
      <3>1. i \in Nat /\ Stored' \subseteq {i} \cup rivalled'
        BY <1>0, <1>8, <2>2
      <3>. QED
        BY <1>5, <2>1, <3>1 DEF OneUnrivalled
    <2>3. CASE Stored # {}
      <3>1. PICK k \in Nat : Stored \subseteq {k} \cup rivalled
        BY DEF SimInv, OneUnrivalled
      <3>2. Stored' \subseteq {k} \cup rivalled'
        BY <1>5, <1>8, <2>3, <3>1
      <3>. QED
        BY <1>5, <2>1, <3>2 DEF OneUnrivalled
    <2>. QED
      BY <2>1, <2>2, <2>3
  <1>10. \A d \in Executors \ {e} : executor[d].at # "idle" => executor[d].id # i
    BY <1>1, <1>2 DEF SimInv, ExecutionsApart
  <1>11. ExecutionsApart'
    BY <1>4, <1>6, <1>10 DEF SimInv, ExecutionsApart
  <1>12. ASSUME NEW d \in Executors PROVE ExecutionOK(executor[d])'
    <2>1. CASE d = e
      <3>1. \A n \in 1..MaxScenarios : <<i, n>> \in scenario' <=> n <= z
        <4>1. \A n \in 1..MaxScenarios : <<i, n>> \notin scenario
          BY <1>3 DEF Stored
        <4>2. \A n \in 1..MaxScenarios : n \in 1..z <=> n <= z
          BY <1>0
        <4>. QED
          BY <1>5, <4>1, <4>2
      <3>2. x.told <= x.size
        BY <1>0, <1>4
      <3>3. ExecutionOK(x)'
        BY <1>3, <1>4, <1>5, <3>1, <3>2 DEF ExecutionOK
      <3>. QED
        BY <1>6, <2>1, <3>3 DEF ExecutionOK
    <2>2. CASE d # e
      <3>1. PICK w : w = executor[d] /\ w = executor'[d] /\ ExecutionOK(w)
        BY <1>6, <2>2 DEF SimInv
      <3>2. w.at # "idle" => w.id # i
        BY <1>10, <2>2, <3>1
      <3>3. w.at # "idle" => \A n : <<w.id, n>> \in scenario' <=> <<w.id, n>> \in scenario
        BY <1>5, <3>2
      <3>4. w.at # "idle" /\ w.id \notin Stored => w.id \notin Stored'
        BY <1>8, <3>2
      <3>. QED
        BY <1>5, <3>1, <3>3, <3>4 DEF ExecutionOK
    <2>. QED
      BY <2>1, <2>2
  <1>13. UntoldIsComing'
    <2>. SUFFICES ASSUME NEW s \in scenario' \ possible'
                  PROVE  \/ s[1] \in broken'
                         \/ \E d \in Executors : /\ executor'[d].at = "tell" /\ executor'[d].id = s[1]
                                                 /\ executor'[d].told < s[2]
      BY DEF UntoldIsComing
    <2>1. CASE s \in scenario
      <3>1. CASE s[1] \in broken
        BY <1>5, <3>1
      <3>2. ASSUME NEW d \in Executors, executor[d].at = "tell", executor[d].id = s[1],
                   executor[d].told < s[2]
            PROVE  executor'[d].at = "tell" /\ executor'[d].id = s[1] /\ executor'[d].told < s[2]
        BY <1>1, <1>6, <3>2
      <3>. QED
        BY <1>5, <2>1, <3>1, <3>2 DEF SimInv, UntoldIsComing
    <2>2. CASE s \notin scenario
      <3>1. PICK n \in 1..z : s = <<i, n>>
        BY <1>5, <2>2
      <3>2. 0 < n /\ s[1] = i /\ s[2] = n
        BY <3>1
      <3>. QED
        BY <1>4, <1>6, <3>2
    <2>. QED
      BY <2>1, <2>2
  <1>14. SourcedIsComing'
    BY <1>5 DEF SourcedIsComing
  <1>. QED
    BY <1>7, <1>9, <1>11, <1>12, <1>13, <1>14 DEF SimInv

LEMMA TellsStep ==
    ASSUME SimulationAssumption, SimInv, NEW e \in Executors, Tells(e)
    PROVE  SimInv'
  <1>0. SimRowsOK /\ begun \in Nat /\ MaxScenarios \in Nat
    BY DEF SimInv, SimRowsOK, SimulationAssumption
  <1>1. PICK was \in Executions : /\ was = executor[e] /\ was.at = "tell" /\ was.told < was.size
                                  /\ ExecutionOK(was)
    BY <1>0 DEF SimInv, SimRowsOK, Tells
  <1>2. PICK i \in 1..begun, z \in 0..MaxScenarios, k \in Nat, n \in Nat :
           i = was.id /\ z = was.size /\ k = was.told /\ n = k + 1 /\ k < z
    BY <1>1 DEF ExecutionOK, Executions
  <1>3. n \in 1..MaxScenarios /\ n <= z
    BY <1>0, <1>2
  <1>4. PICK x \in Executions : /\ x = [was EXCEPT !.told = n] /\ x.at = "tell" /\ x.id = i
                               /\ x.size = z /\ x.told = n /\ x.saw = {}
    <2>1. PICK x : x = [was EXCEPT !.told = n]
      OBVIOUS
    <2>2. x \in Executions /\ x.at = "tell" /\ x.told = n
      BY <1>1, <2>1 DEF Executions
    <2>3. x.id = i /\ x.size = z /\ x.saw = {}
      BY <1>1, <1>2, <2>1 DEF Executions, ExecutionOK
    <2>. QED
      BY <2>1, <2>2, <2>3
  <1>5. /\ executor' = [executor EXCEPT ![e] = x]
        /\ \/ possible' = possible \cup {<<i, n>>} /\ UNCHANGED broken
           \/ broken' = broken \cup {i} /\ UNCHANGED possible
        /\ UNCHANGED <<status, begun, sourced, scenario, rivalled>>
    BY <1>1, <1>2, <1>4 DEF Tells
  <1>6. /\ executor' \in [Executors -> Executions] /\ executor'[e] = x
        /\ \A d \in Executors \ {e} : executor'[d] = executor[d]
    BY <1>5, OneExecution
  <1>7. <<i, n>> \in scenario
    BY <1>1, <1>2, <1>3 DEF ExecutionOK
  <1>8. Stored' = Stored
    BY <1>5 DEF Stored
  <1>9. SimRowsOK'
    BY <1>0, <1>5, <1>6, <1>7 DEF SimRowsOK
  <1>10. OneUnrivalled' /\ StoredWasSourced'
    BY <1>5, <1>8 DEF SimInv, OneUnrivalled, StoredWasSourced
  <1>11. ExecutionsApart'
    <2>1. \A d \in Executors \ {e} : executor[d].at # "idle" => executor[d].id # i
      BY <1>1, <1>2 DEF SimInv, ExecutionsApart
    <2>. QED
      BY <1>4, <1>6, <2>1 DEF SimInv, ExecutionsApart
  <1>12. ASSUME NEW d \in Executors PROVE ExecutionOK(executor[d])'
    <2>1. CASE d = e
      <3>1. ExecutionOK(x)'
        BY <1>1, <1>2, <1>3, <1>4, <1>5 DEF ExecutionOK
      <3>. QED
        BY <1>6, <2>1, <3>1 DEF ExecutionOK
    <2>2. CASE d # e
      BY <1>5, <1>6, <1>8, <2>2 DEF SimInv, ExecutionOK
    <2>. QED
      BY <2>1, <2>2
  <1>13. UntoldIsComing'
    <2>. SUFFICES ASSUME NEW s \in scenario' \ possible'
                  PROVE  \/ s[1] \in broken'
                         \/ \E d \in Executors : /\ executor'[d].at = "tell" /\ executor'[d].id = s[1]
                                                 /\ executor'[d].told < s[2]
      BY DEF UntoldIsComing
    <2>1. s \in scenario \ possible
      BY <1>5
    <2>2. CASE s[1] \in broken
      BY <1>5, <2>2
    <2>3. ASSUME NEW d \in Executors, executor[d].at = "tell", executor[d].id = s[1],
                 executor[d].told < s[2], d # e
          PROVE  executor'[d].at = "tell" /\ executor'[d].id = s[1] /\ executor'[d].told < s[2]
      BY <1>6, <2>3
    <2>4. CASE executor[e].at = "tell" /\ executor[e].id = s[1] /\ executor[e].told < s[2]
      <3>1. PICK y \in 1..MaxScenarios : s = <<i, y>>
        BY <1>0, <1>1, <1>2, <2>1, <2>4 DEF SimRowsOK
      <3>2. k < y
        BY <1>1, <1>2, <2>4, <3>1
      <3>3. CASE y = n
        BY <1>5, <2>1, <3>1, <3>3
      <3>4. CASE y # n
        <4>1. n < y
          BY <1>2, <3>2, <3>4
        <4>. QED
          BY <1>4, <1>6, <3>1, <4>1
      <3>. QED
        BY <3>3, <3>4
    <2>. QED
      BY <2>1, <2>2, <2>3, <2>4 DEF SimInv, UntoldIsComing
  <1>14. SourcedIsComing'
    <2>1. \A d \in Executors : executor[d].at = "store" => executor'[d] = executor[d]
      BY <1>1, <1>6
    <2>. QED
      BY <1>5, <2>1 DEF SimInv, SourcedIsComing
  <1>. QED
    BY <1>9, <1>10, <1>11, <1>12, <1>13, <1>14 DEF SimInv

LEMMA SimStep ==
    ASSUME SimulationAssumption, SimInv, [SimNext]_simVars
    PROVE  SimInv'
  <1>0. SimRowsOK /\ begun \in Nat /\ MaxScenarios \in Nat
    BY DEF SimInv, SimRowsOK, SimulationAssumption
  <1>00. 1..begun \subseteq 1..(begun + 1) /\ begun <= begun /\ begun <= begun + 1
    BY <1>0
  <1>000. sourced \subseteq 1..begun /\ broken \subseteq 1..begun
    BY <1>0 DEF SimRowsOK
  <1>1. CASE Creates
    <2>1. Stored' = Stored /\ Stored = {}
      BY <1>1 DEF Creates, Stored, SimInv, OneUnrivalled
    <2>2. SimRowsOK' /\ ExecutionsApart' /\ StoredWasSourced' /\ UntoldIsComing' /\ OneUnrivalled'
      BY <1>1, <2>1 DEF Creates, SimInv, SimRowsOK, ExecutionsApart, OneUnrivalled, StoredWasSourced,
                        UntoldIsComing
    <2>3. SourcedIsComing'
      BY <1>1 DEF Creates, SimInv, SourcedIsComing
    <2>4. \A d \in Executors : ExecutionOK(executor[d])'
      BY <1>1, <2>1 DEF Creates, SimInv, ExecutionOK
    <2>. QED
      BY <2>2, <2>3, <2>4 DEF SimInv
  <1>2. ASSUME NEW e \in Executors, Begins(e) PROVE SimInv'
    <2>1. Stored = {} /\ executor[e].at = "idle" /\ begun' = begun + 1
      BY <1>2 DEF Begins, Executable, SimInv, OneUnrivalled
    <2>2. PICK i : i = begun + 1
      OBVIOUS
    <2>3. PICK x : x = [NoExecution EXCEPT !.at = "ask", !.id = i, !.saw = {}]
      OBVIOUS
    <2>4. x \in Executions /\ x.at = "ask" /\ x.id = i /\ x.told = 0 /\ x.saw = {}
      <3>1. NoExecution \in Executions /\ i \in Nat
        BY <1>0, <2>2, IdleExecution
      <3>2. x.at = "ask" /\ x.id = i /\ x.told = 0 /\ x.saw = {}
        BY <2>3 DEF NoExecution
      <3>3. x \in Executions
        BY <2>3, <3>1 DEF Executions
      <3>. QED
        BY <3>2, <3>3
    <2>5. /\ executor' = [executor EXCEPT ![e] = x]
          /\ UNCHANGED <<status, sourced, scenario, possible, rivalled, broken>>
      BY <1>2, <2>1, <2>2, <2>3 DEF Begins
    <2>6. ExecutionOK(x)'
      <3>1. i \in 1..begun' /\ Stored' = {}
        <4>1. begun' = begun + 1 /\ i = begun + 1 /\ i \in Nat /\ 1 <= i
          BY <1>0, <2>1, <2>2
        <4>2. i \in 1..begun'
          BY <4>1
        <4>. QED
          BY <2>1, <2>5, <4>2 DEF Stored
      <3>. QED
        BY <2>4, <3>1 DEF ExecutionOK
    <2>7. \A d \in Executors \ {e} : executor[d].at # "idle" /\ x.at # "idle" => executor[d].id # x.id
      <3>1. \A d \in Executors : executor[d].at # "idle" => executor[d].id \in 1..begun
        BY DEF SimInv, ExecutionOK
      <3>2. i \notin 1..begun
        BY <1>0, <2>2
      <3>. QED
        BY <2>4, <3>1, <3>2
    <2>8. begun' \in Nat /\ begun <= begun' /\ sourced' \subseteq 1..begun' /\ broken' \subseteq 1..begun'
      BY <1>0, <1>00, <1>000, <2>1, <2>5
    <2>. QED
      BY <2>1, <2>4, <2>5, <2>6, <2>7, <2>8, Advances
  <1>3. ASSUME NEW e \in Executors, Answers(e) PROVE SimInv'
    <2>1. PICK was \in Executions : was = executor[e] /\ was.at = "ask" /\ ExecutionOK(was)
      BY <1>0, <1>3 DEF SimInv, SimRowsOK, Answers
    <2>2. UNCHANGED <<status, begun, sourced, scenario, possible, rivalled, broken>>
      BY <1>3 DEF Answers
    <2>3. PICK x \in Executions : /\ executor' = [executor EXCEPT ![e] = x]
                                 /\ x.at \in {"idle", "source"} /\ (x.at # "idle" => x.id = was.id)
                                 /\ ExecutionOK(x)
      <3>1. CASE executor' = [executor EXCEPT ![e] = NoExecution]
        BY <3>1, IdleExecution DEF NoExecution, ExecutionOK
      <3>2. ASSUME NEW size \in 0..MaxScenarios,
                   executor' = [executor EXCEPT ![e].at = "source", ![e].size = size]
            PROVE  \E x \in Executions : /\ executor' = [executor EXCEPT ![e] = x]
                                         /\ x.at \in {"idle", "source"} /\ (x.at # "idle" => x.id = was.id)
                                         /\ ExecutionOK(x)
        <4>1. PICK x : x = [was EXCEPT !.at = "source", !.size = size]
          OBVIOUS
        <4>2. x \in Executions /\ x.at = "source" /\ x.id = was.id
          BY <4>1 DEF Executions
        <4>3. x.told = was.told /\ x.saw = was.saw
          BY <4>1 DEF Executions
        <4>4. executor' = [executor EXCEPT ![e] = x]
          BY <1>0, <2>1, <3>2, <4>1 DEF SimRowsOK
        <4>5. ExecutionOK(x)
          BY <2>1, <4>2, <4>3 DEF ExecutionOK
        <4>. QED
          BY <4>2, <4>4, <4>5
      <3>. QED
        BY <1>3, <3>1, <3>2 DEF Answers
    <2>4. ExecutionOK(x)'
      <3>1. Stored' = Stored /\ begun' = begun /\ sourced' = sourced
        BY <2>2 DEF Stored
      <3>. QED
        BY <2>3, <3>1 DEF ExecutionOK
    <2>5. ASSUME NEW d \in Executors \ {e}, executor[d].at # "idle", x.at # "idle"
          PROVE  executor[d].id # x.id
      <3>1. executor[d].id # was.id
        BY <2>1, <2>5 DEF SimInv, ExecutionsApart
      <3>. QED
        BY <2>3, <2>5, <3>1
    <2>. QED
      BY <1>0, <1>00, <1>000, <2>1, <2>2, <2>3, <2>4, <2>5, Advances
  <1>4. ASSUME NEW e \in Executors, RecordsSource(e) PROVE SimInv'
    <2>1. PICK was \in Executions : was = executor[e] /\ was.at = "source" /\ ExecutionOK(was)
      BY <1>0, <1>4 DEF SimInv, SimRowsOK, RecordsSource
    <2>2. UNCHANGED <<status, begun, scenario, possible, rivalled, broken>>
      BY <1>4 DEF RecordsSource
    <2>3. PICK x : x = [was EXCEPT !.at = "store"]
      OBVIOUS
    <2>4. x \in Executions /\ x.at = "store" /\ x.id = was.id
      BY <2>3 DEF Executions
    <2>5. x.told = was.told /\ x.saw = was.saw
      BY <2>3 DEF Executions
    <2>6. executor' = [executor EXCEPT ![e] = x] /\ sourced' = sourced \cup {x.id}
      BY <1>4, <2>1, <2>3, <2>4 DEF RecordsSource
    <2>7. x.id \in 1..begun
      BY <2>1, <2>4 DEF ExecutionOK
    <2>8. ExecutionOK(x)'
      BY <2>1, <2>2, <2>4, <2>5, <2>6 DEF ExecutionOK, Stored
    <2>9. \A d \in Executors \ {e} : executor[d].at # "idle" /\ x.at # "idle" => executor[d].id # x.id
      BY <2>1, <2>4 DEF SimInv, ExecutionsApart
    <2>10. \A i \in sourced' \ sourced : x.at = "store" /\ x.id = i
      BY <2>4, <2>6
    <2>11. sourced \subseteq sourced' /\ sourced' \subseteq 1..begun'
      BY <1>000, <2>2, <2>6, <2>7
    <2>. QED
      BY <1>0, <1>00, <1>000, <2>1, <2>2, <2>4, <2>6, <2>8, <2>9, <2>10, <2>11, Advances
  <1>5. ASSUME NEW e \in Executors, StoresScenarios(e) PROVE SimInv'
    BY <1>5, StoresStep
  <1>6. ASSUME NEW e \in Executors, Tells(e) PROVE SimInv'
    BY <1>6, TellsStep
  <1>7. ASSUME NEW e \in Executors, Returns(e) PROVE SimInv'
    <2>1. ExecutionOK(NoExecution)'
      BY DEF NoExecution, ExecutionOK
    <2>. QED
      BY <1>0, <1>00, <1>000, <1>7, <2>1, IdleExecution, Advances DEF Returns
  <1>8. ASSUME NEW e \in Executors, Aborts(e) PROVE SimInv'
    <2>1. ExecutionOK(NoExecution)'
      BY DEF NoExecution, ExecutionOK
    <2>2. executor[e].id \in 1..begun
      BY <1>8 DEF SimInv, ExecutionOK, Aborts
    <2>3. broken' = broken \cup {executor[e].id} /\ begun' = begun /\ sourced' = sourced
      BY <1>8 DEF Aborts
    <2>4. broken' \subseteq 1..begun' /\ sourced' \subseteq 1..begun'
      BY <1>000, <2>2, <2>3
    <2>. QED
      BY <1>0, <1>00, <1>8, <2>1, <2>3, <2>4, IdleExecution, Advances DEF Aborts
  <1>9. CASE UNCHANGED simVars
    BY <1>9 DEF simVars, SimInv, SimRowsOK, ExecutionsApart, OneUnrivalled, StoredWasSourced,
                UntoldIsComing, SourcedIsComing, ExecutionOK, Stored
  <1>. QED
    BY <1>1, <1>2, <1>3, <1>4, <1>5, <1>6, <1>7, <1>8, <1>9 DEF SimNext

\* A simulation shows the scenarios of one execution, and of one more for each that
\* stored although another had; every possible world tells a stored scenario, and at
\* rest all is told but what a fault befell (run_simulation of orchestration/workflows).
THEOREM SimulationHolds ==
    ASSUME SimulationAssumption
    PROVE  SimSpec => []SimulationSound
  <1>1. SimInit => SimInv
    BY StartsSimulation
  <1>2. SimInv /\ [SimNext]_simVars => SimInv'
    BY SimStep
  <1>3. SimInv => SimulationSound
    <2>. SUFFICES ASSUME SimInv PROVE SimTypeOK /\ SimulatedOnce /\ WorldsTold
      BY DEF SimulationSound
    <2>1. SimTypeOK
      BY DEF SimInv, SimRowsOK, SimTypeOK
    <2>2. SimulatedOnce
      <3>1. PICK k \in Nat : Stored \subseteq {k} \cup rivalled
        BY DEF SimInv, OneUnrivalled
      <3>2. IsFiniteSet(rivalled)
        <4>1. begun \in Nat /\ rivalled \subseteq 1..begun
          BY DEF SimInv, SimRowsOK
        <4>. QED
          <5>1. IsFiniteSet(1..begun)
            BY <4>1, FS_Interval
          <5>. QED
            BY <4>1, <5>1, FS_Subset
      <3>3. /\ IsFiniteSet(rivalled \cup {k})
            /\ Cardinality(rivalled \cup {k}) <= Cardinality(rivalled) + 1
        <4>1. Cardinality(rivalled) \in Nat
          BY <3>2, FS_CardinalityType
        <4>. QED
          BY <3>2, <4>1, FS_AddElement
      <3>4. Stored \subseteq rivalled \cup {k}
        BY <3>1
      <3>5. Cardinality(Stored) <= Cardinality(rivalled \cup {k})
        BY <3>3, <3>4, FS_Subset
      <3>6. Cardinality(rivalled) \in Nat /\ Cardinality(Stored) \in Nat
            /\ Cardinality(rivalled \cup {k}) \in Nat
        BY <3>2, <3>3, <3>4, FS_Subset, FS_CardinalityType
      <3>. QED
        BY <3>3, <3>5, <3>6 DEF SimulatedOnce
    <2>3. WorldsTold
      <3>1. possible \subseteq scenario /\ \A s \in scenario : s[1] \in sourced
        BY DEF SimInv, SimRowsOK, StoredWasSourced
      <3>2. ASSUME \A e \in Executors : executor[e].at = "idle"
            PROVE  /\ \A s \in scenario \ possible : s[1] \in broken
                   /\ status # "completed" => sourced \subseteq broken
        BY <3>2 DEF SimInv, UntoldIsComing, SourcedIsComing
      <3>. QED
        BY <3>1, <3>2 DEF WorldsTold
    <2>. QED
      BY <2>1, <2>2, <2>3
  <1>. QED
    BY <1>1, <1>2, <1>3, PTL DEF SimSpec

-----------------------------------------------------------------------------
(* Why a sketch graduates once but for overlaps and restarts, for any number *)
(* of requests: of those under way one began alone, and until it has made    *)
(* its project, or none is marked, every project is counted elsewhere.       *)

Stages == {"home", "newhome", "project", "mark"}
Statuses == {"none", "seed", "conjecture", "hypothesis"}
SketchRows == [status : Statuses, to : Nat]
Requests == [at : {"idle", "update"} \cup Stages, skt : SketchIds \cup {""},
             to : {"", "conjecture", "hypothesis"}, prj : Nat, rival : BOOLEAN]
SkRowsOK ==
    /\ sketch \in [SketchIds -> SketchRows] /\ homes \in Nat
    /\ project \in [1..MaxProjects -> SketchIds \cup {""}]
    /\ call \in [Users -> Requests]
    /\ rivals \in [SketchIds -> Nat] /\ unmarked \in [SketchIds -> Nat]
    /\ \A s \in SketchIds : sketch[s].to \in Projects \cup {0}

RequestOK(r) ==
    /\ r.at # "idle" => r.skt \in SketchIds
    /\ r.at = "update" => r.to # ""
    /\ r.at = "mark" => r.prj \in Projects

\* The graduation that began while no other was under way.
Foremost(r, s) == r.at \in Stages /\ r.skt = s /\ ~r.rival
OneForemost ==
    \A c, d \in Users, s \in SketchIds : Foremost(call[c], s) /\ Foremost(call[d], s) => c = d

\* Only it can add a project that is counted nowhere else, and only once.
Owed(s) == rivals[s] + unmarked[s]
Settled(s) ==
    \/ \E c \in Users : Foremost(call[c], s) /\ call[c].at # "mark"
    \/ sketch[s].to = 0 /\ \A c \in Users : Foremost(call[c], s) => call[c].at # "mark"
FewMade ==
    \A s \in SketchIds : /\ Cardinality(Made(s)) <= 1 + Owed(s)
                         /\ Settled(s) => Cardinality(Made(s)) <= Owed(s)

SkInv ==
    /\ SkRowsOK /\ OneForemost /\ FewMade
    /\ \A c \in Users : RequestOK(call[c])

LEMMA MadeFinite ==
    ASSUME SketchesAssumption, NEW s
    PROVE  IsFiniteSet(Made(s)) /\ Cardinality(Made(s)) \in Nat
  <1>1. IsFiniteSet(1..MaxProjects)
    <2>1. MaxProjects \in Nat
      BY DEF SketchesAssumption
    <2>2. 1 \in Int /\ MaxProjects \in Int
      BY <2>1
    <2>. QED
      BY <2>2, FS_Interval
  <1>2. Made(s) \subseteq 1..MaxProjects
    BY DEF Made, Projects
  <1>. QED
    BY <1>1, <1>2, FS_Subset, FS_CardinalityType

LEMMA NoRequestOK == NoRequest \in Requests /\ NoRequest.at = "idle"
  BY DEF NoRequest, Requests

LEMMA StartsSketches == SketchesAssumption /\ SkInit => SkInv
  <1>. SUFFICES ASSUME SketchesAssumption, SkInit PROVE SkInv
    OBVIOUS
  <1>1. \A c \in Users : call[c] = NoRequest
    BY DEF SkInit
  <1>2. SkRowsOK
    <2>1. call \in [Users -> Requests]
      BY NoRequestOK DEF SkInit
    <2>2. sketch \in [SketchIds -> SketchRows] /\ \A s \in SketchIds : sketch[s].to = 0
      BY DEF SkInit, NoSketch, SketchRows, Statuses
    <2>. QED
      BY <2>1, <2>2 DEF SkInit, SkRowsOK
  <1>3. \A s : Made(s) = {}
    BY DEF SkInit, Made, Projects
  <1>4. FewMade
    <2>1. \A s \in SketchIds : Owed(s) = 0
      <3>1. \A s \in SketchIds : rivals[s] = 0 /\ unmarked[s] = 0
        BY DEF SkInit
      <3>. QED
        BY <3>1 DEF Owed
    <2>2. \A s \in SketchIds : Cardinality(Made(s)) = 0
      BY <1>3, FS_EmptySet
    <2>. QED
      BY <2>1, <2>2 DEF FewMade
  <1>5. OneForemost /\ \A c \in Users : RequestOK(call[c])
    BY <1>1, NoRequestOK DEF OneForemost, Foremost, RequestOK, Stages
  <1>. QED
    BY <1>2, <1>4, <1>5 DEF SkInv

LEMMA OneRequest ==
    ASSUME SkInv, NEW c \in Users, NEW r \in Requests, call' = [call EXCEPT ![c] = r]
    PROVE  /\ call' \in [Users -> Requests] /\ call'[c] = r
           /\ \A d \in Users \ {c} : call'[d] = call[d]
  BY DEF SkInv, SkRowsOK

\* A request that goes on: no project comes, and none is marked.
LEMMA RequestMoves ==
    ASSUME SketchesAssumption, SkInv, NEW c \in Users, NEW r \in Requests, call' = [call EXCEPT ![c] = r],
           UNCHANGED <<project, rivals, unmarked>>, homes' \in Nat,
           sketch' \in [SketchIds -> SketchRows],
           \A s \in SketchIds : sketch'[s].to = sketch[s].to,
           RequestOK(r), call[c].at # "mark", r.at # "mark",
           \A s \in SketchIds : Foremost(r, s) =>
              Foremost(call[c], s) \/ (sketch[s].to = 0 /\ \A d \in Users : ~Foremost(call[d], s))
    PROVE  SkInv'
  <1>0. SkRowsOK
    BY DEF SkInv
  <1>1. /\ call' \in [Users -> Requests] /\ call'[c] = r
        /\ \A d \in Users \ {c} : call'[d] = call[d]
    BY OneRequest
  <1>2. Projects' = Projects /\ \A s : Made(s)' = Made(s)
    BY DEF Projects, Made
  <1>3. SkRowsOK'
    BY <1>0, <1>1, <1>2 DEF SkRowsOK
  <1>4. \A d \in Users : RequestOK(call[d])'
    BY <1>1, <1>2 DEF SkInv, RequestOK
  <1>5. \A d \in Users, s \in SketchIds :
           Foremost(call'[d], s) => Foremost(call[d], s)
                                    \/ (d = c /\ sketch[s].to = 0 /\ \A b \in Users : ~Foremost(call[b], s))
    BY <1>1
  <1>6. OneForemost'
    <2>1. ASSUME NEW a \in Users, NEW b \in Users, NEW s \in SketchIds,
                 Foremost(call'[a], s), Foremost(call'[b], s)
          PROVE  a = b
      BY <1>1, <1>5, <2>1 DEF SkInv, OneForemost
    <2>. QED
      BY <2>1 DEF OneForemost, Foremost
  <1>7. ASSUME NEW s \in SketchIds PROVE Settled(s)' => Settled(s)
    <2>1. CASE \E d \in Users : Foremost(call'[d], s) /\ call'[d].at # "mark"
      <3>1. PICK d \in Users : Foremost(call'[d], s) /\ call'[d].at # "mark"
        BY <2>1
      <3>2. call[d].at # "mark"
        BY <1>1, <3>1
      <3>. QED
        BY <1>5, <3>1, <3>2 DEF Settled
    <2>2. CASE sketch'[s].to = 0 /\ \A d \in Users : Foremost(call'[d], s) => call'[d].at # "mark"
      <3>1. \A d \in Users : Foremost(call[d], s) => call[d].at # "mark"
        BY <1>1, <2>2
      <3>. QED
        BY <2>2, <3>1 DEF Settled
    <2>. QED
      BY <2>1, <2>2 DEF Settled, Foremost
  <1>8. FewMade'
    BY <1>2, <1>7 DEF SkInv, FewMade, Owed
  <1>. QED
    BY <1>3, <1>4, <1>6, <1>8 DEF SkInv

\* A graduation on its way to the project.
LEMMA NextStage ==
    ASSUME SketchesAssumption, SkInv, NEW c \in Users, NEW at \in {"newhome", "project"},
           call' = [call EXCEPT ![c].at = at], call[c].at \in {"home", "newhome"},
           UNCHANGED <<sketch, project, rivals, unmarked>>, homes' \in Nat
    PROVE  SkInv'
  <1>0. SkRowsOK /\ sketch \in [SketchIds -> SketchRows]
    BY DEF SkInv, SkRowsOK
  <1>1. PICK was \in Requests : was = call[c] /\ RequestOK(was)
    BY <1>0 DEF SkInv, SkRowsOK
  <1>2. PICK r : r = [was EXCEPT !.at = at]
    OBVIOUS
  <1>3. r \in Requests /\ r.at = at
    BY <1>2 DEF Requests, Stages
  <1>4. r.skt = was.skt /\ r.rival = was.rival
    BY <1>2 DEF Requests
  <1>5. RequestOK(r)
    BY <1>1, <1>3, <1>4 DEF RequestOK
  <1>6. \A s \in SketchIds : Foremost(r, s) => Foremost(call[c], s)
    BY <1>1, <1>3, <1>4 DEF Foremost, Stages
  <1>7. call' = [call EXCEPT ![c] = r]
    BY <1>1, <1>2
  <1>. QED
    BY <1>0, <1>3, <1>5, <1>6, <1>7, RequestMoves

LEMMA MakesStep ==
    ASSUME SketchesAssumption, SkInv, NEW c \in Users, MakeGraduate(c)
    PROVE  SkInv'
  <1>0. SkRowsOK /\ MaxProjects \in Nat
    BY DEF SkInv, SketchesAssumption
  <1>1. PICK was \in Requests : was = call[c] /\ was.at = "project" /\ RequestOK(was)
    BY <1>0 DEF SkInv, SkRowsOK, MakeGraduate
  <1>2. PICK g \in SketchIds : g = was.skt
    BY <1>1 DEF RequestOK
  <1>3. PICK p \in (1..MaxProjects) \ Projects :
           /\ project' = [project EXCEPT ![p] = g]
           /\ call' = [call EXCEPT ![c].at = "mark", ![c].prj = p]
    BY <1>1, <1>2 DEF MakeGraduate
  <1>4. PICK x : x = [was EXCEPT !.at = "mark", !.prj = p]
    OBVIOUS
  <1>5. p \in Nat /\ x \in Requests /\ x.at = "mark" /\ x.prj = p
    <2>1. p \in Nat
      BY <1>0
    <2>. QED
      BY <1>4, <2>1 DEF Requests, Stages
  <1>6. x.skt = g /\ x.rival = was.rival
    BY <1>2, <1>4 DEF Requests
  <1>7. call' = [call EXCEPT ![c] = x]
    BY <1>0, <1>1, <1>3, <1>4 DEF SkRowsOK
  <1>8. /\ call' \in [Users -> Requests] /\ call'[c] = x
        /\ \A d \in Users \ {c} : call'[d] = call[d]
    BY <1>5, <1>7, OneRequest
  <1>9. /\ UNCHANGED <<sketch, homes, unmarked>>
        /\ rivals' = [rivals EXCEPT ![g] = @ + (IF was.rival THEN 1 ELSE 0)]
    BY <1>1, <1>2 DEF MakeGraduate
  <1>10. Projects' = Projects \cup {p}
    BY <1>0, <1>2, <1>3 DEF SkRowsOK, Projects, SketchesAssumption
  <1>11. /\ Made(g)' = Made(g) \cup {p} /\ p \notin Made(g)
         /\ \A s \in SketchIds \ {g} : Made(s)' = Made(s)
    BY <1>0, <1>3, <1>10 DEF SkRowsOK, Projects, Made
  <1>12. SkRowsOK'
    <2>1. project' \in [1..MaxProjects -> SketchIds \cup {""}]
      BY <1>0, <1>3 DEF SkRowsOK
    <2>2. rivals' \in [SketchIds -> Nat]
      <3>1. PICK k \in Nat : k = rivals[g] + (IF was.rival THEN 1 ELSE 0)
        <4>1. PICK o \in Nat : o = rivals[g]
          BY <1>0 DEF SkRowsOK
        <4>. QED
          BY <4>1
      <3>2. rivals' = [rivals EXCEPT ![g] = k]
        BY <1>9, <3>1
      <3>. QED
        BY <1>0, <3>2 DEF SkRowsOK
    <2>. QED
      BY <1>0, <1>8, <1>9, <1>10, <2>1, <2>2 DEF SkRowsOK
  <1>13. \A d \in Users : RequestOK(call[d])'
    BY <1>5, <1>6, <1>8, <1>10 DEF SkInv, RequestOK
  <1>14. \A d \in Users, s \in SketchIds : Foremost(call'[d], s) <=> Foremost(call[d], s)
    BY <1>1, <1>2, <1>5, <1>6, <1>8 DEF Foremost, Stages
  <1>15. OneForemost'
    BY <1>14 DEF SkInv, OneForemost, Foremost
  <1>16. ASSUME NEW s \in SketchIds, s # g
         PROVE  /\ Cardinality(Made(s))' <= 1 + Owed(s)'
                /\ Settled(s)' => Cardinality(Made(s))' <= Owed(s)'
    <2>1. Owed(s)' = Owed(s)
      BY <1>0, <1>9, <1>16 DEF SkRowsOK, Owed
    <2>2. Settled(s)' => Settled(s)
      <3>1. \A d \in Users : Foremost(call[d], s) => d # c /\ call'[d] = call[d]
        BY <1>1, <1>2, <1>8, <1>16 DEF Foremost
      <3>2. \A d \in Users : Foremost(call'[d], s) => d # c /\ call'[d] = call[d]
        BY <1>14, <3>1
      <3>. QED
        BY <1>9, <3>1, <3>2 DEF Settled, Foremost
    <2>. QED
      BY <1>11, <1>16, <2>1, <2>2 DEF SkInv, FewMade
  <1>17. /\ Cardinality(Made(g))' <= 1 + Owed(g)'
         /\ Settled(g)' => Cardinality(Made(g))' <= Owed(g)'
    <2>1. PICK m \in Nat, o \in Nat, u \in Nat : m = Cardinality(Made(g)) /\ o = rivals[g] /\ u = unmarked[g]
      BY <1>0, MadeFinite DEF SkRowsOK
    <2>2. Cardinality(Made(g))' = m + 1
      BY <1>11, <2>1, MadeFinite, FS_AddElement
    <2>3. m <= 1 + (o + u) /\ (Settled(g) => m <= o + u)
      BY <2>1 DEF SkInv, FewMade, Owed
    <2>4. CASE was.rival
      <3>1. Owed(g)' = (o + 1) + u
        BY <1>0, <1>9, <2>1, <2>4 DEF SkRowsOK, Owed
      <3>2. Settled(g)' => Settled(g)
        <4>1. \A d \in Users : Foremost(call[d], g) => d # c /\ call'[d] = call[d]
          BY <1>1, <1>8, <2>4 DEF Foremost
        <4>2. \A d \in Users : Foremost(call'[d], g) => d # c /\ call'[d] = call[d]
          BY <1>14, <4>1
        <4>. QED
          BY <1>9, <4>1, <4>2 DEF Settled, Foremost
      <3>. QED
        BY <2>2, <2>3, <3>1, <3>2
    <2>5. CASE ~was.rival
      <3>1. Foremost(call[c], g) /\ call[c].at # "mark"
        BY <1>1, <1>2, <2>5 DEF Foremost, Stages
      <3>2. m <= o + u
        BY <2>3, <3>1 DEF Settled
      <3>3. Owed(g)' = o + u
        <4>1. rivals'[g] = o + 0 /\ unmarked'[g] = u
          BY <1>0, <1>9, <2>1, <2>5 DEF SkRowsOK
        <4>. QED
          BY <4>1 DEF Owed
      <3>4. ~Settled(g)'
        <4>1. \A d \in Users : Foremost(call'[d], g) => d = c
          BY <1>14, <3>1 DEF SkInv, OneForemost
        <4>2. Foremost(call'[c], g) /\ call'[c].at = "mark"
          BY <1>5, <1>8, <1>14, <3>1
        <4>. QED
          BY <4>1, <4>2 DEF Settled, Foremost
      <3>. QED
        BY <2>2, <3>2, <3>3, <3>4
    <2>. QED
      BY <2>4, <2>5
  <1>18. FewMade'
    BY <1>16, <1>17 DEF FewMade
  <1>. QED
    BY <1>12, <1>13, <1>15, <1>18 DEF SkInv

LEMMA MarkStep ==
    ASSUME SketchesAssumption, SkInv, NEW c \in Users, Mark(c)
    PROVE  SkInv'
  <1>0. SkRowsOK
    BY DEF SkInv
  <1>1. PICK was \in Requests : was = call[c] /\ was.at = "mark" /\ RequestOK(was)
    BY <1>0 DEF SkInv, SkRowsOK, Mark
  <1>2. PICK g \in SketchIds, p \in Projects : g = was.skt /\ p = was.prj
    BY <1>1 DEF RequestOK
  <1>3. /\ sketch' = [sketch EXCEPT ![g].to = p] /\ call' = [call EXCEPT ![c] = NoRequest]
        /\ UNCHANGED <<homes, project, rivals, unmarked>>
    BY <1>1, <1>2 DEF Mark
  <1>4. /\ call' \in [Users -> Requests] /\ call'[c] = NoRequest
        /\ \A d \in Users \ {c} : call'[d] = call[d]
    BY <1>3, NoRequestOK, OneRequest
  <1>5. Projects' = Projects /\ \A s : Made(s)' = Made(s)
    BY <1>3 DEF Projects, Made
  <1>6. p \in Nat /\ p # 0
    <2>1. p \in 1..MaxProjects /\ MaxProjects \in Nat
      BY DEF Projects, SketchesAssumption
    <2>. QED
      BY <2>1
  <1>7. /\ sketch' \in [SketchIds -> SketchRows] /\ sketch'[g].to = p
        /\ \A s \in SketchIds \ {g} : sketch'[s] = sketch[s]
    BY <1>0, <1>3, <1>6 DEF SkRowsOK, SketchRows
  <1>8. SkRowsOK'
    <2>1. \A s \in SketchIds : sketch'[s].to \in Projects' \cup {0}
      BY <1>0, <1>5, <1>7 DEF SkRowsOK
    <2>. QED
      BY <1>0, <1>3, <1>4, <1>7, <2>1 DEF SkRowsOK
  <1>9. \A d \in Users : RequestOK(call[d])'
    BY <1>4, <1>5, NoRequestOK DEF SkInv, RequestOK
  <1>10. \A d \in Users, s \in SketchIds : Foremost(call'[d], s) => Foremost(call[d], s) /\ call'[d] = call[d]
    BY <1>4, NoRequestOK DEF Foremost, Stages
  <1>11. OneForemost'
    <2>1. ASSUME NEW a \in Users, NEW b \in Users, NEW s \in SketchIds,
                 Foremost(call'[a], s), Foremost(call'[b], s)
          PROVE  a = b
      BY <1>10, <2>1 DEF SkInv, OneForemost
    <2>. QED
      BY <2>1 DEF OneForemost, Foremost
  <1>12. ASSUME NEW s \in SketchIds PROVE Settled(s)' => Settled(s)
    <2>1. CASE s = g
      BY <1>6, <1>7, <1>10, <2>1 DEF Settled, Foremost
    <2>2. CASE s # g
      <3>1. \A d \in Users : Foremost(call[d], s) => call'[d] = call[d]
        BY <1>1, <1>2, <1>4, <2>2 DEF Foremost
      <3>. QED
        BY <1>7, <1>10, <2>2, <3>1 DEF Settled, Foremost
    <2>. QED
      BY <2>1, <2>2
  <1>13. FewMade'
    BY <1>3, <1>5, <1>12 DEF SkInv, FewMade, Owed
  <1>. QED
    BY <1>8, <1>9, <1>11, <1>13 DEF SkInv

LEMMA CrashStep ==
    ASSUME SketchesAssumption, SkInv, SkCrash
    PROVE  SkInv'
  <1>0. SkRowsOK
    BY DEF SkInv
  <1>1. /\ call' = [c \in Users |-> NoRequest] /\ unmarked' = UnmarkedBy(Users)
        /\ UNCHANGED <<sketch, homes, project, rivals>>
    BY DEF SkCrash
  <1>2. Projects' = Projects /\ \A s : Made(s)' = Made(s)
    BY <1>1 DEF Projects, Made
  <1>3. \A c \in Users : call'[c] = NoRequest
    BY <1>1
  <1>. DEFINE AtMark(s) == {c \in Users : call[c].at = "mark" /\ call[c].skt = s}
  <1>4. \A s : IsFiniteSet(AtMark(s)) /\ Cardinality(AtMark(s)) \in Nat
    <2>1. \A s : AtMark(s) \subseteq Users
      OBVIOUS
    <2>. QED
      BY <2>1, FS_Subset, FS_CardinalityType DEF SketchesAssumption
  <1>5. \A s \in SketchIds : unmarked'[s] = unmarked[s] + Cardinality(AtMark(s))
    BY <1>1 DEF UnmarkedBy
  <1>6. unmarked' \in [SketchIds -> Nat]
    <2>1. \A s \in SketchIds : unmarked'[s] \in Nat
      <3>1. ASSUME NEW s \in SketchIds PROVE unmarked'[s] \in Nat
        <4>1. PICK u \in Nat, k \in Nat : u = unmarked[s] /\ k = Cardinality(AtMark(s))
          BY <1>0, <1>4 DEF SkRowsOK
        <4>2. unmarked'[s] = u + k
          BY <1>5, <4>1
        <4>. QED
          BY <4>2
      <3>. QED
        BY <3>1
    <2>2. unmarked' = [s \in SketchIds |-> unmarked'[s]]
      BY <1>1 DEF UnmarkedBy
    <2>. QED
      BY <2>1, <2>2
  <1>7. SkRowsOK'
    <2>1. call' \in [Users -> Requests]
      BY <1>1, NoRequestOK
    <2>. QED
      BY <1>0, <1>1, <1>2, <1>6, <2>1 DEF SkRowsOK
  <1>8. OneForemost' /\ \A c \in Users : RequestOK(call[c])'
    BY <1>3, NoRequestOK DEF OneForemost, Foremost, RequestOK, Stages
  <1>9. ASSUME NEW s \in SketchIds
        PROVE  /\ Cardinality(Made(s))' <= 1 + Owed(s)'
               /\ Settled(s)' => Cardinality(Made(s))' <= Owed(s)'
    <2>1. PICK m \in Nat, o \in Nat, u \in Nat, k \in Nat :
             /\ m = Cardinality(Made(s)) /\ o = rivals[s] /\ u = unmarked[s]
             /\ k = Cardinality(AtMark(s))
      BY <1>0, <1>4, MadeFinite DEF SkRowsOK
    <2>2. Owed(s)' = o + (u + k) /\ Cardinality(Made(s))' = m
      BY <1>1, <1>2, <1>5, <2>1 DEF Owed
    <2>3. m <= 1 + (o + u) /\ (Settled(s) => m <= o + u)
      BY <2>1 DEF SkInv, FewMade, Owed
    <2>4. Settled(s)' => m <= o + (u + k)
      <3>1. CASE k = 0
        <4>1. AtMark(s) = {}
          BY <1>4, <2>1, <3>1, FS_EmptySet
        <4>2. \A c \in Users : Foremost(call[c], s) => call[c].at # "mark"
          BY <4>1 DEF Foremost
        <4>3. Settled(s)' => Settled(s)
          BY <1>1, <1>3, <4>2, NoRequestOK DEF Settled, Foremost, Stages
        <4>. QED
          BY <2>3, <3>1, <4>3
      <3>2. CASE k # 0
        BY <2>3, <3>2
      <3>. QED
        BY <3>1, <3>2
    <2>. QED
      BY <2>2, <2>3, <2>4
  <1>10. FewMade'
    BY <1>9 DEF FewMade
  <1>. QED
    BY <1>7, <1>8, <1>10 DEF SkInv

LEMMA SketchesStep ==
    ASSUME SketchesAssumption, SkInv, [SkNext]_sketchVars
    PROVE  SkInv'
  <1>0. SkRowsOK /\ homes \in Nat /\ sketch \in [SketchIds -> SketchRows]
    BY DEF SkInv, SkRowsOK
  <1>00. \A c \in Users : call[c] \in Requests /\ RequestOK(call[c])
    BY <1>0 DEF SkInv, SkRowsOK
  <1>000. RequestOK(NoRequest) /\ \A s : ~Foremost(NoRequest, s)
    BY DEF NoRequest, RequestOK, Foremost, Stages
  <1>1. ASSUME NEW s \in SketchIds, CreateSketch(s) PROVE SkInv'
    <2>1. /\ UNCHANGED <<homes, project, call, rivals, unmarked>>
          /\ sketch' = [sketch EXCEPT ![s].status = "seed"]
      BY <1>1 DEF CreateSketch
    <2>2. sketch' \in [SketchIds -> SketchRows] /\ \A t \in SketchIds : sketch'[t].to = sketch[t].to
      BY <1>0, <2>1 DEF SketchRows, Statuses
    <2>3. Projects' = Projects /\ \A t : Made(t)' = Made(t)
      BY <2>1 DEF Projects, Made
    <2>4. SkRowsOK'
      BY <1>0, <2>1, <2>2, <2>3 DEF SkRowsOK
    <2>5. OneForemost' /\ \A c \in Users : RequestOK(call[c])'
      BY <2>1, <2>3 DEF SkInv, OneForemost, Foremost, RequestOK
    <2>6. \A t \in SketchIds : Settled(t)' => Settled(t)
      BY <2>1, <2>2 DEF Settled, Foremost
    <2>7. FewMade'
      BY <2>1, <2>3, <2>6 DEF SkInv, FewMade, Owed
    <2>. QED
      BY <2>4, <2>5, <2>7 DEF SkInv
  <1>2. ASSUME NEW c \in Users, UpdateWrites(c) PROVE SkInv'
    <2>1. PICK g \in SketchIds, to \in {"conjecture", "hypothesis"} :
             /\ sketch' = [sketch EXCEPT ![g].status = to] /\ call[c].at = "update"
             /\ call' = [call EXCEPT ![c] = NoRequest]
             /\ UNCHANGED <<homes, project, rivals, unmarked>>
      <3>1. call[c].at = "update" /\ call[c].skt \in SketchIds /\ call[c].to \in {"conjecture", "hypothesis"}
        BY <1>00, <1>2 DEF UpdateWrites, RequestOK, Requests
      <3>. QED
        BY <1>2, <3>1 DEF UpdateWrites
    <2>2. sketch' \in [SketchIds -> SketchRows] /\ \A t \in SketchIds : sketch'[t].to = sketch[t].to
      BY <1>0, <2>1 DEF SketchRows, Statuses
    <2>. QED
      BY <1>0, <1>000, <2>1, <2>2, NoRequestOK, RequestMoves
  <1>3. ASSUME NEW c \in Users, FindHome(c) PROVE SkInv'
    <2>1. PICK at \in {"newhome", "project"} : call' = [call EXCEPT ![c].at = at]
      BY <1>3 DEF FindHome
    <2>2. call[c].at = "home" /\ UNCHANGED <<sketch, homes, project, rivals, unmarked>>
      BY <1>3 DEF FindHome
    <2>. QED
      BY <1>0, <2>1, <2>2, NextStage
  <1>4. ASSUME NEW c \in Users, MakeHome(c) PROVE SkInv'
    <2>1. /\ call' = [call EXCEPT ![c].at = "project"] /\ call[c].at = "newhome" /\ homes' = homes + 1
          /\ UNCHANGED <<sketch, project, rivals, unmarked>>
      BY <1>4 DEF MakeHome
    <2>2. homes' \in Nat /\ call[c].at \in {"home", "newhome"}
      BY <1>0, <2>1
    <2>. QED
      BY <2>1, <2>2, NextStage
  <1>5. ASSUME NEW c \in Users, MakeGraduate(c) PROVE SkInv'
    BY <1>5, MakesStep
  <1>6. ASSUME NEW c \in Users, Mark(c) PROVE SkInv'
    BY <1>6, MarkStep
  <1>7. ASSUME NEW c \in Users, PoolTimesOut(c) PROVE SkInv'
    BY <1>0, <1>000, <1>7, NoRequestOK, RequestMoves DEF PoolTimesOut
  <1>8. ASSUME NEW c \in Users, NEW s \in SketchIds, GraduateReads(c, s) PROVE SkInv'
    <2>1. PICK rival \in BOOLEAN : rival = (Graduating(s) # {})
      OBVIOUS
    <2>2. PICK r : r = [NoRequest EXCEPT !.at = "home", !.skt = s, !.rival = rival]
      OBVIOUS
    <2>3. r \in Requests /\ r.at = "home" /\ r.skt = s /\ r.rival = rival
      BY <2>2 DEF NoRequest, Requests, Stages
    <2>4. /\ call' = [call EXCEPT ![c] = r] /\ call[c].at = "idle" /\ sketch[s].to = 0
          /\ UNCHANGED <<sketch, homes, project, rivals, unmarked>>
      BY <1>8, <2>1, <2>2 DEF GraduateReads, MayGraduate
    <2>5. RequestOK(r)
      BY <2>3 DEF RequestOK
    <2>6. ~rival => \A d \in Users : ~Foremost(call[d], s)
      BY <2>1 DEF Graduating, Foremost, Stages
    <2>7. \A t \in SketchIds : Foremost(r, t) => sketch[t].to = 0 /\ \A d \in Users : ~Foremost(call[d], t)
      BY <2>3, <2>4, <2>6 DEF Foremost
    <2>. QED
      BY <1>0, <2>3, <2>4, <2>5, <2>7, RequestMoves
  <1>9. ASSUME NEW c \in Users, NEW s \in SketchIds, NEW to \in {"conjecture", "hypothesis"},
               UpdateChecks(c, s, to)
        PROVE  SkInv'
    <2>1. PICK r : r = [NoRequest EXCEPT !.at = "update", !.skt = s, !.to = to]
      OBVIOUS
    <2>2. r \in Requests /\ r.at = "update" /\ r.skt = s /\ r.to = to
      BY <2>1 DEF NoRequest, Requests
    <2>3. /\ call' = [call EXCEPT ![c] = r] /\ call[c].at = "idle"
          /\ UNCHANGED <<sketch, homes, project, rivals, unmarked>>
      BY <1>9, <2>1 DEF UpdateChecks
    <2>4. RequestOK(r) /\ \A t : ~Foremost(r, t)
      BY <2>2 DEF RequestOK, Foremost, Stages
    <2>. QED
      BY <1>0, <2>2, <2>3, <2>4, RequestMoves
  <1>10. CASE SkCrash
    BY <1>10, CrashStep
  <1>11. CASE UNCHANGED sketchVars
    BY <1>11 DEF sketchVars, SkInv, SkRowsOK, OneForemost, Foremost, FewMade, Owed, Settled, Made,
                 Projects, RequestOK
  <1>. QED
    BY <1>1, <1>2, <1>3, <1>4, <1>5, <1>6, <1>7, <1>8, <1>9, <1>10, <1>11 DEF SkNext

\* A sketch is the origin of one project, and of one more for every graduation that
\* overlapped another and every one a restart ended before its mark (graduate_sketch).
THEOREM SketchesHold ==
    ASSUME SketchesAssumption
    PROVE  SkSpec => []SketchesSound
  <1>1. SkInit => SkInv
    BY StartsSketches
  <1>2. SkInv /\ [SkNext]_sketchVars => SkInv'
    BY SketchesStep
  <1>3. SkInv => SketchesSound
    <2>. SUFFICES ASSUME SkInv PROVE SkTypeOK /\ GraduatedOnce
      BY DEF SketchesSound
    <2>1. SkTypeOK
      BY DEF SkInv, SkRowsOK, SketchRows, Statuses, SkTypeOK
    <2>2. ASSUME NEW s \in SketchIds PROVE Cardinality(Made(s)) <= 1 + rivals[s] + unmarked[s]
      <3>1. PICK o \in Nat, u \in Nat : o = rivals[s] /\ u = unmarked[s]
        BY DEF SkInv, SkRowsOK
      <3>2. 1 + (o + u) = 1 + o + u
        OBVIOUS
      <3>. QED
        BY <3>1, <3>2 DEF SkInv, FewMade, Owed
    <2>. QED
      BY <2>1, <2>2 DEF GraduatedOnce
  <1>. QED
    BY <1>1, <1>2, <1>3, PTL DEF SkSpec

\* The studio as a whole: sketches graduate once, and a simulation shows and tells
\* one execution, but for overlaps, restarts and faults (graduate_sketch,
\* run_simulation).
THEOREM StudioHolds ==
    ASSUME SketchesAssumption, SimulationAssumption
    PROVE  SkSpec /\ SimSpec => []StudioSound
  <1>1. SketchesSound /\ SimulationSound => StudioSound
    BY DEF StudioSound
  <1>. QED
    BY <1>1, SketchesHold, SimulationHolds, PTL
=============================================================================
