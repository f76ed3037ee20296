-------------------------- MODULE PolicyInputs_proofs --------------------------
(***************************************************************************)
(* What decide's cascade of early returns amounts to, for every request and *)
(* for every change of one control: by class, the verdict is read off the    *)
(* level the request is clamped to and the few tests that come before it.   *)
(***************************************************************************)
EXTENDS PolicyInputs, TLAPS

\* The level decide clamps a request to.
Level(r) == ResolveLevel(r.agentLevel, r.workspaceLevel, ClassFloor(r)).level

\* The controls decide looks at before the level.
Barred(r) ==
    \/ r.class \notin ActionClasses
    \/ r.killUnreadable \/ r.killGlobal \/ r.killAgent
    \/ ~r.covered \/ r.budgetHard
    \/ r.class = "net_egress" /\ ~r.hostAllowed

\* The clamp, order-free.
LEMMA LevelIs ==
    ASSUME NEW r \in Requests
    PROVE  /\ Level(r) \in Levels /\ Level(r) = ResolveLevel(r.agentLevel, r.workspaceLevel, ClassFloor(r)).level
           /\ Level(r) = SuggestOnly <=> SuggestOnly \in {r.agentLevel, r.workspaceLevel}
           /\ r.class # "read" => 
                (Level(r) = ConfirmEach <=>
                    /\ SuggestOnly \notin {r.agentLevel, r.workspaceLevel}
                    /\ ConfirmEach \in {r.agentLevel, r.workspaceLevel} \/ HardFloor(r))
  <1>1. r.agentLevel \in Levels /\ r.workspaceLevel \in Levels
    BY DEF Requests
  <1>2. /\ ClassFloor(r) \in {ConfirmEach, BoundedAuto, FullAuto}
        /\ ClassFloor(r) = ConfirmEach <=> HardFloor(r)
    BY DEF ClassFloor, HardFloor, ConfirmEach, BoundedAuto, FullAuto
  <1>3. PICK floor : floor = ClassFloor(r)
    OBVIOUS
  <1>4. Level(r) = MinOf(MinOf(r.agentLevel, r.workspaceLevel), floor)
    BY <1>3 DEF Level, ResolveLevel
  <1>. QED
    BY <1>1, <1>2, <1>3, <1>4 DEF Level, MinOf, Levels, SuggestOnly, ConfirmEach, BoundedAuto, FullAuto

\* The verdict, class by class.
LEMMA VerdictIs ==
    ASSUME NEW r \in Requests
    PROVE  /\ r.class = "read" => Decide(r).verdict = "ALLOW"
           /\ r.class # "read" /\ Barred(r) => Decide(r).verdict = "DENY"
           /\ r.class = "self_modify" /\ ~Barred(r) =>
                Decide(r).verdict =
                    IF ~r.evalPassed \/ Level(r) = SuggestOnly THEN "DENY"
                    ELSE IF r.approval = "granted" THEN "ALLOW" ELSE "REQUIRE_APPROVAL"
           /\ r.class \notin {"read", "self_modify"} /\ ~Barred(r) =>
                Decide(r).verdict =
                    IF r.dryRun THEN "DRY_RUN"
                    ELSE IF Level(r) = SuggestOnly THEN "DENY"
                    ELSE IF Level(r) = ConfirmEach /\ r.approval # "granted" THEN "REQUIRE_APPROVAL"
                    ELSE "ALLOW"
  <1>. DEFINE resolved == ResolveLevel(r.agentLevel, r.workspaceLevel, ClassFloor(r))
  <1>1. resolved.level = Level(r)
    BY DEF Level
  <1>2. CASE r.class = "read"
    BY <1>2 DEF Decide, Decision
  <1>3. CASE r.class # "read" /\ Barred(r)
    BY <1>3 DEF Decide, Decision, FailClosed, Barred
  <1>4. CASE r.class = "self_modify" /\ ~Barred(r)
    <2>1. Decide(r) = SelfModifyGate(r, resolved)
      BY <1>4 DEF Decide, Barred
    <2>. HIDE DEF resolved
    <2>. QED
      BY <1>1, <1>4, <2>1 DEF SelfModifyGate, Decision
  <1>5. CASE r.class \notin {"read", "self_modify"} /\ ~Barred(r)
    <2>1. Decide(r).verdict = IF r.dryRun THEN "DRY_RUN"
                              ELSE IF resolved.level = ConfirmEach /\ r.approval = "granted" THEN "ALLOW"
                              ELSE BaseVerdict(resolved.level)
      BY <1>5 DEF Decide, Barred, Decision
    <2>. HIDE DEF resolved
    <2>2. BaseVerdict(Level(r)) = IF Level(r) = SuggestOnly THEN "DENY"
                                  ELSE IF Level(r) = ConfirmEach THEN "REQUIRE_APPROVAL" ELSE "ALLOW"
      BY DEF BaseVerdict, SuggestOnly, ConfirmEach
    <2>3. SuggestOnly # ConfirmEach
      BY DEF SuggestOnly, ConfirmEach
    <2>4. CASE r.dryRun
      BY <1>5, <2>1, <2>4
    <2>5. CASE ~r.dryRun /\ Level(r) = ConfirmEach
      BY <1>1, <1>5, <2>1, <2>2, <2>3, <2>5
    <2>6. CASE ~r.dryRun /\ Level(r) # ConfirmEach
      BY <1>1, <1>5, <2>1, <2>2, <2>6
    <2>. QED
      BY <2>4, <2>5, <2>6
  <1>. QED
    BY <1>2, <1>3, <1>4, <1>5

LEMMA AllowedIs == \A r \in Requests : Decide(r).verdict = "ALLOW" <=> MayExecute(r)
  <1>. SUFFICES ASSUME NEW r \in Requests PROVE Decide(r).verdict = "ALLOW" <=> MayExecute(r)
    OBVIOUS
  <1>1. CASE r.class = "read"
    BY <1>1, VerdictIs DEF MayExecute
  <1>2. CASE r.class # "read" /\ Barred(r)
    BY <1>2, VerdictIs DEF MayExecute, Barred
  <1>3. CASE r.class = "self_modify" /\ ~Barred(r)
    BY <1>3, VerdictIs, LevelIs DEF MayExecute, Barred, HardFloor
  <1>4. CASE r.class \notin {"read", "self_modify"} /\ ~Barred(r)
    BY <1>4, VerdictIs, LevelIs DEF MayExecute, Barred
  <1>. QED
    BY <1>1, <1>2, <1>3, <1>4

LEMMA LevelFollows ==
    ASSUME NEW n \in Requests, NEW o \in Requests, Tighter(n, o), o.class # "read"
    PROVE  Level(n) <= Level(o)
  <1>1. /\ {n.agentLevel, n.workspaceLevel, o.agentLevel, o.workspaceLevel} \subseteq Levels
        /\ n.agentLevel <= o.agentLevel /\ n.workspaceLevel <= o.workspaceLevel
    BY DEF Requests, Tighter
  <1>2. PICK f, g : f = ClassFloor(n) /\ g = ClassFloor(o)
    OBVIOUS
  <1>3. f \in Levels /\ g \in Levels /\ f <= g
    BY <1>2 DEF ClassFloor, Tighter, Levels, SuggestOnly, ConfirmEach, BoundedAuto, FullAuto
  <1>4. /\ Level(n) = MinOf(MinOf(n.agentLevel, n.workspaceLevel), f)
        /\ Level(o) = MinOf(MinOf(o.agentLevel, o.workspaceLevel), g)
    BY <1>2 DEF Level, ResolveLevel
  <1>. QED
    BY <1>1, <1>3, <1>4 DEF MinOf, Levels, SuggestOnly, FullAuto

LEMMA TighterPermits ==
    ASSUME NEW n \in Requests, NEW o \in Requests, Tighter(n, o)
    PROVE  Permits(Decide(n).verdict) <= Permits(Decide(o).verdict)
  <1>1. n.class = o.class
    BY DEF Tighter
  <1>2. CASE o.class = "read"
    BY <1>1, <1>2, VerdictIs DEF Permits
  <1>3. CASE n.class # "read" /\ Barred(n)
    <2>1. Decide(n).verdict = "DENY"
      BY <1>3, VerdictIs
    <2>2. Decide(o).verdict \in {"DENY", "REQUIRE_APPROVAL", "DRY_RUN", "ALLOW"}
      BY VerdictIs
    <2>. QED
      BY <2>1, <2>2 DEF Permits
  <1>4. ASSUME o.class # "read", ~Barred(n)
        PROVE  /\ ~Barred(o) /\ n.dryRun = o.dryRun /\ (n.evalPassed => o.evalPassed)
               /\ n.approval = "granted" => o.approval = "granted"
               /\ Level(n) \in 0..3 /\ Level(o) \in 0..3 /\ Level(n) <= Level(o)
    <2>1. Level(n) \in Levels /\ Level(o) \in Levels
      BY LevelIs
    <2>2. /\ n.killGlobal \in BOOLEAN /\ n.killAgent \in BOOLEAN /\ n.killUnreadable \in BOOLEAN
          /\ o.killGlobal \in BOOLEAN /\ o.killAgent \in BOOLEAN /\ o.killUnreadable \in BOOLEAN
          /\ n.budgetHard \in BOOLEAN /\ o.budgetHard \in BOOLEAN
      BY DEF Requests
    <2>3. ~Barred(o)
      BY <1>4, <2>2 DEF Barred, Tighter
    <2>. QED
      BY <1>4, <2>1, <2>3, LevelFollows DEF Tighter, Levels, SuggestOnly, FullAuto
  <1>5. CASE o.class = "self_modify" /\ ~Barred(n)
    BY <1>1, <1>4, <1>5, VerdictIs DEF Permits, SuggestOnly
  <1>6. CASE o.class \notin {"read", "self_modify"} /\ ~Barred(n)
    BY <1>1, <1>4, <1>6, VerdictIs DEF Permits, SuggestOnly, ConfirmEach
  <1>. QED
    BY <1>1, <1>2, <1>3, <1>5, <1>6

\* The invariant: q is always a request.
IsRequest == q \in Requests

LEMMA InitRequests == Init => IsRequest
  <1>. SUFFICES ASSUME NEW class \in ActionClasses \cup {UnknownClass}, q = Closed(class)
                PROVE  q \in Requests
    BY DEF Init, IsRequest
  <1>1. SuggestOnly \in Levels /\ "none" \in ApprovalStates
    BY DEF Levels, SuggestOnly, FullAuto, ApprovalStates
  <1>. QED
    BY <1>1 DEF Closed, Requests

LEMMA NextRequests == IsRequest /\ [Next]_q => IsRequest'
  <1>. SUFFICES ASSUME q \in Requests, [Next]_q PROVE q' \in Requests
    BY DEF IsRequest
  <1>1. CASE SetAgentLevel
    BY <1>1 DEF SetAgentLevel, Requests
  <1>2. CASE SetWorkspaceLevel
    BY <1>2 DEF SetWorkspaceLevel, Requests
  <1>3. CASE EngageKill \/ ReleaseKill
    BY <1>3 DEF EngageKill, ReleaseKill, KillFlags, Requests
  <1>4. CASE GrantCapability \/ ChargeBudget \/ ToggleDryRun
    BY <1>4 DEF GrantCapability, ChargeBudget, ToggleDryRun, Requests
  <1>5. CASE MoveApproval
    BY <1>5 DEF MoveApproval, Requests
  <1>6. CASE AllowHost \/ RunEval \/ ChangeAmount \/ ChangeChannel
    BY <1>6 DEF AllowHost, RunEval, ChangeAmount, ChangeChannel, Requests
  <1>. QED
    BY <1>1, <1>2, <1>3, <1>4, <1>5, <1>6 DEF Next

\* decide's cascade of early returns allows exactly the requests for which every
\* control is in place, stated without an order.
THEOREM CascadeIsTheRule == Spec => []AllowsExactly
  <1>1. IsRequest => AllowsExactly
    BY AllowedIs DEF AllowsExactly, IsRequest
  <1>. QED
    BY <1>1, InitRequests, NextRequests, PTL DEF Spec

\* No change that tightens some controls and loosens none makes decide let more
\* happen.
THEOREM TighteningHolds == Spec => TighteningNeverLoosens
  <1>1. IsRequest /\ IsRequest'
          => [Tighter(q', q) => Permits(Decide(q').verdict) <= Permits(Decide(q).verdict)]_q
    BY TighterPermits DEF IsRequest
  <1>. QED
    BY <1>1, InitRequests, NextRequests, PTL DEF Spec, TighteningNeverLoosens
================================================================================
