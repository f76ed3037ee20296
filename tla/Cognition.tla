------------------------------ MODULE Cognition ------------------------------
(***************************************************************************)
(* What the endpoints of cognition make of the journal: snapshots,          *)
(* principles and their memories, reflections.  The three share no row.      *)
(***************************************************************************)
EXTENDS Snapshots, Wisdom, Reflection

\* Decisions, principles and their memories are recorded once but for overlaps,
\* and a sync mirrors what it read (cognition/meta, _sync_principles_to_memory);
\* what reflection infers stays a hypothesis but for a report that proposed
\* nothing itself or an invalidation, and a goal shows the newest report
\* (cognition/reflection, _sync_identity_from_reflection).
CognitionSound ==
    /\ WisTypeOK /\ SaidOnce /\ MirrorsComplete
    /\ RefTypeOK /\ InferredStaysHypothesis /\ GoalShowsNewest
===============================================================================
