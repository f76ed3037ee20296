-------------------------------- MODULE Studio --------------------------------
(***************************************************************************)
(* What the studio workspaces keep: sketches that graduate into projects     *)
(* (Sketches) and the worlds a simulation tells of (Simulation).  The two    *)
(* share no state.                                                           *)
(***************************************************************************)
EXTENDS Sketches, Simulation

\* A sketch is the origin of one project, a simulation shows the scenarios of
\* one execution and tells each, but for overlaps, restarts and faults
\* (graduate_sketch of studio, run_simulation of orchestration/workflows).
StudioSound == SketchesSound /\ SimulationSound
===============================================================================
