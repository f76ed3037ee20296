------------------------------- MODULE Sketches -------------------------------
(***************************************************************************)
(* The studio (studio/__init__.py): sketches climb the epistemic ladder and  *)
(* graduate into projects of the "Studio Graduates" workspace.  An update    *)
(* checks the ladder in one transaction and writes in another; a graduation  *)
(* keeps a connection of the pool while it takes others for the workspace    *)
(* and the project, and marks the sketch last.                               *)
(***************************************************************************)
EXTENDS Naturals, FiniteSets

CONSTANTS
    SketchIds, Users,
    PoolSize,          \* max_size of the pool
    MaxProjects,       \* bound: projects
    MaxRestarts         \* bound: restarts

SketchesAssumption ==
    /\ PoolSize \in Nat \ {0} /\ MaxProjects \in Nat /\ MaxRestarts \in Nat
    /\ IsFiniteSet(Users) /\ "" \notin SketchIds

VARIABLES
    sketch,    \* studio_sketches: epistemic_status and properties.graduated_to
    homes,     \* workspaces named "Studio Graduates"
    project,   \* projects, by the sketch they were made of
    call,      \* the request in progress
    rivals,    \* history: per sketch, projects of graduations that began while another was under way
    unmarked,      \* history: per sketch, projects whose graduation did not get to its mark
    restarts

sketchVars == <<sketch, homes, project, call, rivals, unmarked, restarts>>

NoSketch == [status |-> "none", to |-> 0]
NoRequest == [at |-> "idle", skt |-> "", to |-> "", prj |-> 0, rival |-> FALSE]

SkInit ==
    /\ sketch = [s \in SketchIds |-> NoSketch]
    /\ homes = 0 /\ project = [p \in 1..MaxProjects |-> ""]
    /\ call = [c \in Users |-> NoRequest]
    /\ rivals = [s \in SketchIds |-> 0] /\ unmarked = [s \in SketchIds |-> 0]
    /\ restarts = 0

Projects == {p \in 1..MaxProjects : project[p] # ""}
Made(s) == {p \in Projects : project[p] = s}
Graduating(s) == {c \in Users : call[c].at \in {"home", "newhome", "project", "mark"} /\ call[c].skt = s}

\* The pool: a graduation holds the connection it read the sketch on.
Taken == Cardinality(UNION {Graduating(s) : s \in SketchIds})
FreeConnection == Taken < PoolSize

CreateSketch(s) ==
    /\ sketch[s] = NoSketch /\ FreeConnection
    /\ sketch' = [sketch EXCEPT ![s].status = "seed"]
    /\ UNCHANGED <<homes, project, call, rivals, unmarked, restarts>>

ValidTransition(from, to) ==
    <<from, to>> \in {<<"seed", "conjecture">>, <<"conjecture", "hypothesis">>}

\* update_sketch: the check ...
UpdateChecks(c, s, to) ==
    /\ call[c].at = "idle" /\ sketch[s] # NoSketch /\ FreeConnection
    /\ ValidTransition(sketch[s].status, to)
    /\ call' = [call EXCEPT ![c] = [NoRequest EXCEPT !.at = "update", !.skt = s, !.to = to]]
    /\ UNCHANGED <<sketch, homes, project, rivals, unmarked, restarts>>

\* ... and, in a transaction of its own, the UPDATE.
UpdateWrites(c) ==
    /\ call[c].at = "update" /\ FreeConnection
    /\ sketch' = [sketch EXCEPT ![call[c].skt].status = call[c].to]
    /\ call' = [call EXCEPT ![c] = NoRequest]
    /\ UNCHANGED <<homes, project, rivals, unmarked, restarts>>

\* mutant: a graduated sketch graduates again
MayGraduate_Again(s) == sketch[s].status \in {"conjecture", "hypothesis"}

MayGraduate(s) == sketch[s].status \in {"conjecture", "hypothesis"} /\ sketch[s].to = 0

\* graduate_sketch reads the sketch and keeps its transaction open.
GraduateReads(c, s) ==
    /\ call[c].at = "idle" /\ FreeConnection /\ MayGraduate(s)
    /\ call' = [call EXCEPT ![c] = [NoRequest EXCEPT !.at = "home", !.skt = s, !.rival = Graduating(s) # {}]]
    /\ UNCHANGED <<sketch, homes, project, rivals, unmarked, restarts>>

\* list_workspaces, on a second connection ...
FindHome(c) ==
    /\ call[c].at = "home" /\ FreeConnection
    /\ call' = [call EXCEPT ![c].at = IF homes = 0 THEN "newhome" ELSE "project"]
    /\ UNCHANGED <<sketch, homes, project, rivals, unmarked, restarts>>

\* ... create_workspace ...
MakeHome(c) ==
    /\ call[c].at = "newhome" /\ FreeConnection
    /\ homes' = homes + 1
    /\ call' = [call EXCEPT ![c].at = "project"]
    /\ UNCHANGED <<sketch, project, rivals, unmarked, restarts>>

\* ... and create_project, each committed at once.
MakeGraduate(c) ==
    /\ call[c].at = "project" /\ FreeConnection
    /\ \E p \in 1..MaxProjects \ Projects :
        /\ \A q \in 1..(p - 1) : q \in Projects
        /\ project' = [project EXCEPT ![p] = call[c].skt]
        /\ call' = [call EXCEPT ![c].at = "mark", ![c].prj = p]
    /\ rivals' = [rivals EXCEPT ![call[c].skt] = @ + (IF call[c].rival THEN 1 ELSE 0)]
    /\ UNCHANGED <<sketch, homes, unmarked, restarts>>

\* The pointer is written, whatever it was, and the transaction commits.
Mark(c) ==
    /\ call[c].at = "mark"
    /\ sketch' = [sketch EXCEPT ![call[c].skt].to = call[c].prj]
    /\ call' = [call EXCEPT ![c] = NoRequest]
    /\ UNCHANGED <<homes, project, rivals, unmarked, restarts>>

\* The projects of graduations that end here are nobody's.
UnmarkedBy(C) == [s \in SketchIds |-> unmarked[s] + Cardinality({c \in C : call[c].at = "mark" /\ call[c].skt = s})]

\* PoolTimeout: every connection is held and none comes free in time.
PoolTimesOut(c) ==
    /\ call[c].at \in {"home", "newhome", "project", "update"} /\ ~FreeConnection
    /\ call' = [call EXCEPT ![c] = NoRequest]
    /\ UNCHANGED <<sketch, homes, project, rivals, unmarked, restarts>>

SkCrash ==
    /\ restarts < MaxRestarts /\ restarts' = restarts + 1
    /\ call' = [c \in Users |-> NoRequest]
    /\ unmarked' = UnmarkedBy(Users)
    /\ UNCHANGED <<sketch, homes, project, rivals>>

SkNext ==
    \/ \E s \in SketchIds : CreateSketch(s)
    \/ \E c \in Users :
        \/ UpdateWrites(c) \/ FindHome(c) \/ MakeHome(c) \/ MakeGraduate(c) \/ Mark(c) \/ PoolTimesOut(c)
        \/ \E s \in SketchIds : GraduateReads(c, s) \/ \E to \in {"conjecture", "hypothesis"} : UpdateChecks(c, s, to)
    \/ SkCrash

SkSpec == SkInit /\ [][SkNext]_sketchVars

-------------------------------------------------------------------------------
SkTypeOK ==
    /\ \A s \in SketchIds : sketch[s].to \in Projects \cup {0}
    /\ \A s \in SketchIds : sketch[s].status \in {"none", "seed", "conjecture", "hypothesis"}
    /\ homes \in Nat

\* "One-way door": a sketch is the origin of one project, and of one more for
\* every graduation that began while another was under way and for every one a
\* crash ended between its project and its mark.
GraduatedOnce == \A s \in SketchIds : Cardinality(Made(s)) <= 1 + rivals[s] + unmarked[s]

SketchesSound == SkTypeOK /\ GraduatedOnce
===============================================================================
