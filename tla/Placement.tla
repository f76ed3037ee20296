------------------------------ MODULE Placement ------------------------------
(***************************************************************************)
(* Where goals live (workspace/hierarchy.py): place_goal routes a goal by    *)
(* its title to a life area and a project, finds or creates both rows, makes *)
(* the project's directories and links the goal.  The dispatcher calls it    *)
(* before every worker; each part is a transaction of its own.               *)
(***************************************************************************)
EXTENDS Naturals, FiniteSets

CONSTANTS
    Goals, Placers,  \* goals, and place_goal calls
    Titles,          \* what a goal may be called
    AreaOf, ThemeOf, \* route_life_area and route_project, by title
    MaxRetitles      \* bound: update_goal of a title, and crashes

ASSUME PlacementAssumption == MaxRetitles \in Nat

VARIABLES
    title, home,   \* goals: title and project_id ({}: null, else the one project)
    areas,         \* workspaces rows: their slugs
    projects,      \* projects rows: <<area, slug>>, with the north star
    trees,         \* projects whose directories and manifest exist
    placer,        \* the call in progress
    torn,          \* history: projects whose directories a crash or an error left out
    changes

plVars == <<title, home, areas, projects, trees, placer, torn, changes>>

Route(t) == <<AreaOf[t], ThemeOf[t]>>
Places == {Route(t) : t \in Titles}
Rested == [at |-> "idle", goal |-> "", title |-> "", new |-> FALSE]
Created == {pr \in Places : projects[pr] # {}}

PlInit ==
    /\ title \in [Goals -> Titles]
    /\ home = [g \in Goals |-> {}]
    /\ areas = {} /\ projects = [pr \in Places |-> {}] /\ trees = {}
    /\ placer = [p \in Placers |-> Rested]
    /\ torn = {} /\ changes = 0

Step(p, place) == placer' = [placer EXCEPT ![p].at = place]
To(p) == Route(placer[p].title)

\* place_goal reads the goal; one that has a project is done.
Reads(p, g) ==
    /\ placer[p].at = "idle"
    /\ home[g] = {}
    /\ placer' = [placer EXCEPT ![p] =
            [at |-> "area", goal |-> g, title |-> title[g], new |-> FALSE]]
    /\ UNCHANGED <<title, home, areas, projects, trees, torn, changes>>

\* ensure_workspace and ensure_project: SELECT ...
FindArea(p) ==
    /\ placer[p].at = "area"
    /\ placer' = [placer EXCEPT ![p].at = "makeArea", ![p].new = To(p)[1] \notin areas]
    /\ UNCHANGED <<title, home, areas, projects, trees, torn, changes>>

\* ... and INSERT, which the unique index refuses if another was faster: the
\* error ends the call.
MakeArea(p) ==
    /\ placer[p].at = "makeArea"
    /\ areas' = areas \cup {To(p)[1]}
    /\ Step(p, IF placer[p].new /\ To(p)[1] \in areas THEN "idle" ELSE "project")
    /\ UNCHANGED <<title, home, projects, trees, torn, changes>>

FindProject(p) ==
    /\ placer[p].at = "project"
    /\ placer' = [placer EXCEPT ![p].at = "makeProject", ![p].new = To(p) \notin Created]
    /\ UNCHANGED <<title, home, areas, projects, trees, torn, changes>>

\* The first goal of a theme becomes its project's north star.
MakeProject(p) ==
    /\ placer[p].at = "makeProject"
    /\ IF ~placer[p].new THEN UNCHANGED projects /\ Step(p, "link")
       ELSE IF To(p) \in Created THEN UNCHANGED projects /\ Step(p, "idle")
       ELSE /\ projects' = [projects EXCEPT ![To(p)] = {placer[p].goal}]
            /\ Step(p, "tree")
    /\ UNCHANGED <<title, home, areas, trees, torn, changes>>

\* _ensure_project_tree, after the commit, and only by the call that inserted.
MakeTree(p) ==
    /\ placer[p].at = "tree"
    /\ trees' = trees \cup {To(p)}
    /\ Step(p, "link")
    /\ UNCHANGED <<title, home, areas, projects, torn, changes>>

\* mutant: the link is written over
Linked_Last(p, g) == {To(p)}

\* UPDATE goals ... WHERE project_id IS NULL.
Linked(p, g) == IF home[g] = {} THEN {To(p)} ELSE home[g]

LinkGoal(p) ==
    /\ placer[p].at = "link"
    /\ LET g == placer[p].goal IN home' = [home EXCEPT ![g] = Linked(p, g)]
    /\ placer' = [placer EXCEPT ![p] = Rested]
    /\ UNCHANGED <<title, areas, projects, trees, torn, changes>>

Retitle(g, t) ==
    /\ changes < MaxRetitles /\ t # title[g]
    /\ title' = [title EXCEPT ![g] = t]
    /\ changes' = changes + 1
    /\ UNCHANGED <<home, areas, projects, trees, placer, torn>>

\* The directories cannot be made: the error ends the call, the row is committed.
TreeFails(p) ==
    /\ placer[p].at = "tree" /\ changes < MaxRetitles
    /\ torn' = torn \cup {To(p)}
    /\ Step(p, "idle")
    /\ changes' = changes + 1
    /\ UNCHANGED <<title, home, areas, projects, trees>>

\* The process dies.
PlCrash ==
    /\ changes < MaxRetitles
    /\ placer' = [p \in Placers |-> Rested]
    /\ torn' = torn \cup {To(p) : p \in {q \in Placers : placer[q].at = "tree"}}
    /\ changes' = changes + 1
    /\ UNCHANGED <<title, home, areas, projects, trees>>

PlNext ==
    \/ \E p \in Placers : \/ \E g \in Goals : Reads(p, g)
                          \/ FindArea(p) \/ MakeArea(p) \/ FindProject(p)
                          \/ MakeProject(p) \/ MakeTree(p) \/ TreeFails(p) \/ LinkGoal(p)
    \/ \E g \in Goals, t \in Titles : Retitle(g, t)
    \/ PlCrash

PlSpec == PlInit /\ [][PlNext]_plVars

-------------------------------------------------------------------------------
PlTypeOK ==
    /\ title \in [Goals -> Titles] /\ home \in [Goals -> SUBSET Places]
    /\ trees \cup torn \subseteq Places

HomesStay == [][\A g \in Goals : home[g] # {} => home'[g] = home[g]]_plVars

HomesExist ==
    \A g \in Goals : home[g] \subseteq
        trees \cup torn \cup {To(p) : p \in {q \in Placers : placer[q].at = "tree"}}

\* The worker's cwd is the goal's project: once a goal has a home it keeps it,
\* however many placements race and however it is renamed meanwhile; and the home
\* has its directories and manifest, unless a crash or an error fell between the
\* commit of the row and the mkdir (nothing ever makes them later), or the call
\* that inserted the row is still about to.
HomesSound == HomesStay /\ []HomesExist
===============================================================================
