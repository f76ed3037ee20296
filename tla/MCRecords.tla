------------------------------- MODULE MCRecords -------------------------------
(***************************************************************************)
(* What requests and jobs do to the rest of the records, on small instances: *)
(* recall and its cache, settings, identity facts, prompt versions, lessons, *)
(* proposals, goal placement, retrieval, the studio, simulation, knowledge,  *)
(* cognition, reflection and the Hermes provider.  The components share no   *)
(* state but the facts reflection proposes, so each behaviour is about one   *)
(* of them and leaves the others alone.                                      *)
(***************************************************************************)
EXTENDS Settings, Placement, RecallCache, Evolution, Lessons, Proposals, KnowledgeGraph, Studio,
        Cognition, HermesProvider, Retrieval, TLC

\* Callers, of Evolution, are in the other components whatever overlaps there:
\* requests, jobs, tasks or threads.
VARIABLE part

cognitionVars == <<snVars, wisVars, reflectionVars>>

\* Everything but the component at hand: the steps below leave it as it is.
requestVars == <<rcVars, setVars, retVars, hermesVars>>
selfVars == <<idVars, evoVars, lesVars, cognitionVars>>
workVars == <<prVars, plVars, sketchVars, simVars, kgVars>>
vars == <<part, requestVars, selfVars, workVars>>

Parts == {"recall", "settings", "retrieval", "hermes", "identity", "evolution", "lessons",
          "proposals", "placement", "sketches", "graph", "snapshots", "wisdom",
          "reflection", "simulation"}

\* What a retrieval, a placement and a snapshot start from matters only to their
\* own part.
Init ==
    /\ part \in Parts
    /\ RCInit /\ SetInit /\ HermesInit /\ IdInit /\ EvoInit /\ LesInit
    /\ PrInit /\ SkInit /\ SimInit /\ KGInit
    /\ RefInit /\ WisInit /\ SnInit /\ (part # "snapshots" => kind = "themes")
    /\ RetInit /\ (part # "retrieval" => mode = "fast" /\ \A m \in DOMAIN mem : mem[m] = "none")
    /\ PlInit /\ (part # "placement" => \A g \in DOMAIN title : title[g] = "a")

RequestStep ==
    /\ UNCHANGED <<part, selfVars, workVars>>
    /\ \/ part = "recall" /\ RCNext /\ UNCHANGED <<setVars, retVars, hermesVars>>
       \/ part = "settings" /\ SetNext /\ UNCHANGED <<rcVars, retVars, hermesVars>>
       \/ part = "retrieval" /\ RetNext /\ UNCHANGED <<rcVars, setVars, hermesVars>>
       \/ part = "hermes" /\ HermesNext /\ UNCHANGED <<rcVars, setVars, retVars>>

SelfStep ==
    /\ UNCHANGED <<part, requestVars, workVars>>
    /\ \/ part = "identity" /\ IdNext /\ UNCHANGED <<evoVars, lesVars, cognitionVars>>
       \/ part = "evolution" /\ EvoNext /\ UNCHANGED <<idVars, lesVars, cognitionVars>>
       \/ part = "lessons" /\ LesNext /\ UNCHANGED <<idVars, evoVars, cognitionVars>>
       \/ part = "snapshots" /\ SnNext /\ UNCHANGED <<idVars, evoVars, lesVars, wisVars, reflectionVars>>
       \/ part = "wisdom" /\ WisNext /\ UNCHANGED <<idVars, evoVars, lesVars, snVars, reflectionVars>>
       \/ part = "reflection" /\ RefNext /\ UNCHANGED <<evoVars, lesVars, snVars, wisVars>>

WorkStep ==
    /\ UNCHANGED <<part, requestVars, selfVars>>
    /\ \/ part = "proposals" /\ PrNext /\ UNCHANGED <<plVars, sketchVars, simVars, kgVars>>
       \/ part = "placement" /\ PlNext /\ UNCHANGED <<prVars, sketchVars, simVars, kgVars>>
       \/ part = "sketches" /\ SkNext /\ UNCHANGED <<prVars, plVars, simVars, kgVars>>
       \/ part = "graph" /\ KGNext /\ UNCHANGED <<prVars, plVars, sketchVars, simVars>>
       \/ part = "simulation" /\ SimNext /\ UNCHANGED <<prVars, plVars, sketchVars, kgVars>>

Next == RequestStep \/ SelfStep \/ WorkStep

Spec == Init /\ [][Next]_vars

Interchangeable == Permutations(Callers)

\* What the .cfg gives the routing of Placement: two projects of one life area.
AreaOfTitles == [a |-> "x", b |-> "x"]
ThemeOfTitles == [a |-> "t", b |-> "u"]

\* And the triples the episodes of KnowledgeGraph may hold: one, or two that name
\* both ends again, written with runs of spaces.
Mention(n, loose) == [name |-> n, loose |-> loose]
TextsOfEpisodes ==
    {<< <<Mention("n1", FALSE), Mention("n2", FALSE)>> >>,
     << <<Mention("n1", TRUE), Mention("n2", FALSE)>>,
        <<Mention("n2", TRUE), Mention("n1", FALSE)>> >>}

\* What the built-in memory of Hermes may hold: a text within a longer one.
ContainsOfContents == {<<"a", "a">>, <<"b", "b">>, <<"ab", "ab">>, <<"ab", "a">>}

ASSUME RecordsAssumption ==
    /\ RecallAssumption /\ RetrievalAssumption /\ HermesAssumption
    /\ EvolutionAssumption /\ LessonsAssumption /\ ProposalsAssumption
    /\ SketchesAssumption /\ SimulationAssumption /\ GraphAssumption
    /\ SnapshotsAssumption /\ WisdomAssumption /\ ReflectionAssumption

===============================================================================
