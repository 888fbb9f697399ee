------------------------------ MODULE ModelGraph ------------------------------
(***************************************************************************)
(* The model graph: a growing sequence of models, in the order of their    *)
(* creation, each located at a unit of the evaluation graph and depending  *)
(* on earlier models.  An input model ("in") depends on one output model   *)
(* of every predecessor unit, in join order; an output model ("out")       *)
(* depends on the input model it was generated from.  A unit without       *)
(* predecessors has one dummy input model, which depends on nothing.       *)
(*                                                                         *)
(* The contents of an interpretation are abstracted to the output models   *)
(* whose atoms it contains.  isNull says that the interpretation pointer   *)
(* is null: always so for a dummy, and for a model that was freed.         *)
(***************************************************************************)
EXTENDS Naturals, Sequences, Functions

NoModel == 0

Model(location, type, deps, interpretation, isNull) ==
  [location |-> location, type |-> type, deps |-> deps,
   interpretation |-> interpretation, isNull |-> isNull,
   childModelsGenerated |-> FALSE]

\* models of one type at a unit; the oldest one comes first in the code's list
ModelsAt(graph, unit, type) ==
  {m \in DOMAIN graph : graph[m].location = unit /\ graph[m].type = type}

Oldest(models) ==
  IF models = {} THEN NoModel
                 ELSE CHOOSE m \in models : \A n \in models : m <= n

\* the models a model contributed to, in the order in which they were added
Successors(graph, m) == {s \in DOMAIN graph : m \in Range(graph[s].deps)}

\* the successor after s, the first one when there is no s
NextSuccessor(graph, m, s) == Oldest({n \in Successors(graph, m) : n > s})

\* the models at a unit that every one of the given models contributed to
CommonSuccessors(graph, unit, deps) ==
  {s \in DOMAIN graph : /\ graph[s].location = unit
                        /\ Range(deps) \subseteq Range(graph[s].deps)}

\* frees the interpretation of m
Freed(graph, m) == [graph EXCEPT ![m].isNull = TRUE]

\* the atoms of the models in deps, joined
Join(graph, deps) == UNION {graph[m].interpretation : m \in Range(deps)}

\* no two of the output models are alternatives at the same unit
Consistent(graph, models) ==
  \A m, n \in models : graph[m].location = graph[n].location => m = n
===============================================================================
