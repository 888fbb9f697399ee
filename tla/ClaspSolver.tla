------------------------------ MODULE ClaspSolver ------------------------------
(***************************************************************************)
(* The link between clasp and the propagators of dlvhex, the class         *)
(* ClaspSolver::ExternalPropagator: it keeps a copy of clasp's assignment  *)
(* in terms of HEX atoms, by watching literals and decision levels, and    *)
(* calls the HEX propagators with it, at some fixpoints of the propagation *)
(* (calls are deferred by time) and for every model.                       *)
(*                                                                         *)
(* clasp is external: it assigns variables, tells watchers of literals     *)
(* when they leave its queue and watchers of levels when they are undone,  *)
(* and may find a conflict or restart at any time.  Which nogoods the      *)
(* propagators add is left open: they show as further implied literals and *)
(* conflicts.                                                              *)
(***************************************************************************)
EXTENDS Integers, FiniteSets

CONSTANTS Atoms,       \* the HEX atoms of the ground program
          Variables,   \* the variables of clasp
          hexToClasp   \* the literal of an atom, a variable and a sign

ASSUME HexToClaspAssumption ==
  hexToClasp \in [Atoms -> [var : Variables, sign : BOOLEAN]]

VARIABLES
  value, level,        \* of each variable of clasp
  decisionLevel,
  queue,               \* the variables that were assigned but not yet propagated
  currentIntr, currentAssigned, currentChanged,
  assignmentsOnDecisionLevel,   \* pairs of an atom and a level
  undoWatches,         \* the decision levels the propagator is told of
  pc                   \* where the search is

claspVars == <<value, level, decisionLevel, queue, currentIntr, currentAssigned, currentChanged,
               assignmentsOnDecisionLevel, undoWatches, pc>>

Free == "free"
Values == {"true", "false"}

HexAtoms(v) == {a \in Atoms : hexToClasp[a].var = v}
\* sign is set for a negative literal
MakesTrue(val, a) == val = IF hexToClasp[a].sign THEN "false" ELSE "true"

\* extractClaspInterpretation, from a given assignment
Assigned(val) == {a \in Atoms : val[hexToClasp[a].var] # Free}
TrueAtoms(val) == {a \in Atoms : MakesTrue(val[hexToClasp[a].var], a)}

\* startAssignmentExtraction: what is assigned already, at level 0, is extracted.
Init ==
  /\ value \in [Variables -> Values \cup {Free}]
  /\ level = [v \in Variables |-> 0]
  /\ decisionLevel = 0
  /\ queue = {}
  /\ currentIntr = TrueAtoms(value)
  /\ currentAssigned = Assigned(value)
  /\ currentChanged = Assigned(value)
  /\ assignmentsOnDecisionLevel = {}
  /\ undoWatches = {}
  /\ pc = "propagating"

copyVars == <<currentIntr, currentAssigned, currentChanged, assignmentsOnDecisionLevel, undoWatches>>

-----------------------------------------------------------------------------
(* clasp's search.                                                         *)

Assign(v, val, dl) ==
  /\ value[v] = Free
  /\ value' = [value EXCEPT ![v] = val]
  /\ level' = [level EXCEPT ![v] = dl]
  /\ queue' = queue \cup {v}

\* Unit propagation, of a constraint or a nogood that was added, on the current level.
Imply ==
  /\ pc \in {"propagating", "propagated"}
  /\ \E v \in Variables, val \in Values : Assign(v, val, decisionLevel)
  /\ pc' = "propagating"
  /\ UNCHANGED <<decisionLevel, copyVars>>

Decide ==
  /\ pc = "propagated"
  /\ \E v \in Variables, val \in Values : Assign(v, val, decisionLevel + 1)
  /\ decisionLevel' = decisionLevel + 1
  /\ pc' = "propagating"
  /\ UNCHANGED copyVars

\* Backjumping, a restart or the search for the next model goes on.
Resume ==
  /\ pc = "undoing"
  /\ pc' = "propagating"
  /\ UNCHANGED <<value, level, decisionLevel, queue, copyVars>>

\* A conflict at level 0, or no further model.
Exhaust ==
  /\ pc \in {"propagating", "propagated", "model"}
  /\ decisionLevel = 0
  /\ pc' = "exhausted"
  /\ UNCHANGED <<value, level, decisionLevel, queue, copyVars>>

-----------------------------------------------------------------------------
(* The propagator.                                                         *)

\* Fault: no watch for atoms that become false.
NeedsUndoWatchIfTrue(atoms, dl) ==
  \E a \in atoms : MakesTrue(value[hexToClasp[a].var], a)

\* An atom that becomes false always adds a watch for its level, one that becomes true
\* only as the first one on it.
NeedsUndoWatch(atoms, dl) ==
  \E a \in atoms : \/ ~MakesTrue(value[hexToClasp[a].var], a)
                   \/ \A b \in Atoms : <<b, dl>> \notin assignmentsOnDecisionLevel

\* propagate: a literal of the variable became true, and the other one false.
Propagate ==
  /\ pc = "propagating"
  /\ \E v \in queue :
       LET dl == level[v]
       IN  /\ queue' = queue \ {v}
           /\ currentIntr' = (currentIntr \ HexAtoms(v)) \cup (TrueAtoms(value) \cap HexAtoms(v))
           /\ currentAssigned' = currentAssigned \cup HexAtoms(v)
           /\ currentChanged' = currentChanged \cup HexAtoms(v)
           /\ assignmentsOnDecisionLevel' = assignmentsOnDecisionLevel \cup {<<a, dl>> : a \in HexAtoms(v)}
           /\ undoWatches' = undoWatches \cup {l \in {dl} : l > 0 /\ NeedsUndoWatch(HexAtoms(v), l)}
  /\ UNCHANGED <<value, level, decisionLevel, pc>>

\* undoLevel, while the level that is undone is still the current one.  A second watch
\* for the same level finds nothing left to undo.
UndoLevel ==
  /\ pc \in {"propagating", "propagated", "model", "undoing"}
  /\ decisionLevel > 0
  /\ value' = [v \in Variables |-> IF level[v] = decisionLevel THEN Free ELSE value[v]]
  /\ queue' = {}
  /\ level' = [v \in Variables |-> IF level[v] = decisionLevel THEN 0 ELSE level[v]]
  /\ decisionLevel' = decisionLevel - 1
  /\ LET undone == IF decisionLevel \in undoWatches
                   THEN {s \in assignmentsOnDecisionLevel : s[2] >= decisionLevel} ELSE {}
         atoms == {s[1] : s \in undone}
     IN  /\ currentIntr' = currentIntr \ atoms
         /\ currentAssigned' = currentAssigned \ atoms
         /\ currentChanged' = currentChanged \cup atoms
         /\ assignmentsOnDecisionLevel' = assignmentsOnDecisionLevel \ undone
  /\ undoWatches' = undoWatches \ {decisionLevel}
  /\ pc' = "undoing"

\* propagateFixpoint: enough time went by since the last call, ...
CallHexPropagators ==
  /\ pc = "propagating"
  /\ queue = {}
  /\ pc' = "calling"
  /\ UNCHANGED <<value, level, decisionLevel, queue, copyVars>>

\* ... or not.  (skipCounter is compared with skipAmount but never counts.)
SkipHexPropagators ==
  /\ pc = "propagating"
  /\ queue = {}
  /\ pc' = "propagated"
  /\ UNCHANGED <<value, level, decisionLevel, queue, copyVars>>

IsModel ==
  /\ pc = "propagated"
  /\ \A v \in Variables : value[v] # Free
  /\ pc' = "calling for model"
  /\ UNCHANGED <<value, level, decisionLevel, queue, copyVars>>

Calling == pc \in {"calling", "calling for model"}

\* isModel returns false if the nogoods that the propagators added are in conflict.
HexPropagatorsReturn ==
  /\ Calling
  /\ currentChanged' = {}
  /\ \/ pc' = "propagated"
     \/ pc = "calling for model" /\ pc' = "model"
  /\ UNCHANGED <<value, level, decisionLevel, queue, currentIntr, currentAssigned,
                 assignmentsOnDecisionLevel, undoWatches>>

Search ==
  \/ Imply \/ Decide \/ Resume \/ Exhaust
  \/ Propagate \/ UndoLevel
  \/ SkipHexPropagators

Next == Search \/ CallHexPropagators \/ IsModel \/ HexPropagatorsReturn

Spec == Init /\ [][Next]_claspVars

-----------------------------------------------------------------------------
\* assert(fullyExtractedCurrentIntr == currentIntr && ...) in callHexPropagators: the
\* copy that is updated by watches is clasp's assignment whenever clasp's queue is
\* empty, whatever was undone and with however many atoms for one literal.
CopyExact ==
  queue = {} => currentIntr = TrueAtoms(value) /\ currentAssigned = Assigned(value)
===============================================================================
