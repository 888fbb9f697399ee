------------------------- MODULE SuccessorIntersection -------------------------
(***************************************************************************)
(* ModelGraph::getSuccessorIntersection: given one model for each          *)
(* predecessor of a unit, find a model of the unit that all of them        *)
(* contributed to.  The successors of each model are an ordered set (of    *)
(* addresses, here numbers), walked by one iterator per set: positions     *)
(* 1..at agree, the iterator after them catches up, and if it overtakes    *)
(* them the earlier ones follow and the search starts over.                *)
(*                                                                         *)
(* One action per round of the loop; an iterator is the element it points  *)
(* to.                                                                     *)
(***************************************************************************)
EXTENDS Naturals

CONSTANTS Predecessors,  \* how many models are intersected, at least two
          MaxModel       \* successors are numbers up to this bound

ASSUME PredecessorsAssumption == Predecessors \in Nat /\ Predecessors >= 2
ASSUME MaxModelAssumption     == MaxModel \in Nat

NoModel   == 0
Models    == 1..MaxModel
Positions == 1..Predecessors

VARIABLES successors,  \* the ordered set of each position
          iters,       \* where the iterator of each position points to
          at,          \* positions 1..at point to the same model
          status,      \* "search" or "return"
          result

vars == <<successors, iters, at, status, result>>

TypeOK ==
  /\ successors \in [Positions -> SUBSET Models]
  /\ iters \in [Positions -> Nat]
  /\ at \in Positions
  /\ status \in {"search", "return"}
  /\ result \in {NoModel} \cup Models

IsFirst(y, set) == y \in set /\ \A x \in set : y <= x

\* the elements an iterator at position u can still reach, from bound on
Reach(u, bound) == {x \in successors[u] : x >= iters[u] /\ x >= bound}

\* Without successors at one position there is no join.
Init ==
  /\ successors \in [Positions -> SUBSET Models]
  /\ at = 1
  /\ result = NoModel
  /\ \/ /\ \E u \in Positions : successors[u] = {}
        /\ status = "return"
        /\ iters = [u \in Positions |-> NoModel]
     \/ /\ \A u \in Positions : successors[u] # {}
        /\ status = "search"
        /\ iters \in [Positions -> Models]
        /\ \A u \in Positions : IsFirst(iters[u], successors[u])

\* Fault: positions that were overtaken are not asked again.
ReturnCommonTooEarly ==
  /\ status = "search" /\ at >= Predecessors - 1
  /\ result' = iters[1]
  /\ status' = "return"
  /\ UNCHANGED <<successors, iters, at>>

ReturnCommon ==
  /\ status = "search" /\ at = Predecessors
  /\ result' = iters[1]
  /\ status' = "return"
  /\ UNCHANGED <<successors, iters, at>>

\* an iterator ran into its end
ReturnNone ==
  /\ status' = "return"
  /\ UNCHANGED <<successors, iters, at, result>>

NextRunsOut ==
  /\ status = "search" /\ at < Predecessors
  /\ Reach(at + 1, iters[at]) = {}
  /\ ReturnNone

\* the next position reaches the model that the positions up to at point to
NextAgrees ==
  /\ status = "search" /\ at < Predecessors
  /\ IsFirst(iters[at], Reach(at + 1, iters[at]))
  /\ iters' = [iters EXCEPT ![at + 1] = iters[at]]
  /\ at' = at + 1
  /\ UNCHANGED <<successors, status, result>>

\* the next position went past them, to y
Overtakes(y) ==
  /\ status = "search" /\ at < Predecessors
  /\ IsFirst(y, Reach(at + 1, iters[at])) /\ y > iters[at]

PreviousRunOut ==
  \E y \in Models :
    /\ Overtakes(y)
    /\ \E u \in 1..at : Reach(u, y) = {}
    /\ ReturnNone

\* Fault: the search starts over but the positions before stay where they are.
PreviousStay ==
  \E y \in Models :
    /\ Overtakes(y)
    /\ \A u \in 1..at : Reach(u, y) # {}
    /\ at' = 1
    /\ UNCHANGED <<successors, iters, status, result>>

PreviousFollow ==
  \E y \in Models :
    /\ Overtakes(y)
    /\ \A u \in 1..at : Reach(u, y) # {}
    /\ iters' \in [Positions -> Models]
    /\ \A u \in 1..at : IsFirst(iters'[u], Reach(u, y))
    /\ iters'[at + 1] = y
    /\ \A u \in (at + 2)..Predecessors : iters'[u] = iters[u]
    /\ at' = 1
    /\ UNCHANGED <<successors, status, result>>

Returned == status = "return" /\ UNCHANGED vars

Next == ReturnCommon \/ NextRunsOut \/ NextAgrees \/ PreviousRunOut
        \/ PreviousFollow \/ Returned

Spec == Init /\ [][Next]_vars /\ WF_vars(Next)

Intersection == {x \in Models : \A u \in Positions : x \in successors[u]}

(***************************************************************************)
(* The code's promise, "return first intersected element, boost::none if   *)
(* none exists": the walk finds the join exactly when there is one.  A     *)
(* missed join would make createIModelFromPredecessorOModels build the     *)
(* same input model twice, a wrong one would merge different inputs.       *)
(***************************************************************************)
FirstIntersectedElement ==
  status = "return" =>
    IF Intersection = {} THEN result = NoModel ELSE IsFirst(result, Intersection)

(***************************************************************************)
(* What makes it so: every iterator is on one of its own successors, none  *)
(* has passed a common one, and positions 1..at agree.                     *)
(***************************************************************************)
NoCommonPassed ==
  status = "search" =>
    /\ \A u \in Positions : iters[u] \in successors[u]
    /\ \A u \in Positions : \A x \in Intersection : iters[u] <= x
    /\ \A u \in 1..at : iters[u] = iters[1]

(***************************************************************************)
(* The loop ends although it starts over again and again.                  *)
(***************************************************************************)
WalkEnds == <>(status = "return")
===============================================================================
