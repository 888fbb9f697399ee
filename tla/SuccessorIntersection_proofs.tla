--------------------- MODULE SuccessorIntersection_proofs ---------------------
(***************************************************************************)
(* The walk of getSuccessorIntersection is correct for any number of       *)
(* predecessors and all sets of successors: what it returns is the first   *)
(* common successor, and it returns nothing only if there is none.  (That  *)
(* it returns at all is checked by TLC.)                                   *)
(***************************************************************************)
EXTENDS SuccessorIntersection, TLAPS

\* The inductive invariant: while it searches the walk has passed no common
\* successor and has no result yet; afterwards the result is right.
WalkInv ==
  /\ TypeOK
  /\ NoCommonPassed
  /\ status = "search" => result = NoModel
  /\ FirstIntersectedElement

USE DEF Models, Positions, NoModel

\* The walk starts at the first successor of every position.
LEMMA InitWalk == Init => WalkInv
<1> SUFFICES ASSUME Init PROVE WalkInv
  OBVIOUS
<1> USE PredecessorsAssumption, MaxModelAssumption
<1>1. CASE /\ \E u \in Positions : successors[u] = {}
           /\ status = "return"
           /\ iters = [u \in Positions |-> NoModel]
  <2>1. Intersection = {}
    BY <1>1 DEF Intersection
  <2> QED
    BY <1>1, <2>1 DEF Init, WalkInv, TypeOK, NoCommonPassed, FirstIntersectedElement
<1>2. CASE /\ \A u \in Positions : successors[u] # {}
           /\ status = "search"
           /\ iters \in [Positions -> Models]
           /\ \A u \in Positions : IsFirst(iters[u], successors[u])
  <2>1. TypeOK
    BY <1>2 DEF Init, TypeOK
  <2>2. NoCommonPassed
    BY <1>2, <2>1 DEF Init, NoCommonPassed, IsFirst, Intersection, TypeOK
  <2> QED
    BY <1>2, <2>1, <2>2 DEF Init, WalkInv, FirstIntersectedElement
<1> QED
  BY <1>1, <1>2 DEF Init

\* A common successor that no iterator has passed can still be reached at every
\* position, from each bound that it is not below.
LEMMA CommonReachable ==
  ASSUME WalkInv, status = "search", NEW x \in Intersection, NEW u \in Positions,
         NEW bound \in Nat, x >= bound
  PROVE  x \in Reach(u, bound)
<1>1. x \in successors[u] /\ x \in Models
  BY DEF Intersection
<1>2. iters[u] <= x /\ iters[u] \in Nat
  BY DEF WalkInv, NoCommonPassed, TypeOK
<1> QED
  BY <1>1, <1>2 DEF Reach

LEMMA ReturnCommonKeeps == ASSUME WalkInv, ReturnCommon PROVE WalkInv'
<1> USE PredecessorsAssumption, MaxModelAssumption
<1>1. status = "search" /\ at = Predecessors /\ 1 \in Positions
  BY DEF ReturnCommon
<1>2. \A u \in Positions : iters[u] = iters[1]
  BY <1>1 DEF WalkInv, NoCommonPassed
<1>3. \A u \in Positions : iters[1] \in successors[u]
  BY <1>1, <1>2 DEF WalkInv, NoCommonPassed
<1>4. iters[1] \in Models
  BY <1>1, <1>3 DEF WalkInv, TypeOK
<1>5. IsFirst(iters[1], Intersection)
  BY <1>1, <1>3, <1>4 DEF IsFirst, Intersection, WalkInv, NoCommonPassed
<1>6. FirstIntersectedElement'
  <2>1. Intersection' = Intersection /\ Intersection # {} /\ result' = iters[1]
    BY <1>5 DEF ReturnCommon, Intersection, IsFirst
  <2>2. IsFirst(result', Intersection')
    BY <1>5, <2>1
  <2> QED
    BY <2>1, <2>2 DEF FirstIntersectedElement, IsFirst
<1> QED
  BY <1>4, <1>6 DEF ReturnCommon, WalkInv, TypeOK, NoCommonPassed

\* Without a common successor, the end of an iterator is the right answer.
LEMMA ReturnNoneKeeps ==
  ASSUME WalkInv, status = "search", ReturnNone, Intersection = {} PROVE WalkInv'
<1>1. Intersection' = {} /\ result' = NoModel
  BY DEF ReturnNone, WalkInv, Intersection
<1> QED
  BY <1>1 DEF ReturnNone, WalkInv, TypeOK, NoCommonPassed, FirstIntersectedElement

LEMMA NextRunsOutKeeps == ASSUME WalkInv, NextRunsOut PROVE WalkInv'
<1> USE PredecessorsAssumption, MaxModelAssumption
<1>1. status = "search" /\ at \in Positions /\ at + 1 \in Positions /\ iters[at] \in Nat
  BY DEF NextRunsOut, WalkInv, TypeOK
<1>2. ASSUME NEW x \in Intersection PROVE x >= iters[at]
  BY <1>1, <1>2 DEF WalkInv, NoCommonPassed, Intersection
<1>3. Intersection = {}
  <2> SUFFICES ASSUME NEW x \in Intersection PROVE FALSE
    OBVIOUS
  <2>1. x \in Reach(at + 1, iters[at])
    BY <1>1, <1>2, CommonReachable
  <2> QED
    BY <2>1 DEF NextRunsOut
<1> QED
  BY <1>1, <1>3, ReturnNoneKeeps DEF NextRunsOut

LEMMA NextAgreesKeeps == ASSUME WalkInv, NextAgrees PROVE WalkInv'
<1> USE PredecessorsAssumption, MaxModelAssumption
<1>1. /\ status = "search" /\ at \in Positions /\ at + 1 \in Positions
      /\ iters \in [Positions -> Nat]
  BY DEF NextAgrees, WalkInv, TypeOK
<1>2. iters[at] \in successors[at + 1]
  BY DEF NextAgrees, IsFirst, Reach
<1>3. TypeOK'
  BY <1>1 DEF NextAgrees, WalkInv, TypeOK
<1>4. /\ iters'[at + 1] = iters[at] /\ at' = at + 1
      /\ \A u \in Positions \ {at + 1} : iters'[u] = iters[u]
      /\ Intersection' = Intersection /\ successors' = successors
  BY <1>1 DEF NextAgrees, Intersection
<1>5. NoCommonPassed'
  <2>1. \A u \in Positions : iters'[u] \in successors'[u]
    BY <1>1, <1>2, <1>4 DEF WalkInv, NoCommonPassed
  <2>2. \A u \in Positions : \A x \in Intersection' : iters'[u] <= x
    BY <1>1, <1>4 DEF WalkInv, NoCommonPassed
  <2>3. \A u \in 1..at' : iters'[u] = iters'[1]
    <3>1. iters[at] = iters[1] /\ iters'[1] = iters[1]
      BY <1>1, <1>4 DEF WalkInv, NoCommonPassed
    <3> QED
      BY <1>1, <1>4, <3>1 DEF WalkInv, NoCommonPassed
  <2> QED
    BY <2>1, <2>2, <2>3 DEF NoCommonPassed
<1> QED
  BY <1>3, <1>5 DEF NextAgrees, WalkInv, FirstIntersectedElement

\* The position that overtakes y has not passed a common successor either.
LEMMA OvertakenBelowCommon ==
  ASSUME WalkInv, NEW y \in Models, Overtakes(y), NEW x \in Intersection
  PROVE  y <= x
<1> USE PredecessorsAssumption, MaxModelAssumption
<1>1. status = "search" /\ at \in Positions /\ at + 1 \in Positions /\ iters[at] \in Nat
  BY DEF Overtakes, WalkInv, TypeOK
<1>2. x >= iters[at]
  BY <1>1 DEF WalkInv, NoCommonPassed, Intersection
<1>3. x \in Reach(at + 1, iters[at])
  BY <1>1, <1>2, CommonReachable
<1> QED
  BY <1>3 DEF Overtakes, IsFirst

LEMMA PreviousRunOutKeeps == ASSUME WalkInv, PreviousRunOut PROVE WalkInv'
<1> USE PredecessorsAssumption, MaxModelAssumption
<1> PICK y \in Models : /\ Overtakes(y)
                        /\ \E u \in 1..at : Reach(u, y) = {}
                        /\ ReturnNone
  BY DEF PreviousRunOut
<1>1. status = "search" /\ 1..at \subseteq Positions
  BY DEF Overtakes, WalkInv, TypeOK
<1>2. Intersection = {}
  <2> SUFFICES ASSUME NEW x \in Intersection PROVE FALSE
    OBVIOUS
  <2>1. y <= x /\ x \in Models
    BY OvertakenBelowCommon DEF Intersection
  <2>2. \A u \in 1..at : x \in Reach(u, y)
    BY <1>1, <2>1, CommonReachable
  <2> QED
    BY <2>2
<1> QED
  BY <1>1, <1>2, ReturnNoneKeeps

LEMMA PreviousFollowKeeps == ASSUME WalkInv, PreviousFollow PROVE WalkInv'
<1> USE PredecessorsAssumption, MaxModelAssumption
<1> PICK y \in Models :
      /\ Overtakes(y)
      /\ iters' \in [Positions -> Models]
      /\ \A u \in 1..at : IsFirst(iters'[u], Reach(u, y))
      /\ iters'[at + 1] = y
      /\ \A u \in (at + 2)..Predecessors : iters'[u] = iters[u]
      /\ at' = 1
      /\ UNCHANGED <<successors, status, result>>
  BY DEF PreviousFollow
<1>1. status = "search" /\ at \in Positions /\ at + 1 \in Positions
  BY DEF Overtakes, WalkInv, TypeOK
<1>2. TypeOK'
  BY <1>1 DEF WalkInv, TypeOK
<1>3. Intersection' = Intersection
  BY DEF Intersection
<1>4. ASSUME NEW u \in Positions
      PROVE  /\ iters'[u] \in successors[u]
             /\ \A x \in Intersection : iters'[u] <= x
  <2>1. CASE u \in 1..at
    <3>1. iters'[u] \in successors[u]
      BY <2>1 DEF IsFirst, Reach
    <3>2. ASSUME NEW x \in Intersection PROVE x \in Reach(u, y)
      <4>1. y <= x /\ x \in Models
        BY OvertakenBelowCommon DEF Intersection
      <4> QED
        BY <1>1, <2>1, <4>1, CommonReachable
    <3> QED
      BY <2>1, <3>1, <3>2 DEF IsFirst
  <2>2. CASE u = at + 1
    BY <2>2, OvertakenBelowCommon DEF Overtakes, IsFirst, Reach
  <2>3. CASE u \in (at + 2)..Predecessors
    BY <1>1, <2>3 DEF WalkInv, NoCommonPassed
  <2> QED
    BY <1>1, <2>1, <2>2, <2>3
<1>5. NoCommonPassed'
  BY <1>3, <1>4 DEF NoCommonPassed
<1> QED
  BY <1>1, <1>2, <1>5 DEF WalkInv, FirstIntersectedElement

LEMMA StepWalk == WalkInv /\ [Next]_vars => WalkInv'
<1> SUFFICES ASSUME WalkInv, [Next]_vars PROVE WalkInv'
  OBVIOUS
<1>1. CASE ReturnCommon    BY <1>1, ReturnCommonKeeps
<1>2. CASE NextRunsOut     BY <1>2, NextRunsOutKeeps
<1>3. CASE NextAgrees      BY <1>3, NextAgreesKeeps
<1>4. CASE PreviousRunOut  BY <1>4, PreviousRunOutKeeps
<1>5. CASE PreviousFollow  BY <1>5, PreviousFollowKeeps
<1>6. CASE UNCHANGED vars
  BY <1>6 DEF vars, WalkInv, TypeOK, NoCommonPassed, FirstIntersectedElement, Intersection
<1> QED
  BY <1>1, <1>2, <1>3, <1>4, <1>5, <1>6 DEF Next, Returned

LEMMA WalkInvariant == Spec => []WalkInv
  BY InitWalk, StepWalk, PTL DEF Spec

\* Every iterator points to an element, and the position stays within the predecessors.
THEOREM WalkTypeCorrect == Spec => []TypeOK
<1>1. WalkInv => TypeOK
  BY DEF WalkInv
<1> QED
  BY <1>1, WalkInvariant, PTL

\* For any number of predecessors and any successors the walk passes no common one.
THEOREM PassesNoCommon == Spec => []NoCommonPassed
<1>1. WalkInv => NoCommonPassed
  BY DEF WalkInv
<1> QED
  BY <1>1, WalkInvariant, PTL

\* "return first intersected element, boost::none if none exists", for any number of
\* predecessors and any successors.
THEOREM ReturnsFirstIntersected == Spec => []FirstIntersectedElement
<1>1. WalkInv => FirstIntersectedElement
  BY DEF WalkInv
<1> QED
  BY <1>1, WalkInvariant, PTL
===============================================================================
