-------------------- MODULE ExternalAtomVerification_proofs --------------------
(***************************************************************************)
(* The incremental copy of clasp's assignment is exact, for any atoms,     *)
(* variables and assignment of atoms to literals, and for every order in   *)
(* which clasp assigns, backjumps, restarts and calls the propagator.  On  *)
(* top of the copy, the verification of external atoms is right for any    *)
(* external atoms, masks, plugins and heuristics.                          *)
(***************************************************************************)
EXTENDS ExternalAtomVerification, WellFoundedInduction, TLAPS

-----------------------------------------------------------------------------
(* The copy of clasp's assignment (ClaspSolver).                           *)

Var(a) == hexToClasp[a].var

CopyTypeOK ==
  /\ value \in [Variables -> Values \cup {Free}]
  /\ level \in [Variables -> Nat]
  /\ decisionLevel \in Nat
  /\ queue \subseteq Variables
  /\ currentIntr \subseteq Atoms /\ currentAssigned \subseteq Atoms /\ currentChanged \subseteq Atoms
  /\ assignmentsOnDecisionLevel \subseteq Atoms \X Nat
  /\ undoWatches \subseteq Nat

\* What clasp guarantees: a queue only at the current level, and only while it propagates.
LevelsOK ==
  /\ \A v \in Variables : level[v] <= decisionLevel
  /\ \A v \in queue : value[v] # Free /\ level[v] = decisionLevel
  /\ \A v \in Variables : value[v] = Free => level[v] = 0
  /\ pc \notin {"propagating", "exhausted"} => queue = {}
  /\ pc \in {"calling for model", "model"} => \A v \in Variables : value[v] # Free

\* The copy is that of the assignment without the queue.
CopyOK ==
  \A a \in Atoms :
    /\ a \in currentIntr <=> Var(a) \notin queue /\ MakesTrue(value[Var(a)], a)
    /\ a \in currentAssigned <=> Var(a) \notin queue /\ value[Var(a)] # Free

\* The lists per level hold what has to be undone, and the level is watched.
PairsOK ==
  /\ \A s \in assignmentsOnDecisionLevel :
       /\ value[Var(s[1])] # Free
       /\ s[2] = level[Var(s[1])]
       /\ Var(s[1]) \notin queue
       /\ s[2] > 0 => s[2] \in undoWatches
  /\ \A a \in Atoms :
       level[Var(a)] > 0 /\ Var(a) \notin queue => <<a, level[Var(a)]>> \in assignmentsOnDecisionLevel

CopyInv == CopyTypeOK /\ LevelsOK /\ CopyOK /\ PairsOK

LEMMA VarType == \A a \in Atoms : Var(a) \in Variables /\ hexToClasp[a].sign \in BOOLEAN
  BY HexToClaspAssumption DEF Var

\* A literal of a free variable is not true.
LEMMA FreeIsNotTrue == \A a \in Atoms : ~MakesTrue(Free, a)
  BY DEF MakesTrue, Free

\* The extraction at the start is exact.
LEMMA InitCopy == Init => CopyInv
<1> SUFFICES ASSUME Init PROVE CopyInv
  OBVIOUS
<1>1. CopyTypeOK
  BY DEF Init, CopyTypeOK, TrueAtoms, Assigned
<1>2. LevelsOK
  BY DEF Init, LevelsOK
<1>3. CopyOK
  BY DEF Init, CopyOK, TrueAtoms, Assigned, Var
<1>4. PairsOK
  BY VarType DEF Init, PairsOK
<1> QED
  BY <1>1, <1>2, <1>3, <1>4 DEF CopyInv

\* A variable that is assigned is not seen before it leaves the queue.
LEMMA AssignCopy ==
  ASSUME CopyInv, NEW v \in Variables, NEW val \in Values, NEW dl \in Nat,
         Assign(v, val, dl), dl = decisionLevel', decisionLevel' >= decisionLevel,
         decisionLevel' > decisionLevel => queue = {},
         pc' = "propagating", UNCHANGED copyVars
  PROVE  CopyInv'
<1> USE DEF CopyInv
<1>1. v \notin queue
  BY DEF Assign, LevelsOK
<1>2. CopyTypeOK'
  BY DEF Assign, CopyTypeOK, copyVars
<1>3. val # Free
  BY DEF Values, Free
<1>4. LevelsOK'
  <2>1. /\ decisionLevel \in Nat /\ dl \in Nat /\ dl >= decisionLevel
        /\ value' = [value EXCEPT ![v] = val] /\ level' = [level EXCEPT ![v] = dl]
        /\ value \in [Variables -> Values \cup {Free}] /\ level \in [Variables -> Nat]
    BY DEF Assign, CopyTypeOK
  <2>2. ASSUME NEW w \in Variables PROVE level'[w] <= dl /\ (value'[w] = Free => level'[w] = 0)
    <3>1. level[w] \in Nat /\ level[w] <= decisionLevel /\ (value[w] = Free => level[w] = 0)
      BY <2>1 DEF LevelsOK
    <3>2. CASE w = v
      BY <3>2, <2>1, <1>3
    <3>3. CASE w # v
      BY <3>1, <3>3, <2>1
    <3> QED
      BY <3>2, <3>3
  <2>3. \A w \in queue : w \in Variables /\ w # v /\ value[w] # Free /\ level[w] = dl
    <3>1. CASE queue = {}
      BY <3>1
    <3>2. CASE dl = decisionLevel
      BY <3>2, <1>1 DEF LevelsOK, CopyTypeOK
    <3> QED
      BY <3>1, <3>2, <2>1
  <2>4. \A w \in queue' : value'[w] # Free /\ level'[w] = dl
    BY <1>3, <2>1, <2>3 DEF Assign
  <2>5. pc' \notin {"calling for model", "model"} /\ pc' \in {"propagating", "exhausted"}
    OBVIOUS
  <2>6. dl = decisionLevel'
    OBVIOUS
  <2> QED
    BY <2>2, <2>4, <2>5, <2>6 DEF LevelsOK
<1>5. CopyOK'
  BY <1>1, <1>3, VarType, FreeIsNotTrue DEF Assign, CopyOK, CopyTypeOK, copyVars
<1>6. PairsOK'
  <2>1. \A s \in assignmentsOnDecisionLevel : Var(s[1]) # v
    BY DEF Assign, PairsOK
  <2> QED
    BY <2>1, VarType DEF Assign, PairsOK, CopyTypeOK, copyVars
<1> QED
  BY <1>2, <1>4, <1>5, <1>6

\* A variable leaves the queue: its atoms are copied, and undone with its level.
LEMMA PropagateCopy == ASSUME CopyInv, Propagate PROVE CopyInv'
<1> USE DEF CopyInv
<1> PICK v \in queue :
      /\ queue' = queue \ {v}
      /\ currentIntr' = (currentIntr \ HexAtoms(v)) \cup (TrueAtoms(value) \cap HexAtoms(v))
      /\ currentAssigned' = currentAssigned \cup HexAtoms(v)
      /\ currentChanged' = currentChanged \cup HexAtoms(v)
      /\ assignmentsOnDecisionLevel' = assignmentsOnDecisionLevel \cup {<<a, level[v]>> : a \in HexAtoms(v)}
      /\ undoWatches' = undoWatches \cup {l \in {level[v]} : l > 0 /\ NeedsUndoWatch(HexAtoms(v), l)}
  BY DEF Propagate
<1>1. UNCHANGED <<value, level, decisionLevel, pc>> /\ pc = "propagating"
  BY DEF Propagate
<1>2. v \in Variables /\ level[v] \in Nat /\ value[v] # Free
  BY DEF CopyTypeOK, LevelsOK
<1>3. HexAtoms(v) \subseteq Atoms /\ \A a \in Atoms : a \in HexAtoms(v) <=> Var(a) = v
  BY DEF HexAtoms, Var
<1>4. CopyTypeOK'
  <2>1. {<<a, level[v]>> : a \in HexAtoms(v)} \subseteq Atoms \X Nat
    BY <1>2, <1>3
  <2>2. {l \in {level[v]} : l > 0 /\ NeedsUndoWatch(HexAtoms(v), l)} \subseteq Nat
    BY <1>2
  <2>3. assignmentsOnDecisionLevel' \subseteq Atoms \X Nat /\ undoWatches' \subseteq Nat
    BY <2>1, <2>2 DEF CopyTypeOK
  <2> QED
    BY <1>1, <1>3, <2>3 DEF CopyTypeOK
<1>5. LevelsOK'
  BY <1>1 DEF LevelsOK
<1>6. CopyOK'
  BY <1>1, <1>2, <1>3 DEF CopyOK, TrueAtoms, Var
<1>7. level[v] > 0 /\ HexAtoms(v) # {} => level[v] \in undoWatches'
  <2> SUFFICES ASSUME level[v] > 0, HexAtoms(v) # {}, level[v] \notin undoWatches
               PROVE  level[v] \in undoWatches'
    OBVIOUS
  <2>1. \A b \in Atoms : <<b, level[v]>> \notin assignmentsOnDecisionLevel
    BY DEF PairsOK
  <2>2. NeedsUndoWatch(HexAtoms(v), level[v])
    BY <2>1 DEF NeedsUndoWatch
  <2> QED
    BY <2>2
<1>8. PairsOK'
  <2>1. ASSUME NEW s \in assignmentsOnDecisionLevel'
        PROVE  (/\ value[Var(s[1])] # Free
                /\ s[2] = level[Var(s[1])]
                /\ Var(s[1]) \notin queue \ {v}
                /\ s[2] > 0 => s[2] \in undoWatches')
    <3>1. CASE s \in assignmentsOnDecisionLevel
      BY <3>1 DEF PairsOK
    <3>2. CASE \E a \in HexAtoms(v) : s = <<a, level[v]>>
      BY <3>2, <1>2, <1>3, <1>7
    <3> QED
      BY <3>1, <3>2
  <2>2. ASSUME NEW a \in Atoms, level[Var(a)] > 0, Var(a) \notin queue \ {v}
        PROVE  <<a, level[Var(a)]>> \in assignmentsOnDecisionLevel'
    BY <2>2, <1>3 DEF PairsOK
  <2>3. /\ value' = value /\ level' = level /\ queue' = queue \ {v}
        /\ \A a : Var(a)' = Var(a)
    BY <1>1 DEF Var
  <2> QED
    BY <2>1, <2>2, <2>3 DEF PairsOK
<1> QED
  BY <1>4, <1>5, <1>6, <1>8

\* A level is undone: what was copied of it is removed, because the level is watched.
LEMMA UndoCopy == ASSUME CopyInv, UndoLevel PROVE CopyInv'
<1> USE DEF CopyInv
<1> DEFINE undone == IF decisionLevel \in undoWatches
                     THEN {s \in assignmentsOnDecisionLevel : s[2] >= decisionLevel} ELSE {}
           atoms == {s[1] : s \in undone}
<1>1. /\ decisionLevel > 0
      /\ decisionLevel' = decisionLevel - 1
      /\ queue' = {} /\ pc' = "undoing"
      /\ value' = [v \in Variables |-> IF level[v] = decisionLevel THEN Free ELSE value[v]]
      /\ level' = [v \in Variables |-> IF level[v] = decisionLevel THEN 0 ELSE level[v]]
  BY DEF UndoLevel
<1>2. /\ currentIntr' = currentIntr \ atoms
      /\ currentAssigned' = currentAssigned \ atoms
      /\ currentChanged' = currentChanged \cup atoms
      /\ assignmentsOnDecisionLevel' = assignmentsOnDecisionLevel \ undone
      /\ undoWatches' = undoWatches \ {decisionLevel}
  BY DEF UndoLevel
<1>3. \A s \in assignmentsOnDecisionLevel :
        s = <<s[1], s[2]>> /\ s[1] \in Atoms /\ s[2] \in Nat /\ (s \in undone <=> s[2] = decisionLevel)
  <2> SUFFICES ASSUME NEW s \in assignmentsOnDecisionLevel
               PROVE  /\ s = <<s[1], s[2]>> /\ s[1] \in Atoms /\ s[2] \in Nat
                      /\ s \in undone <=> s[2] = decisionLevel
    OBVIOUS
  <2>1. s \in Atoms \X Nat
    BY DEF CopyTypeOK
  <2>2. s = <<s[1], s[2]>> /\ s[1] \in Atoms /\ s[2] \in Nat
    BY <2>1
  <2>3. s[2] <= decisionLevel /\ decisionLevel \in Nat
    BY <2>2, VarType DEF PairsOK, LevelsOK, CopyTypeOK
  <2>4. s[2] > 0 => s[2] \in undoWatches
    BY DEF PairsOK
  <2> QED
    BY <1>1, <2>2, <2>3, <2>4
<1>4. ASSUME NEW a \in Atoms, Var(a) \notin queue
      PROVE  a \in atoms <=> level[Var(a)] = decisionLevel
  <2>1. ASSUME a \in atoms PROVE level[Var(a)] = decisionLevel
    BY <2>1, <1>3 DEF PairsOK
  <2>2. ASSUME level[Var(a)] = decisionLevel PROVE a \in atoms
    <3>1. <<a, decisionLevel>> \in assignmentsOnDecisionLevel
      BY <2>2, <1>1, <1>4 DEF PairsOK
    <3> QED
      BY <3>1, <1>3
  <2> QED
    BY <2>1, <2>2
<1>5. CopyTypeOK'
  <2>1. atoms \subseteq Atoms
    BY <1>3
  <2>2. decisionLevel' \in Nat
    BY <1>1 DEF CopyTypeOK
  <2> HIDE DEF atoms, undone
  <2>3. value' \in [Variables -> Values \cup {Free}] /\ level' \in [Variables -> Nat]
    BY <1>1 DEF CopyTypeOK
  <2> QED
    BY <1>1, <1>2, <2>1, <2>2, <2>3 DEF CopyTypeOK
<1>6. LevelsOK'
  <2>1. level \in [Variables -> Nat] /\ decisionLevel \in Nat
    BY DEF CopyTypeOK
  <2>2. ASSUME NEW v \in Variables
        PROVE  level'[v] <= decisionLevel - 1 /\ (value'[v] = Free => level'[v] = 0)
    <3>1. level[v] \in Nat /\ level[v] <= decisionLevel /\ (value[v] = Free => level[v] = 0)
      BY <2>1 DEF LevelsOK
    <3>2. CASE level[v] = decisionLevel
      BY <3>2, <2>1, <1>1
    <3>3. CASE level[v] # decisionLevel
      BY <3>1, <3>3, <2>1, <1>1
    <3> QED
      BY <3>2, <3>3
  <2>3. pc' \notin {"calling for model", "model"}
    BY <1>1
  <2> QED
    BY <1>1, <2>2, <2>3 DEF LevelsOK
<1>7. CopyOK'
  <2> SUFFICES ASSUME NEW a \in Atoms
               PROVE  /\ a \in currentIntr' <=> MakesTrue(value'[Var(a)], a)
                      /\ a \in currentAssigned' <=> value'[Var(a)] # Free
    BY <1>1 DEF CopyOK, MakesTrue, Var
  <2>1. Var(a) \in Variables
    BY VarType
  <2>2. CASE Var(a) \in queue
    <3>1. value'[Var(a)] = Free
      BY <2>1, <2>2, <1>1 DEF LevelsOK
    <3> QED
      BY <3>1, <2>2, <1>2, FreeIsNotTrue DEF CopyOK
  <2>3. CASE Var(a) \notin queue /\ level[Var(a)] = decisionLevel
    <3>1. value'[Var(a)] = Free /\ a \in atoms
      BY <2>1, <2>3, <1>1, <1>4
    <3> QED
      BY <3>1, <1>2, FreeIsNotTrue
  <2>4. CASE Var(a) \notin queue /\ level[Var(a)] # decisionLevel
    <3>1. value'[Var(a)] = value[Var(a)] /\ a \notin atoms
      BY <2>1, <2>4, <1>1, <1>4
    <3> QED
      BY <3>1, <2>4, <1>2 DEF CopyOK
  <2> QED
    BY <2>2, <2>3, <2>4
<1>8. PairsOK'
  <2>1. ASSUME NEW s \in assignmentsOnDecisionLevel \ undone
        PROVE  (/\ value'[Var(s[1])] # Free
                /\ s[2] = level'[Var(s[1])]
                /\ s[2] > 0 => s[2] \in undoWatches')
    <3> HIDE DEF undone, atoms
    <3>1. s[1] \in Atoms /\ s[2] # decisionLevel /\ Var(s[1]) \in Variables
      BY <1>3, VarType
    <3> QED
      BY <3>1, <1>1, <1>2 DEF PairsOK
  <2>2. ASSUME NEW a \in Atoms, level'[Var(a)] > 0
        PROVE  <<a, level'[Var(a)]>> \in assignmentsOnDecisionLevel \ undone
    <3>1. Var(a) \in Variables /\ level[Var(a)] # decisionLevel /\ level'[Var(a)] = level[Var(a)]
      BY <2>2, <1>1, VarType
    <3>2. Var(a) \notin queue
      BY <3>1 DEF LevelsOK
    <3>3. <<a, level[Var(a)]>> \in assignmentsOnDecisionLevel
      BY <3>1, <3>2, <2>2 DEF PairsOK
    <3> QED
      BY <3>1, <3>3, <1>3
  <2>3. \A a : Var(a)' = Var(a)
    BY DEF Var
  <2> HIDE DEF undone, atoms
  <2> QED
    BY <1>1, <1>2, <2>1, <2>2, <2>3 DEF PairsOK
<1> QED
  BY <1>5, <1>6, <1>7, <1>8

\* Every step of the search and of the propagator keeps the copy right.
LEMMA StepCopy == CopyInv /\ [Next]_claspVars => CopyInv'
<1> SUFFICES ASSUME CopyInv, [Next]_claspVars PROVE CopyInv'
  OBVIOUS
<1>1. CASE Imply
  <2>1. PICK v \in Variables, val \in Values : Assign(v, val, decisionLevel)
    BY <1>1 DEF Imply
  <2>2. decisionLevel \in Nat /\ decisionLevel' = decisionLevel
    BY <1>1 DEF Imply, CopyInv, CopyTypeOK
  <2> QED
    BY <2>1, <2>2, <1>1, AssignCopy DEF Imply
<1>2. CASE Decide
  <2>1. PICK v \in Variables, val \in Values : Assign(v, val, decisionLevel + 1)
    BY <1>2 DEF Decide
  <2>2. decisionLevel \in Nat /\ decisionLevel' = decisionLevel + 1 /\ queue = {}
    BY <1>2 DEF Decide, CopyInv, CopyTypeOK, LevelsOK
  <2> QED
    BY <2>1, <2>2, <1>2, AssignCopy DEF Decide
<1>3. CASE Propagate
  BY <1>3, PropagateCopy
<1>4. CASE UndoLevel
  BY <1>4, UndoCopy
<1>5. CASE Resume \/ Exhaust \/ SkipHexPropagators \/ CallHexPropagators \/ IsModel
  BY <1>5 DEF Resume, Exhaust, SkipHexPropagators, CallHexPropagators, IsModel, copyVars,
              CopyInv, CopyTypeOK, LevelsOK, CopyOK, PairsOK, Var, MakesTrue
<1>6. CASE HexPropagatorsReturn
  BY <1>6 DEF HexPropagatorsReturn, Calling, CopyInv, CopyTypeOK, LevelsOK, CopyOK, PairsOK, Var, MakesTrue
<1>7. CASE UNCHANGED claspVars
  BY <1>7 DEF claspVars, CopyInv, CopyTypeOK, LevelsOK, CopyOK, PairsOK, Var, MakesTrue
<1> QED
  BY <1>1, <1>2, <1>3, <1>4, <1>5, <1>6, <1>7 DEF Next, Search

LEMMA CopyInvExact == CopyInv => CopyExact
  BY DEF CopyInv, CopyTypeOK, CopyOK, CopyExact, TrueAtoms, Assigned, Var

\* The copy that propagate and undoLevel maintain is clasp's assignment whenever clasp's
\* queue is empty (the assertion in callHexPropagators).
THEOREM CopyIsExact == Spec => []CopyExact
<1>1. Spec => []CopyInv
  BY InitCopy, StepCopy, PTL DEF Spec
<1> QED
  BY <1>1, CopyInvExact, PTL

-----------------------------------------------------------------------------
(* The verification of external atoms.                                     *)

\* A nonempty set of numbers has a first one.
LEMMA FirstIn ==
  ASSUME NEW S \in SUBSET Nat, S # {}
  PROVE  First(S) \in S /\ \A b \in S : First(S) <= b
<1>1. \E a \in S : \A b \in S : ~(<<b, a>> \in OpToRel(<, Nat))
  BY NatLessThanWellFounded, WFMin, Zenon
<1>2. PICK a \in S : \A b \in S : ~(<<b, a>> \in OpToRel(<, Nat))
  BY <1>1
<1>3. ASSUME NEW b \in S PROVE a <= b
  <2>1. a \in Nat /\ b \in Nat
    OBVIOUS
  <2>2. ~(b < a)
    BY <1>2, <2>1 DEF OpToRel
  <2> QED
    BY <2>1, <2>2
<1> QED
  BY <1>3 DEF First

\* Every step of the verification is a step of the search or of the propagator.
LEMMA VerificationStepIsSearchStep == [VerificationNext]_allVars => [Next]_claspVars
<1> SUFFICES ASSUME [VerificationNext]_allVars PROVE [Next]_claspVars
  OBVIOUS
<1> QED
  BY DEF VerificationNext, SearchStep, StartPropagate, VerifyExternalAtoms, EndPropagate,
         FinalCompatibilityCheck, Terminating, allVars, Next

\* The composed system implements the propagator of ClaspSolver, so that what is proved
\* about the copy holds while external atoms are verified, too.
THEOREM VerificationImplementsPropagator == VerificationSpec => Spec
<1>1. VerificationInit => Init
  BY DEF VerificationInit
<1> QED
  BY <1>1, VerificationStepIsSearchStep, PTL DEF VerificationSpec, Spec

-----------------------------------------------------------------------------
\* The verdict of e is there and right for the copy.
Current(e) ==
  /\ MaskInProgram(e) \subseteq currentAssigned
  /\ e \in eaVerified <=> Verifies(e, currentIntr)

VerdictInv ==
  /\ eaEvaluated \subseteq ExternalAtoms
  /\ eaVerified \subseteq eaEvaluated
  /\ VerdictsCurrent
  /\ Calling => \A e \in eaEvaluated : Current(e)
  /\ pc = "model" => currentChanged = {}
  /\ compatible # "unknown" => pc = "model"
  /\ CompatibilityRight

\* What the next call, or the rest of this call, comes to.
Pending == IF Calling THEN toVerify ELSE currentChanged

\* The external atoms that cannot come to watch an atom outside the program.
Watching == {e \in AlwaysEvaluated : OutsideLast(e) /\ MaskInProgram(e) # {}}

\* Each of them watches an atom of the program that is not assigned, or one that is pending.
WatchInv ==
  /\ verifyWatchList \in [RegisteredAtoms -> SUBSET ExternalAtoms]
  /\ toVerify \subseteq currentAssigned
  /\ ~Calling => toVerify = {}
  /\ \A e \in Watching \ eaEvaluated :
       \E a \in MaskInProgram(e) : e \in verifyWatchList[a] /\ (a \in currentAssigned => a \in Pending)

VerificationInv == CopyInv /\ VerdictInv /\ WatchInv

LEMMA MaskType ==
  \A e \in ExternalAtoms : /\ Mask[e] \subseteq RegisteredAtoms /\ Mask[e] \in SUBSET Nat
                           /\ MaskInProgram(e) \subseteq Atoms /\ MaskInProgram(e) \subseteq Mask[e]
                           /\ MaskInProgram(e) \in SUBSET Nat
  BY MaskAssumption DEF MaskInProgram

\* Of the atoms that are not assigned the first one is of the program, if one is.
LEMMA FirstInProgram ==
  ASSUME NEW e \in Watching, NEW assigned \in SUBSET Atoms, MaskInProgram(e) \ assigned # {}
  PROVE  /\ Mask[e] \ assigned # {}
         /\ First(Mask[e] \ assigned) \in MaskInProgram(e) \ assigned
         /\ First(Mask[e] \ assigned) \in RegisteredAtoms
<1>1. e \in ExternalAtoms
  BY MaskAssumption DEF Watching
<1>2. PICK b \in MaskInProgram(e) : b \notin assigned
  OBVIOUS
<1>3. b \in Mask[e] \ assigned /\ Mask[e] \ assigned \in SUBSET Nat
  BY <1>1, <1>2, MaskType
<1>4. PICK a : a = First(Mask[e] \ assigned)
  OBVIOUS
<1>5. a \in Mask[e] \ assigned /\ a <= b
  BY <1>3, <1>4, FirstIn
<1>6. a \in Nat /\ b \in Nat
  BY <1>3, <1>5
<1>7. a \notin Atoms => b < a
  BY <1>2, <1>5 DEF Watching, OutsideLast
<1>8. a \in MaskInProgram(e)
  BY <1>5, <1>6, <1>7 DEF MaskInProgram
<1> QED
  BY <1>1, <1>3, <1>4, <1>5, <1>8, MaskType

\* What the search changes of the copy counts as changed, and no call is under way.
LEMMA SearchFrame ==
  ASSUME CopyInv, Search
  PROVE  /\ ~Calling /\ ~Calling' /\ pc' # "model" /\ pc' # "calling for model"
         /\ currentChanged \subseteq currentChanged'
         /\ \A a : a \notin currentChanged' =>
              /\ a \in currentAssigned' <=> a \in currentAssigned
              /\ a \in currentIntr' <=> a \in currentIntr
<1>1. CASE Propagate
  BY <1>1 DEF Propagate, Calling
<1>2. CASE UndoLevel
  BY <1>2 DEF UndoLevel, Calling
<1>3. CASE Imply \/ Decide \/ Resume \/ Exhaust \/ SkipHexPropagators
  BY <1>3 DEF Imply, Decide, Resume, Exhaust, SkipHexPropagators, Calling, copyVars
<1> QED
  BY <1>1, <1>2, <1>3 DEF Search

-----------------------------------------------------------------------------
LEMMA InitVerification == VerificationInit => VerificationInv
<1> SUFFICES ASSUME VerificationInit PROVE VerificationInv
  OBVIOUS
<1>1. CopyInv
  BY InitCopy DEF VerificationInit
<1>2. VerdictInv
  BY DEF VerificationInit, Init, VerdictInv, VerdictsCurrent, Calling, CompatibilityRight
<1>3. currentAssigned = currentChanged /\ ~Calling
  BY DEF VerificationInit, Init, Calling
<1>4. ASSUME NEW e \in Watching
      PROVE  \E a \in MaskInProgram(e) : e \in verifyWatchList[a] /\ (a \in currentAssigned => a \in Pending)
  <2>1. e \in ExternalAtoms /\ MaskInProgram(e) # {} /\ Mask[e] \ {} = Mask[e]
    BY MaskAssumption DEF Watching
  <2>2. Mask[e] # {} /\ First(Mask[e]) \in MaskInProgram(e) /\ First(Mask[e]) \in RegisteredAtoms
    BY <2>1, FirstInProgram
  <2>3. e \in verifyWatchList[First(Mask[e])]
    BY <2>1, <2>2 DEF VerificationInit
  <2> QED
    BY <2>2, <2>3, <1>3 DEF Pending
<1>5. WatchInv
  <2>1. verifyWatchList \in [RegisteredAtoms -> SUBSET ExternalAtoms]
    BY DEF VerificationInit
  <2> QED
    BY <1>3, <1>4, <2>1 DEF VerificationInit, WatchInv
<1> QED
  BY <1>1, <1>2, <1>5 DEF VerificationInv

\* Only verdicts whose mask counts as changed may become outdated by the search.
LEMMA SearchKeeps == ASSUME VerificationInv, SearchStep PROVE VerdictInv' /\ WatchInv'
<1> USE DEF VerificationInv
<1>1. /\ ~Calling /\ ~Calling' /\ pc' # "model"
      /\ currentChanged \subseteq currentChanged'
      /\ \A a : a \notin currentChanged' => /\ a \in currentAssigned' <=> a \in currentAssigned
                                            /\ a \in currentIntr' <=> a \in currentIntr
  BY SearchFrame DEF SearchStep
<1>2. /\ compatible' = "unknown"
      /\ UNCHANGED <<eaEvaluated, eaVerified, verifyWatchList, toVerify>>
  BY DEF SearchStep
<1>3. VerdictsCurrent'
  <2> SUFFICES ASSUME NEW e \in eaEvaluated, Mask[e] \cap currentChanged' = {}
               PROVE  /\ MaskInProgram(e) \subseteq currentAssigned'
                      /\ e \in eaVerified <=> Verifies(e, currentIntr')
    BY <1>2 DEF VerdictsCurrent, Verifies, MaskInProgram
  <2>1. MaskInProgram(e) \subseteq currentAssigned /\ (e \in eaVerified <=> Verifies(e, currentIntr))
    BY <1>1 DEF VerdictInv, VerdictsCurrent
  <2>2. Mask[e] \cap currentIntr' = Mask[e] \cap currentIntr
    BY <1>1
  <2> QED
    BY <1>1, <2>1, <2>2 DEF Verifies, MaskInProgram
<1>4. VerdictInv'
  BY <1>1, <1>2, <1>3 DEF VerdictInv, CompatibilityRight
<1>5. WatchInv'
  <2>1. toVerify = {}
    BY <1>1 DEF WatchInv
  <2>2. ASSUME NEW e \in Watching \ eaEvaluated
        PROVE  \E a \in MaskInProgram(e) : e \in verifyWatchList[a] /\ (a \in currentAssigned' => a \in currentChanged')
    <3>1. PICK a \in MaskInProgram(e) : e \in verifyWatchList[a] /\ (a \in currentAssigned => a \in currentChanged)
      BY <2>2, <1>1 DEF WatchInv, Pending
    <3> QED
      BY <3>1, <1>1
  <2> QED
    BY <1>1, <1>2, <2>1, <2>2 DEF WatchInv, Pending, Watching, OutsideLast, MaskInProgram
<1> QED
  BY <1>4, <1>5

\* A call begins by dropping the verdicts whose mask changed; the changed atom is watched
\* and, if it is assigned, will be come to.
LEMMA StartKeeps == ASSUME VerificationInv, StartPropagate PROVE VerdictInv' /\ WatchInv'
<1> USE DEF VerificationInv
<1>1. /\ ~Calling /\ Calling' /\ pc' # "model" /\ pc # "model"
      /\ UNCHANGED <<value, currentIntr, currentAssigned, currentChanged>>
  BY DEF StartPropagate, CallHexPropagators, IsModel, Calling, copyVars
<1>2. UnverifyExternalAtoms
  BY DEF StartPropagate
<1>3. \A e \in eaEvaluated' : e \in eaEvaluated /\ Mask[e] \cap currentChanged = {} /\ Current(e)
                              /\ (e \in eaVerified' <=> e \in eaVerified)
  BY <1>2 DEF UnverifyExternalAtoms, ToUnverify, VerdictInv, VerdictsCurrent, Current
<1>4. \A e \in eaEvaluated' : Current(e)'
  BY <1>1, <1>3 DEF Current, Verifies, MaskInProgram
<1>5. compatible = "unknown" /\ compatible' = "unknown"
  BY <1>1, <1>2 DEF UnverifyExternalAtoms, VerdictInv
<1>6. eaEvaluated' \subseteq ExternalAtoms /\ eaVerified' \subseteq eaEvaluated'
  BY <1>2 DEF UnverifyExternalAtoms, VerdictInv
<1>7. VerdictInv'
  BY <1>1, <1>4, <1>5, <1>6 DEF VerdictInv, VerdictsCurrent, Current, CompatibilityRight
<1>8. /\ verifyWatchList' \in [RegisteredAtoms -> SUBSET ExternalAtoms]
      /\ \A a \in RegisteredAtoms : verifyWatchList[a] \subseteq verifyWatchList'[a]
      /\ toVerify' = currentChanged \cap currentAssigned
  BY <1>2 DEF UnverifyExternalAtoms, ToUnverify, WatchInv, VerdictInv
<1>9. ASSUME NEW e \in Watching \ eaEvaluated'
      PROVE  \E a \in MaskInProgram(e) :
               e \in verifyWatchList'[a] /\ (a \in currentAssigned => a \in toVerify')
  <2>0. e \in ExternalAtoms /\ MaskInProgram(e) \subseteq RegisteredAtoms
    BY MaskAssumption, MaskType DEF Watching
  <2>1. CASE e \in eaEvaluated
    <3>1. Mask[e] \cap currentChanged # {} /\ e \in ToUnverify(currentChanged)
      BY <2>1, <1>2, <1>9 DEF UnverifyExternalAtoms, ToUnverify
    <3>2. First(Mask[e] \cap currentChanged) \in Mask[e] \cap currentChanged
      <4>1. Mask[e] \cap currentChanged \in SUBSET Nat
        BY <2>0, MaskType
      <4> QED
        BY <3>1, <4>1, FirstIn
    <3>3. First(Mask[e] \cap currentChanged) \in MaskInProgram(e)
      BY <3>2 DEF MaskInProgram, CopyInv, CopyTypeOK
    <3>4. e \in verifyWatchList'[First(Mask[e] \cap currentChanged)]
      BY <3>1, <3>3, <2>0, <1>2 DEF UnverifyExternalAtoms
    <3> QED
      BY <3>2, <3>3, <3>4, <1>8
  <2>2. CASE e \notin eaEvaluated
    <3>1. PICK a \in MaskInProgram(e) :
            e \in verifyWatchList[a] /\ (a \in currentAssigned => a \in currentChanged)
      BY <2>2, <1>1, <1>9 DEF WatchInv, Pending
    <3> QED
      BY <3>1, <2>0, <1>8
  <2> QED
    BY <2>1, <2>2
<1>10. WatchInv'
  BY <1>1, <1>8, <1>9 DEF WatchInv, Pending, Watching, OutsideLast, MaskInProgram
<1> QED
  BY <1>7, <1>10

\* An atom is come to: who watches it is evaluated, or watches an atom that is not assigned.
LEMMA VerifyKeeps == ASSUME VerificationInv, VerifyExternalAtoms PROVE VerdictInv' /\ WatchInv'
<1> USE DEF VerificationInv
<1> DEFINE atom == First(toVerify)
           watching == verifyWatchList[atom] \ eaEvaluated
<1>1. /\ Calling /\ Calling' /\ toVerify # {}
      /\ UNCHANGED <<value, currentIntr, currentAssigned, currentChanged, pc, compatible>>
      /\ toVerify' = toVerify \ {atom}
  BY DEF VerifyExternalAtoms, Calling, claspVars
<1>2. toVerify \subseteq currentAssigned /\ currentAssigned \subseteq Atoms
  BY DEF WatchInv, CopyInv, CopyTypeOK
<1>3. atom \in toVerify /\ atom \in Atoms /\ atom \in RegisteredAtoms
  <2>1. toVerify \in SUBSET Nat
    BY <1>2, MaskAssumption
  <2> QED
    BY <1>1, <1>2, <2>1, FirstIn, MaskAssumption
<1> HIDE DEF atom
<1>4. watching \subseteq ExternalAtoms
  BY <1>3 DEF WatchInv
<1>5. PICK evaluate \in SUBSET watching :
        /\ watching \cap AlwaysEvaluated \subseteq evaluate
        /\ LET complete == {e \in evaluate : MaskInProgram(e) \subseteq currentAssigned}
           IN  /\ eaEvaluated' = eaEvaluated \cup complete
               /\ eaVerified' = eaVerified \cup {e \in complete : Verifies(e, currentIntr)}
               /\ verifyWatchList' = [Rewatch(watching \ complete, verifyWatchList) EXCEPT ![atom] = {}]
  BY DEF VerifyExternalAtoms, atom
<1> DEFINE complete == {e \in evaluate : MaskInProgram(e) \subseteq currentAssigned}
<1>6. /\ eaEvaluated' = eaEvaluated \cup complete
      /\ eaVerified' = eaVerified \cup {e \in complete : Verifies(e, currentIntr)}
      /\ verifyWatchList' = [Rewatch(watching \ complete, verifyWatchList) EXCEPT ![atom] = {}]
      /\ complete \subseteq watching
  BY <1>5
<1>7. VerdictInv'
  <2>1. \A e \in eaEvaluated : e \notin complete /\ Current(e)
    BY <1>1, <1>6 DEF VerdictInv
  <2>2. \A e \in complete : e \notin eaVerified
    BY <1>6 DEF VerdictInv
  <2>3. \A e \in eaEvaluated' : Current(e)'
    BY <1>1, <1>6, <2>1, <2>2 DEF Current, Verifies, MaskInProgram
  <2>4. eaEvaluated' \subseteq ExternalAtoms /\ eaVerified' \subseteq eaEvaluated'
    BY <1>4, <1>6 DEF VerdictInv
  <2>5. pc # "model" /\ pc' # "model"
    BY <1>1 DEF Calling
  <2> QED
    BY <1>1, <2>3, <2>4, <2>5 DEF VerdictInv, VerdictsCurrent, Current, CompatibilityRight
<1>8. ASSUME NEW a \in RegisteredAtoms
      PROVE  verifyWatchList'[a] =
               IF a = atom THEN {}
               ELSE verifyWatchList[a] \cup {e \in watching \ complete :
                      Mask[e] \ currentAssigned # {} /\ a = First(Mask[e] \ currentAssigned)}
  <2> HIDE DEF watching, complete
  <2> QED
    BY <1>6 DEF Rewatch
<1>9. verifyWatchList' \in [RegisteredAtoms -> SUBSET ExternalAtoms]
  <2>1. /\ DOMAIN verifyWatchList' = RegisteredAtoms
        /\ verifyWatchList' = [a \in RegisteredAtoms |-> verifyWatchList'[a]]
    <3> HIDE DEF watching, complete
    <3> QED
      BY <1>6 DEF Rewatch
  <2>2. \A a \in RegisteredAtoms : verifyWatchList'[a] \subseteq ExternalAtoms
    BY <1>8, <1>4 DEF WatchInv
  <2> QED
    BY <2>1, <2>2
<1>10. ASSUME NEW e \in Watching \ eaEvaluated'
       PROVE  \E a \in MaskInProgram(e) :
                e \in verifyWatchList'[a] /\ (a \in currentAssigned => a \in toVerify')
  <2>0. /\ e \in ExternalAtoms /\ e \notin eaEvaluated /\ e \notin complete /\ e \in AlwaysEvaluated
        /\ MaskInProgram(e) \subseteq RegisteredAtoms
    BY <1>6, MaskAssumption, MaskType DEF Watching
  <2>1. PICK a \in MaskInProgram(e) : e \in verifyWatchList[a] /\ (a \in currentAssigned => a \in toVerify)
    BY <2>0, <1>1, <1>10 DEF WatchInv, Pending
  <2>2. CASE a # atom
    <3> HIDE DEF watching, complete
    <3>1. a \in RegisteredAtoms
      BY <2>0
    <3>2. e \in verifyWatchList'[a]
      BY <2>1, <2>2, <3>1, <1>8
    <3>3. a \in currentAssigned => a \in toVerify'
      BY <2>1, <2>2, <1>1
    <3> QED
      BY <3>2, <3>3
  <2>3. CASE a = atom
    <3>1. e \in watching /\ e \in evaluate
      BY <2>0, <2>1, <2>3, <1>5
    <3>2. MaskInProgram(e) \ currentAssigned # {}
      BY <2>0, <3>1
    <3> DEFINE next == First(Mask[e] \ currentAssigned)
    <3>3. Mask[e] \ currentAssigned # {} /\ next \in MaskInProgram(e) \ currentAssigned /\ next \in RegisteredAtoms
      BY <1>2, <1>10, <3>2, FirstInProgram
    <3>4. next # atom
      BY <3>3, <1>2, <1>3
    <3>5. e \in verifyWatchList'[next]
      BY <3>1, <3>3, <3>4, <2>0, <1>8
    <3> QED
      BY <3>3, <3>5
  <2> QED
    BY <2>2, <2>3
<1>11. WatchInv'
  BY <1>1, <1>2, <1>9, <1>10 DEF WatchInv, Pending, Watching, OutsideLast, MaskInProgram
<1> QED
  BY <1>7, <1>11

\* The call ends and forgets the changes, every verdict being current.
LEMMA EndKeeps == ASSUME VerificationInv, EndPropagate PROVE VerdictInv' /\ WatchInv'
<1> USE DEF VerificationInv
<1>1. /\ Calling /\ ~Calling' /\ toVerify = {} /\ currentChanged' = {}
      /\ UNCHANGED <<currentIntr, currentAssigned, eaEvaluated, eaVerified, verifyWatchList, toVerify, compatible>>
  BY DEF EndPropagate, HexPropagatorsReturn, Calling, hexVars
<1>2. \A e \in eaEvaluated : Current(e)
  BY <1>1 DEF VerdictInv
<1>3. compatible = "unknown"
  BY <1>1 DEF VerdictInv, Calling
<1>4. VerdictInv'
  BY <1>1, <1>2, <1>3 DEF VerdictInv, VerdictsCurrent, Current, Verifies, MaskInProgram, CompatibilityRight
<1>5. WatchInv'
  BY <1>1 DEF WatchInv, Pending, Watching, OutsideLast, MaskInProgram
<1> QED
  BY <1>4, <1>5

\* On a candidate the copy is total, and the verdicts that were kept are right.
LEMMA FinalKeeps == ASSUME VerificationInv, FinalCompatibilityCheck PROVE VerdictInv' /\ WatchInv'
<1> USE DEF VerificationInv
<1> DEFINE verified(e) == IF e \in eaEvaluated THEN e \in eaVerified ELSE Verifies(e, TrueAtoms(value))
<1>1. /\ pc = "model" /\ currentChanged = {} /\ ~Calling
      /\ UNCHANGED <<value, currentIntr, currentAssigned, currentChanged, pc, verifyWatchList, toVerify>>
  BY DEF FinalCompatibilityCheck, claspVars, Calling, VerdictInv
<1>2. PICK reached \in SUBSET ExternalAtoms :
        /\ eaEvaluated' = eaEvaluated \cup reached
        /\ eaVerified' = eaVerified \cup {e \in reached : verified(e)}
        /\ compatible' = IF \A e \in ExternalAtoms : verified(e) THEN "yes" ELSE "no"
  BY DEF FinalCompatibilityCheck
<1>3. currentIntr = TrueAtoms(value) /\ currentAssigned = Atoms
  <2>1. currentIntr = TrueAtoms(value) /\ currentAssigned = Assigned(value)
    BY <1>1, CopyInvExact DEF CopyExact, CopyInv, LevelsOK
  <2>2. Assigned(value) = Atoms
    BY <1>1, VarType DEF Assigned, CopyInv, LevelsOK, Var
  <2> QED
    BY <2>1, <2>2
<1>4. \A e \in ExternalAtoms : verified(e) <=> Verifies(e, currentIntr)
  BY <1>1, <1>3 DEF VerdictInv, VerdictsCurrent
<1>5. \A e \in reached : e \in ExternalAtoms
  OBVIOUS
<1> HIDE DEF verified
<1>6. eaVerified \subseteq eaEvaluated /\ eaEvaluated \subseteq ExternalAtoms
  BY DEF VerdictInv
<1>7. \A e \in eaEvaluated : e \in eaVerified <=> verified(e)
  BY DEF verified
<1>8. \A e \in eaEvaluated' : e \in ExternalAtoms /\ (e \in eaVerified' <=> verified(e))
  BY <1>2, <1>5, <1>6, <1>7
<1>9. VerdictsCurrent'
  BY <1>1, <1>3, <1>4, <1>8, MaskType DEF VerdictsCurrent, Verifies, MaskInProgram
<1>10. CompatibilityRight'
  <2>1. compatible' = "yes" <=> \A e \in ExternalAtoms : verified(e)
    BY <1>2
  <2>2. TrueAtoms(value') = currentIntr
    BY <1>1, <1>3 DEF TrueAtoms
  <2> QED
    BY <1>4, <2>1, <2>2 DEF CompatibilityRight, Verifies
<1>11. eaEvaluated' \subseteq ExternalAtoms /\ eaVerified' \subseteq eaEvaluated'
  BY <1>2, <1>5, <1>6
<1>12. VerdictInv'
  BY <1>1, <1>9, <1>10, <1>11 DEF VerdictInv, Calling
<1>13. WatchInv'
  BY <1>1, <1>2 DEF WatchInv, Pending, Calling, Watching, OutsideLast, MaskInProgram
<1> QED
  BY <1>12, <1>13

LEMMA StutterKeeps == ASSUME VerificationInv, UNCHANGED allVars PROVE VerdictInv' /\ WatchInv'
  BY DEF VerificationInv, allVars, hexVars, claspVars, VerdictInv, VerdictsCurrent, Current, Verifies,
         MaskInProgram, CompatibilityRight, TrueAtoms, MakesTrue, WatchInv, Pending, Calling,
         Watching, OutsideLast

LEMMA VerificationStep == VerificationInv /\ [VerificationNext]_allVars => VerificationInv'
<1> SUFFICES ASSUME VerificationInv, [VerificationNext]_allVars PROVE VerificationInv'
  OBVIOUS
<1>1. CopyInv'
  BY VerificationStepIsSearchStep, StepCopy DEF VerificationInv
<1>2. VerdictInv' /\ WatchInv'
  BY SearchKeeps, StartKeeps, VerifyKeeps, EndKeeps, FinalKeeps, StutterKeeps
     DEF VerificationNext, Terminating
<1> QED
  BY <1>1, <1>2 DEF VerificationInv

LEMMA VerificationInvariant == VerificationSpec => []VerificationInv
  BY InitVerification, VerificationStep, PTL DEF VerificationSpec

\* The copy is exact while external atoms are verified.
THEOREM CopyExactWhileVerifying == VerificationSpec => []CopyExact
  BY VerificationImplementsPropagator, CopyIsExact, PTL

\* No verdict that is kept is stale, whatever was undone, deferred or assigned again.
THEOREM NoStaleVerdict == VerificationSpec => []VerdictsCurrent
<1>1. VerificationInv => VerdictsCurrent
  BY DEF VerificationInv, VerdictInv
<1> QED
  BY <1>1, VerificationInvariant, PTL

\* A candidate passes exactly if the plugin verifies every external atom on it.
THEOREM CompatibilityIsRight == VerificationSpec => []CompatibilityRight
<1>1. VerificationInv => CompatibilityRight
  BY DEF VerificationInv, VerdictInv
<1> QED
  BY <1>1, VerificationInvariant, PTL

\* An external atom with the heuristic always or eacomplete has been evaluated after each
\* call that finds the program's part of its mask assigned, unless its mask has an atom
\* outside the program before one within: otherwise its watch is never lost.
THEOREM WatchIsNeverLost == VerificationSpec => []EvaluatedOnceComplete
<1>1. VerificationInv => EvaluatedOnceComplete
  <2> SUFFICES ASSUME VerificationInv, pc = "propagated", currentChanged = {},
                      NEW e \in AlwaysEvaluated, OutsideLast(e), InputComplete(e), e \notin eaEvaluated
               PROVE  FALSE
    BY DEF EvaluatedOnceComplete
  <2>1. ~Calling /\ e \in Watching /\ MaskInProgram(e) \subseteq currentAssigned
    BY DEF Calling, Watching, InputComplete
  <2> QED
    BY <2>1 DEF VerificationInv, WatchInv, Pending
<1> QED
  BY <1>1, VerificationInvariant, PTL
================================================================================
