------------------------------ MODULE CDNLSolver ------------------------------
(***************************************************************************)
(* The conflict-driven nogood learning solver of dlvhex, the class         *)
(* CDNLSolver: unit propagation over two watched literals per nogood,      *)
(* conflict analysis with backjumping, chronological enumeration of the    *)
(* models by flipping decision literals, nogoods added from outside during *)
(* and between the calls of getNextModel, and restarts with assumptions.   *)
(*                                                                         *)
(* An atom is a number, a literal its number or the negated number, and a  *)
(* nogood a set of literals that must not all be true.  NogoodSet shows    *)
(* that equal nogoods share an index, so that a nogood stands for its      *)
(* index here.  The activity heuristic is left out: a guess is any         *)
(* unassigned literal.  The order in which unit nogoods, contradictory     *)
(* nogoods and implied literals are taken is left open too.                *)
(***************************************************************************)
EXTENDS Integers, Sequences, FiniteSets, SequencesExt, FiniteSetsExt

CONSTANTS Instances     \* the problems a solver may be created for: the nogoods it
                        \* is given and the facts set at once, the nogoods that may be
                        \* added later, and a bound on restartWithAssumptions

Address(lit) == IF lit < 0 THEN -lit ELSE lit
Negation(lit) == -lit
Consistent(lits) == \A l \in lits : Negation(l) \notin lits
AtomsOf(nogoods) == {Address(l) : l \in UNION nogoods}

ASSUME InstancesAssumption ==
  \A I \in Instances :
    /\ \A ng \in I.nogoods \cup I.late : ng \subseteq Int
    /\ IsFiniteSet(AtomsOf(I.nogoods))
    /\ AtomsOf(I.nogoods) = 1 .. Cardinality(AtomsOf(I.nogoods))
    /\ I.facts \subseteq AtomsOf(I.nogoods)
    /\ I.restarts \in Nat

\* A problem has atoms, and its facts do not assign all of them.
FactsLeaveOpen == \A I \in Instances : I.facts # AtomsOf(I.nogoods)

VARIABLES
  propagation,      \* the assignment in the order in which it was made, with the
                    \* decision level and the cause of each atom, the watched
                    \* literals, and the unit and contradictory nogoods
  currentDL, exhaustedDL,
  decisionLiteral,  \* decisionLiteralOfDecisionLevel
  flipped,          \* the literal to set after backtracking, 0 if there is none
  nogoodsToAdd,     \* added from outside and not yet loaded
  analysis,         \* the nogood and backtrack level of the conflict analysis
  pc,               \* where getNextModel is
  instance,         \* the problem with its atoms (allFacts), the current assumptions
                    \* and the restarts left
  models            \* the models returned since the last restart

vars == <<propagation, currentDL, exhaustedDL, decisionLiteral,
          flipped, nogoodsToAdd, analysis, pc, instance, models>>

Atoms == instance.atoms
Literals == Atoms \cup {-a : a \in Atoms}

NoCause == {}
NoAnalysis == [learnedNogood |-> {}, backtrackDL |-> 0]

-----------------------------------------------------------------------------
(* Assignments and watches.                                                *)

Satisfied(p, lit) == lit \in Range(p.assignment)
Falsified(p, lit) == Negation(lit) \in Range(p.assignment)
Unassigned(p, lit) == ~Satisfied(p, lit) /\ ~Falsified(p, lit)
Complete(p) == Len(p.assignment) = Cardinality(Atoms)
Nogoods(p) == DOMAIN p.watched

Inactive(p, ng) == \E lit \in ng : Falsified(p, lit)
Free(p, ng) == {lit \in ng : Unassigned(p, lit)}

\* The order in which a nogood is iterated: positive literals by address, then
\* negative ones.
Precedes(l, m) == \/ l > 0 /\ m < 0
                  \/ l > 0 /\ m > 0 /\ l < m
                  \/ l < 0 /\ m < 0 /\ m < l
FirstOf(lits, n) == {l \in lits : Cardinality({m \in lits : Precedes(m, l)}) < n}

\* addNogoodAndUpdateWatchingStructures for every nogood of a set: each watches
\* up to two unassigned literals unless it is inactive.
AddNogoods(p, added) ==
  LET new == {ng \in added : \A lit \in ng : Address(lit) \in Atoms}
      active == {ng \in new : ~Inactive(p, ng)}
      with(n) == {ng \in active : Cardinality(Free(p, ng)) = n}
      old(ng) == IF ng \in Nogoods(p) THEN p.watched[ng] ELSE {}
      watch(ng) == IF ng \in active THEN FirstOf(Free(p, ng), 2) ELSE {}
  IN  [p EXCEPT !.watched = [ng \in Nogoods(p) \cup new |-> old(ng) \cup (IF ng \in new THEN watch(ng) ELSE {})],
                !.unitNogoods = @ \cup with(1),
                !.contradictoryNogoods = @ \cup with(0)]

\* initWatchingStructures, with nothing assigned.
NothingSet == [assignment |-> <<>>, decisionlevel |-> [a \in Atoms |-> 0],
               cause |-> [a \in Atoms |-> NoCause], watched |-> [ng \in {} |-> {}],
               unitNogoods |-> {}, contradictoryNogoods |-> {}]
InitWatchingStructures(nogoods) == AddNogoods(NothingSet, nogoods)

\* setFact: the literal becomes true.  A nogood that watches its negation becomes
\* inactive; one that watches the literal looks for another one to watch, and is
\* inactive, unit or contradictory if it does not find any.
Assign(p, lit, dl, c) ==
  [p EXCEPT !.assignment = Append(@, lit), !.decisionlevel[Address(lit)] = dl, !.cause[Address(lit)] = c]

SetFact(p, lit, dl, c) ==
  LET watching(ng) == lit \in p.watched[ng]
      inactive(ng) == \/ Negation(lit) \in p.watched[ng]
                      \/ watching(ng) /\ (Inactive(p, ng) \/ Negation(lit) \in ng)
      rest(ng) == p.watched[ng] \ {lit}
      watch(ng) == rest(ng) \cup FirstOf(Free(p, ng) \ p.watched[ng], 2 - Cardinality(rest(ng)))
      moved == {ng \in Nogoods(p) : watching(ng) /\ ~inactive(ng)}
      dropped == {ng \in Nogoods(p) : inactive(ng)}
      with(n) == {ng \in moved : Cardinality(watch(ng)) = n}
  IN  [Assign(p, lit, dl, c) EXCEPT
         !.watched = [ng \in Nogoods(p) |-> IF inactive(ng) THEN {} ELSE IF watching(ng) THEN watch(ng) ELSE @[ng]],
         !.unitNogoods = (@ \cup with(1)) \ (with(0) \cup dropped),
         !.contradictoryNogoods = (@ \cup with(0)) \ dropped]

\* The code leaves the decision level behind, but never reads that of an unassigned atom.
Position(p, lit) == CHOOSE i \in DOMAIN p.assignment : p.assignment[i] = lit
Unassign(p, lit) ==
  [p EXCEPT !.assignment = RemoveAt(@, Position(p, lit)),
            !.decisionlevel[Address(lit)] = 0, !.cause[Address(lit)] = NoCause]

\* Fault: a unit nogood does not watch the cleared literal.
ClearFactUnwatched(p, lit) ==
  LET watching(ng, n) == Cardinality(p.watched[ng]) = n /\ {lit, Negation(lit)} \cap ng # {}
      reactivated(ng) == watching(ng, 0) /\ ~Inactive(p, ng \ {Negation(lit)})
      active == {ng \in Nogoods(p) : reactivated(ng)}
      free(ng) == Free(p, ng) \cup ({lit, Negation(lit)} \cap ng)
  IN  [Unassign(p, lit) EXCEPT
         !.watched = [ng \in Nogoods(p) |-> IF reactivated(ng) THEN FirstOf(free(ng), 2)
                                            ELSE @[ng]],
         !.unitNogoods = {ng \in @ : ~watching(ng, 1)} \cup {ng \in active : Cardinality(free(ng)) = 1},
         !.contradictoryNogoods = @ \ active]

\* clearFact: a nogood without watched literals is examined again, and one with a
\* single watched literal watches the cleared one, in the polarity it was assigned in.
ClearFact(p, lit) ==
  LET watching(ng, n) == Cardinality(p.watched[ng]) = n /\ {lit, Negation(lit)} \cap ng # {}
      reactivated(ng) == watching(ng, 0) /\ ~Inactive(p, ng \ {Negation(lit)})
      active == {ng \in Nogoods(p) : reactivated(ng)}
      free(ng) == Free(p, ng) \cup ({lit, Negation(lit)} \cap ng)
  IN  [Unassign(p, lit) EXCEPT
         !.watched = [ng \in Nogoods(p) |-> IF reactivated(ng) THEN FirstOf(free(ng), 2)
                                            ELSE IF watching(ng, 1) THEN @[ng] \cup {lit} ELSE @[ng]],
         !.unitNogoods = {ng \in @ : ~watching(ng, 1)} \cup {ng \in active : Cardinality(free(ng)) = 1},
         !.contradictoryNogoods = @ \ active]

-----------------------------------------------------------------------------
(* The solver.                                                             *)

\* initListOfAllFacts
InstanceOf(I) == [problem |-> I, atoms |-> AtomsOf(I.nogoods), assumptions |-> I.facts, restarts |-> I.restarts]

Init ==
  /\ instance \in {InstanceOf(I) : I \in Instances}
  /\ propagation = InitWatchingStructures(instance.problem.nogoods)
  /\ currentDL = 0
  /\ exhaustedDL = 0
  /\ decisionLiteral = [dl \in Atoms |-> 0]
  /\ flipped = 0
  /\ nogoodsToAdd = {}
  /\ analysis = NoAnalysis
  /\ pc = "assuming"
  /\ models = {}

\* The head of the loop of getNextModel.
LoopOrReturn(p) == IF Complete(p) THEN "complete" ELSE "propagating"

\* flipDecisionLiteral: to the previous decision level, where the negation of the
\* decision literal is set when everything above has been cleared.
FlipDecisionLiteral ==
  /\ currentDL' = currentDL - 1
  /\ exhaustedDL' = currentDL - 1
  /\ flipped' = Negation(decisionLiteral[currentDL])
  /\ decisionLiteral' = [decisionLiteral EXCEPT ![currentDL] = 0]
  /\ UNCHANGED <<propagation, nogoodsToAdd, analysis, instance, models>>

Level(lit) == propagation.decisionlevel[Address(lit)]

\* getNextModel is called: a previous model is left by flipping the latest decision.
GetNextModel ==
  /\ pc = "idle"
  /\ ~Complete(propagation)
  /\ pc' = "propagating"
  /\ UNCHANGED <<propagation, currentDL, exhaustedDL, decisionLiteral,
                 flipped, nogoodsToAdd, analysis, instance, models>>

LeaveModel ==
  /\ pc = "idle"
  /\ Complete(propagation)
  /\ currentDL > 0
  /\ FlipDecisionLiteral
  /\ pc' = "leaving model"

NoMoreModels ==
  /\ pc = "idle"
  /\ Complete(propagation)
  /\ currentDL = 0
  /\ pc' = "exhausted"
  /\ UNCHANGED <<propagation, currentDL, exhaustedDL, decisionLiteral,
                 flipped, nogoodsToAdd, analysis, instance, models>>

\* Fault: the lowest decision level instead of the highest one.
PropagateTooLow(ng) ==
  /\ pc = "propagating"
  /\ LET lit == CHOOSE l \in propagation.watched[ng] : TRUE
         propDL == IF Cardinality(ng) = 1 THEN 0
                   ELSE Min({Level(l) : l \in ng \ Free(propagation, ng)})
     IN  propagation' = SetFact([propagation EXCEPT !.unitNogoods = @ \ {ng}], Negation(lit), propDL, ng)
  /\ UNCHANGED <<currentDL, exhaustedDL, decisionLiteral, flipped, nogoodsToAdd, analysis, pc, instance, models>>

\* unitPropagation: the last unassigned literal of a unit nogood is made false on
\* the highest decision level of the other ones.
PropagateUnit(ng) ==
  /\ pc = "propagating"
  /\ LET lit == CHOOSE l \in propagation.watched[ng] : TRUE
         propDL == Max({0} \cup {Level(l) : l \in ng \ Free(propagation, ng)})
     IN  propagation' = SetFact([propagation EXCEPT !.unitNogoods = @ \ {ng}], Negation(lit), propDL, ng)
  /\ UNCHANGED <<currentDL, exhaustedDL, decisionLiteral, flipped, nogoodsToAdd, analysis, pc, instance, models>>

Propagate == \E ng \in propagation.unitNogoods : PropagateUnit(ng)

Propagated == pc = "propagating" /\ propagation.unitNogoods = {}
Conflict == Propagated /\ propagation.contradictoryNogoods # {}
NoConflict == Propagated /\ propagation.contradictoryNogoods = {}

ConflictAtDL0 ==
  /\ Conflict
  /\ currentDL = 0
  /\ pc' = "exhausted"
  /\ UNCHANGED <<propagation, currentDL, exhaustedDL, decisionLiteral,
                 flipped, nogoodsToAdd, analysis, instance, models>>

ConflictBelowExhausted ==
  /\ Conflict
  /\ 0 < currentDL
  /\ currentDL <= exhaustedDL
  /\ FlipDecisionLiteral
  /\ pc' = "backtracking"

StartAnalysis ==
  /\ Conflict
  /\ currentDL > exhaustedDL
  /\ \E violatedNogood \in propagation.contradictoryNogoods :
       analysis' = [learnedNogood |-> violatedNogood, backtrackDL |-> 0]
  /\ pc' = "analysis"
  /\ UNCHANGED <<propagation, currentDL, exhaustedDL, decisionLiteral,
                 flipped, nogoodsToAdd, instance, models>>

-----------------------------------------------------------------------------
(* The loop of analysis.                                                   *)

IsDecisionLiteral(lit) == propagation.cause[Address(lit)] = NoCause

\* The level of the literal of the nogood that was assigned last.
LatestDL(ng) ==
  LET last == Max({i \in DOMAIN propagation.assignment : propagation.assignment[i] \in ng})
  IN  Level(propagation.assignment[last])
AtLatestDL(ng) == {l \in ng : Level(l) = LatestDL(ng)}
Implied(ng) == {l \in AtLatestDL(ng) : ~IsDecisionLiteral(l)}

\* the second-highest level of the nogood, over all nogoods of the analysis
BacktrackDL ==
  LET ng == analysis.learnedNogood
  IN  Max({analysis.backtrackDL} \cup
          {dl \in {Level(l) : l \in ng} : dl < LatestDL(ng)})

AnalysisContinues == Cardinality(AtLatestDL(analysis.learnedNogood)) > 1

\* Fault: the cause is not joined.
ResolveAlone(ng1, ng2, lit) == ng1 \ {lit}

\* the nogood without the resolved atom, together with its cause
Resolve(ng1, ng2, lit) == (ng1 \cup ng2) \ {lit, Negation(lit)}

ResolveImplied ==
  /\ pc = "analysis"
  /\ AnalysisContinues
  /\ \E lit \in Implied(analysis.learnedNogood) :
       analysis' = [learnedNogood |-> Resolve(analysis.learnedNogood, propagation.cause[Address(lit)], lit),
                    backtrackDL |-> BacktrackDL]
  /\ UNCHANGED <<propagation, currentDL, exhaustedDL, decisionLiteral,
                 flipped, nogoodsToAdd, pc, instance, models>>

\* Fault: a jump below the exhausted levels.
BackjumpLevelBelowExhausted == BacktrackDL

\* The learned nogood is added and the search backtracks, but not below the levels
\* that are exhausted.
BackjumpLevel == Max({BacktrackDL, exhaustedDL})

\* Fault: the learned nogood is not added.
BackjumpWithoutLearning ==
  /\ pc = "analysis"
  /\ AnalysisContinues => /\ Implied(analysis.learnedNogood) = {}
                          /\ LatestDL(analysis.learnedNogood) = 0
  /\ propagation' = propagation
  /\ currentDL' = BackjumpLevel
  /\ decisionLiteral' = [dl \in Atoms |-> IF dl <= BackjumpLevel THEN decisionLiteral[dl] ELSE 0]
  /\ analysis' = NoAnalysis
  /\ pc' = "backtracking"
  /\ UNCHANGED <<exhaustedDL, flipped, nogoodsToAdd, instance, models>>

Backjump ==
  /\ pc = "analysis"
  /\ AnalysisContinues => /\ Implied(analysis.learnedNogood) = {}
                          /\ LatestDL(analysis.learnedNogood) = 0
  /\ propagation' = AddNogoods(propagation, {analysis.learnedNogood})
  /\ currentDL' = BackjumpLevel
  /\ decisionLiteral' = [dl \in Atoms |-> IF dl <= BackjumpLevel THEN decisionLiteral[dl] ELSE 0]
  /\ analysis' = NoAnalysis
  /\ pc' = "backtracking"
  /\ UNCHANGED <<exhaustedDL, flipped, nogoodsToAdd, instance, models>>

-----------------------------------------------------------------------------
(* backtrack, fact by fact.                                                *)

Backtracking == pc \in {"backtracking", "leaving model"}
FactsAbove == {lit \in Range(propagation.assignment) : Level(lit) > currentDL}

\* Facts are cleared level by level, and on a level in the order of their assignment.
NextToClear ==
  LET lowest == Min({Level(lit) : lit \in FactsAbove})
      first == Min({i \in DOMAIN propagation.assignment : Level(propagation.assignment[i]) = lowest})
  IN  propagation.assignment[first]

BacktrackFact ==
  /\ Backtracking
  /\ FactsAbove # {}
  /\ \E lit \in {NextToClear} : propagation' = ClearFact(propagation, lit)
  /\ UNCHANGED <<currentDL, exhaustedDL, decisionLiteral, flipped, nogoodsToAdd, analysis, pc, instance, models>>

\* After backtracking a flipped literal is set, with no cause.  The body of the loop
\* ends with loadAddedNogoods; the flip that leaves a model is in front of the loop.
FinishBacktracking ==
  /\ Backtracking
  /\ FactsAbove = {}
  /\ LET p == IF flipped = 0 THEN propagation ELSE SetFact(propagation, flipped, currentDL, NoCause)
         toLoad == IF pc = "backtracking" THEN nogoodsToAdd ELSE {}
     IN  /\ propagation' = AddNogoods(p, toLoad)
         /\ nogoodsToAdd' = nogoodsToAdd \ toLoad
  /\ flipped' = 0
  /\ pc' = LoopOrReturn(propagation')
  /\ UNCHANGED <<currentDL, exhaustedDL, decisionLiteral, analysis, instance, models>>

-----------------------------------------------------------------------------
(* Learning from outside, guesses, results.                                *)

\* The propagators add nogoods, and all nogoods that wait are loaded.  Only if
\* none of them is new, the search goes on with a guess.
PropagatorsLearn ==
  /\ NoConflict
  /\ \E learned \in SUBSET instance.problem.late :
       /\ propagation' = AddNogoods(propagation, nogoodsToAdd \cup learned)
       /\ Nogoods(propagation') # Nogoods(propagation)
  /\ nogoodsToAdd' = {}
  /\ pc' = LoopOrReturn(propagation')
  /\ UNCHANGED <<currentDL, exhaustedDL, decisionLiteral, flipped, analysis, instance, models>>

NothingLearned(p) ==
  /\ NoConflict
  /\ p = AddNogoods(propagation, nogoodsToAdd)
  /\ Nogoods(p) = Nogoods(propagation)

Guess ==
  /\ ~Complete(propagation)
  /\ LET p == AddNogoods(propagation, nogoodsToAdd)
     IN  /\ NothingLearned(p)
         /\ \E lit \in {l \in Literals : Unassigned(p, l)} :
              /\ propagation' = SetFact(p, lit, currentDL + 1, NoCause)
              /\ decisionLiteral' = [decisionLiteral EXCEPT ![currentDL + 1] = lit]
  /\ currentDL' = currentDL + 1
  /\ nogoodsToAdd' = {}
  /\ pc' = LoopOrReturn(propagation')
  /\ UNCHANGED <<exhaustedDL, flipped, analysis, instance, models>>

NothingToGuess ==
  /\ Complete(propagation)
  /\ NothingLearned(AddNogoods(propagation, nogoodsToAdd))
  /\ propagation' = AddNogoods(propagation, nogoodsToAdd)
  /\ nogoodsToAdd' = {}
  /\ pc' = "complete"
  /\ UNCHANGED <<currentDL, exhaustedDL, decisionLiteral, flipped, analysis, instance, models>>

ReturnModel ==
  /\ pc = "complete"
  /\ models' = models \cup {Range(propagation.assignment)}
  /\ pc' = "idle"
  /\ UNCHANGED <<propagation, currentDL, exhaustedDL, decisionLiteral,
                 flipped, nogoodsToAdd, analysis, instance>>

\* addNogood, by the caller between two models.
AddNogood ==
  /\ pc = "idle"
  /\ \E ng \in instance.problem.late \ (nogoodsToAdd \cup Nogoods(propagation)) : nogoodsToAdd' = nogoodsToAdd \cup {ng}
  /\ UNCHANGED <<propagation, currentDL, exhaustedDL, decisionLiteral,
                 flipped, analysis, pc, instance, models>>

\* restartWithAssumptions: a consistent set of literals is assigned at level 0.
\* All nogoods, the learned ones included, stay.
RestartWithAssumptions ==
  /\ pc \in {"idle", "exhausted"}
  /\ instance.restarts > 0
  /\ \E assumptions \in SUBSET Literals :
       /\ Consistent(assumptions)
       /\ Cardinality(assumptions) < Cardinality(Atoms)
       /\ instance' = [instance EXCEPT !.assumptions = assumptions, !.restarts = @ - 1]
  /\ propagation' = InitWatchingStructures(Nogoods(propagation))
  /\ currentDL' = 0
  /\ exhaustedDL' = 0
  /\ decisionLiteral' = [dl \in Atoms |-> 0]
  /\ pc' = "assuming"
  /\ models' = {}
  /\ UNCHANGED <<flipped, nogoodsToAdd, analysis>>

SetAssumption ==
  /\ pc = "assuming"
  /\ \E lit \in instance.assumptions \ Range(propagation.assignment) :
       propagation' = SetFact(propagation, lit, 0, NoCause)
  /\ UNCHANGED <<currentDL, exhaustedDL, decisionLiteral, flipped, nogoodsToAdd, analysis, pc, instance, models>>

AssumptionsSet ==
  /\ pc = "assuming"
  /\ instance.assumptions \subseteq Range(propagation.assignment)
  /\ pc' = "idle"
  /\ UNCHANGED <<propagation, currentDL, exhaustedDL, decisionLiteral, flipped, nogoodsToAdd, analysis, instance, models>>

Search ==
  \/ Propagate
  \/ ConflictAtDL0
  \/ ConflictBelowExhausted
  \/ StartAnalysis
  \/ ResolveImplied
  \/ Backjump
  \/ BacktrackFact
  \/ FinishBacktracking
  \/ PropagatorsLearn
  \/ Guess
  \/ NothingToGuess
  \/ ReturnModel
  \/ SetAssumption
  \/ AssumptionsSet

Call ==
  \/ GetNextModel
  \/ LeaveModel
  \/ NoMoreModels
  \/ AddNogood
  \/ RestartWithAssumptions

Terminating == pc = "exhausted" /\ UNCHANGED vars

Next == Search \/ Call \/ Terminating

Spec == Init /\ [][Next]_vars /\ WF_vars(Search)

-----------------------------------------------------------------------------
\* The watched literals find exactly the nogoods that matter, after every mix of
\* assignments, backtracking and additions: the unit ones are those with one free
\* literal and no false one, the contradictory ones those with true literals only,
\* every watched literal is free, and an active nogood watches two if it can.
WatchesExact ==
  LET p == propagation
  IN  \A ng \in Nogoods(p) :
        LET active == ~Inactive(p, ng)
            free == Free(p, ng)
        IN  /\ (ng \in p.unitNogoods) = (active /\ Cardinality(free) = 1)
            /\ (ng \in p.contradictoryNogoods) = (active /\ free = {})
            /\ p.watched[ng] \subseteq free
            /\ active => Cardinality(p.watched[ng]) >= Min({2, Cardinality(free)})

\* What conflict analysis relies on: the cause of an implied literal contains its
\* negation, and its other literals became true before, on no higher level.
CausesJustify ==
  LET p == propagation
  IN  ~Backtracking => \A i \in DOMAIN p.assignment :
        LET lit == p.assignment[i]
            c == p.cause[Address(lit)]
        IN  c # NoCause => /\ c \in Nogoods(p)
                           /\ Negation(lit) \in c
                           /\ \A l \in c \ {Negation(lit)} :
                                /\ l \in {p.assignment[j] : j \in 1 .. i - 1}
                                /\ Level(l) <= Level(lit)

Assignments(atoms) == {{IF a \in true THEN a ELSE -a : a \in atoms} : true \in SUBSET atoms}
Allowed(assignments, nogoods) == {S \in assignments : \A ng \in nogoods : ~ng \subseteq S}
SolutionsOf == [I \in Instances |-> Allowed(Assignments(AtomsOf(I.nogoods)), I.nogoods)]

Given == instance.problem.nogoods
Late == instance.problem.late
Learned == Nogoods(propagation) \ Given
UnderAssumptions(solutions) == {S \in solutions : instance.assumptions \subseteq S}

\* A learned nogood excludes nothing that the given ones and those added from outside
\* allow: neither the flipped literals, which have no cause, nor assumptions get lost
\* in a resolution.
LearnedAreImplied ==
  LET solutions == Allowed(SolutionsOf[instance.problem], Late \cap Learned)
  IN  Allowed(solutions, Learned) = solutions

\* The answers are solutions under the assumptions, each once, then the end: none is
\* missed that satisfies also the nogoods that came late.  These make the solver
\* return other assignments too (AddedNogoodsSatisfied), but none of them twice.
Enumeration == INSTANCE SolutionEnumeration WITH
  solutions <- IF Late = {} THEN UnderAssumptions(SolutionsOf[instance.problem]) ELSE Assignments(Atoms),
  required <- UnderAssumptions(Allowed(SolutionsOf[instance.problem], Learned)),
  found <- models,
  asked <- pc \notin {"idle", "assuming", "exhausted"},
  finished <- pc = "exhausted"
ImplementsEnumeration == Enumeration!Spec

\* Every call of getNextModel comes to an end.
RequestAnswered == pc = "propagating" ~> pc \in {"idle", "exhausted"}

\* assert(foundImpliedLit) in analysis: as long as several literals are on the latest
\* level, and this is not level 0, one of them is implied.
FoundImpliedLit ==
  pc = "analysis" /\ AnalysisContinues /\ LatestDL(analysis.learnedNogood) > 0
    => Implied(analysis.learnedNogood) # {}

\* A model is returned only after newly added nogoods were found to be satisfied.
AddedNogoodsSatisfied ==
  pc = "complete" => \A ng \in Nogoods(propagation) : ~ng \subseteq Range(propagation.assignment)
===============================================================================
