------------------------ MODULE InternalGroundASPSolver ------------------------
(***************************************************************************)
(* The answer set solver of dlvhex, the class InternalGroundASPSolver: the *)
(* CDNL solver over the completion of a ground program, with an unfounded  *)
(* set check.  Each atom that may depend on itself points to a source      *)
(* rule; setting and clearing facts updates the pointers and the set of    *)
(* unfounded atoms incrementally, and after each propagation without       *)
(* conflict the check looks for new sources of the unfounded atoms or      *)
(* learns a loop nogood.                                                   *)
(*                                                                         *)
(* A problem of this solver has a further field: the program, with its     *)
(* ordinary atoms 1 .. atoms, its facts edb and a sequence of rules.  Set  *)
(* iterates in the order of the addresses.                                 *)
(***************************************************************************)
EXTENDS CDNLSolver

VARIABLES
  sources,     \* sourceRule, a partial function, and unfoundedAtoms
  ufs          \* the set that getUnfoundedSet builds

aspVars == <<vars, sources, ufs>>

Fact == 0      \* ID_FAIL as source rule: "a fact and founded by itself"

-----------------------------------------------------------------------------
(* The program and its nogoods.                                            *)

Heads(P, r) == P.rules[r].head
Rules(P) == DOMAIN P.rules
Ordinary(P) == 1 .. P.atoms

\* createNewBodyAtom: one for each rule, in computeClarkCompletion ...
BodyAtom(P, r) == P.atoms + r

\* ... and, in createShiftedProgram, one for each atom in a disjunctive head
RealShifted(P) ==
  {s \in Rules(P) \X Ordinary(P) : s[2] \in Heads(P, s[1]) /\ Cardinality(Heads(P, s[1])) > 1}
ShiftedBodyAtom(P, r, a) ==
  IF <<r, a>> \in RealShifted(P)
  THEN P.atoms + Len(P.rules) + Cardinality({s \in RealShifted(P) : s[1] < r \/ (s[1] = r /\ s[2] <= a)})
  ELSE BodyAtom(P, r)

Body(P, r) == P.rules[r].pos \cup {-a : a \in P.rules[r].neg}
ShiftedBody(P, r, a) == Body(P, r) \cup {-b : b \in Heads(P, r) \ {a}}

\* createNogoodsForRuleBody: the body atom is true exactly if the body is.
NogoodsForRuleBody(bodyAtom, body) ==
  {body \cup {-bodyAtom}} \cup {{bodyAtom, Negation(lit)} : lit \in body}

\* computeClarkCompletion, createNogoodsForRule
ClarkCompletion(P) ==
  UNION {NogoodsForRuleBody(BodyAtom(P, r), Body(P, r)) \cup {{BodyAtom(P, r)} \cup {-a : a \in Heads(P, r)}} : r \in Rules(P)}

\* createSingularLoopNogoods: an atom that is no fact needs a shifted rule with a
\* true body.
SingularLoopNogoods(P) ==
  LET shifted == UNION {NogoodsForRuleBody(ShiftedBodyAtom(P, s[1], s[2]), ShiftedBody(P, s[1], s[2])) : s \in RealShifted(P)}
      supports(a) == {-ShiftedBodyAtom(P, r, a) : r \in {q \in Rules(P) : a \in Heads(P, q)}}
  IN  shifted \cup {{a} \cup supports(a) : a \in Ordinary(P) \ P.edb}

ProgramInstance(P) ==
  [nogoods |-> ClarkCompletion(P) \cup SingularLoopNogoods(P), facts |-> P.edb,
   late |-> P.late, restarts |-> 0, program |-> P]

\* What a problem of this solver is.
GroundProgram(P) ==
  /\ P.atoms \in Nat
  /\ P.rules \in Seq([head : SUBSET Ordinary(P), pos : SUBSET Ordinary(P), neg : SUBSET Ordinary(P)])
  /\ P.edb \subseteq Ordinary(P)
ProblemsArePrograms == \A I \in Instances : GroundProgram(I.program) /\ I = ProgramInstance(I.program)

Program == instance.problem.program

\* computeDepGraph, computeStronglyConnectedComponents
DependsOn(P) == [a \in Ordinary(P) |-> UNION {P.rules[r].pos : r \in {q \in Rules(P) : a \in Heads(P, q)}}]
Reaches(P) ==
  LET reach[n \in 0 .. P.atoms] ==
        IF n = 0 THEN [a \in Ordinary(P) |-> {a} \cup DependsOn(P)[a]]
        ELSE [a \in Ordinary(P) |-> reach[n - 1][a] \cup IF n \in reach[n - 1][a] THEN reach[n - 1][n] ELSE {}]
  IN  reach[P.atoms]
ComponentsOf == [I \in Instances |-> LET reach == Reaches(I.program)
                                     IN  [a \in Ordinary(I.program) |-> {b \in reach[a] : a \in reach[b]}]]
Component(a) == ComponentsOf[instance.problem][a]
NonSingular == {a \in Ordinary(Program) : Cardinality(Component(a)) > 1}

-----------------------------------------------------------------------------
(* Source pointers.                                                        *)

WithSource(s, r) == {a \in DOMAIN s.sourceRule : s.sourceRule[a] = r}

\* initSourcePointers
InitSourcePointers ==
  [sourceRule |-> [a \in Program.edb |-> Fact], unfounded |-> NonSingular \ Program.edb]

\* removeSourceFromAtom, for each atom of a set; the mark of facts stays.
RemoveSource(s, atoms) ==
  [s EXCEPT !.sourceRule = [a \in DOMAIN @ \ (atoms \ WithSource(s, Fact)) |-> @[a]]]

\* Fault: atoms that depend on unfounded ones keep their sources.
DependingForgotten(s, atoms) == {}

\* the atoms that use a rule with one of these atoms in the positive body as source
Depending(s, atoms) ==
  {a \in DOMAIN s.sourceRule : s.sourceRule[a] # Fact /\ Program.rules[s.sourceRule[a]].pos \cap atoms # {}}

\* Reading sourceRule of an atom that has no source rule stores ID_FAIL for it.
ReadSources(s, atoms) ==
  [s EXCEPT !.sourceRule = [a \in DOMAIN @ \cup atoms |-> IF a \in DOMAIN @ THEN @[a] ELSE Fact]]

OtherHeads(a) == UNION {Heads(Program, r) : r \in {q \in Rules(Program) : a \in Heads(Program, q)}} \ {a}

\* getInitialNewlyUnfoundedAtomsAfterSetFact: the atoms with a source whose body
\* became false, or with a disjunctive source whose other head atom became true in
\* a different component.  (The test for atoms that became true later never holds.)
InitiallyUnfounded(s, lit) ==
  IF lit < 0 THEN UNION {WithSource(s, r) : r \in {q \in Rules(Program) : BodyAtom(Program, q) = -lit}}
  ELSE {a \in OtherHeads(lit) :
          \E r \in Rules(Program) : lit \in Heads(Program, r) /\ a \in WithSource(s, r) \ Component(lit)}

\* A false atom needs no source, and an atom whose source is lost takes the source
\* from all that depend on it, unless they are false or singular.
AfterSetFact(s, p, lit) ==
  LET atom == Address(lit)
      removed == IF lit < 0 THEN [RemoveSource(s, {atom}) EXCEPT !.unfounded = @ \ {atom}] ELSE s
      read == IF lit > 0 /\ atom \in Ordinary(Program) THEN ReadSources(removed, OtherHeads(atom)) ELSE removed
      eligible == {a \in NonSingular : ~Falsified(p, a)} \ read.unfounded
      closed(atoms) == /\ InitiallyUnfounded(read, lit) \cap eligible \subseteq atoms
                       /\ Depending(read, atoms) \cap eligible \subseteq atoms
      newlyUnfounded == {a \in eligible : \A atoms \in SUBSET eligible : closed(atoms) => a \in atoms}
  IN  [RemoveSource(read, newlyUnfounded) EXCEPT !.unfounded = @ \cup newlyUnfounded]

\* Fault: a cleared atom does not become unfounded.
AfterClearFactForgets(s, lit) == s

\* An atom that is cleared needs a source again.
AfterClearFact(s, lit) ==
  [s EXCEPT !.unfounded = @ \cup ({Address(lit)} \cap (NonSingular \ DOMAIN s.sourceRule))]

\* setFact and clearFact of this class: no action of the search sets or clears more
\* than one fact.
SourcesFollow ==
  LET before == Range(propagation.assignment)
      after == Range(propagation'.assignment)
  IN  sources' = IF after \ before # {} THEN AfterSetFact(sources, propagation', CHOOSE lit \in after \ before : TRUE)
                 ELSE IF before \ after # {} THEN AfterClearFact(sources, CHOOSE lit \in before \ after : TRUE)
                 ELSE sources

-----------------------------------------------------------------------------
(* The unfounded set check.                                                *)

\* getExternalSupport: the rules that support an atom of the set and do not need any.
ExternalSupport(atoms) ==
  {r \in Rules(Program) : Heads(Program, r) \cap atoms # {} /\ Program.rules[r].pos \cap atoms = {}}

\* satisfiesIndependently, and the literals thereof that are true
IndependentlySatisfied(r, atoms) ==
  {lit \in {-BodyAtom(Program, r)} \cup (Heads(Program, r) \ atoms) : Satisfied(propagation, lit)}

PossibleSourceRules(atoms) == {r \in ExternalSupport(atoms) : IndependentlySatisfied(r, atoms) = {}}

\* the atoms of the positive body that are unfounded and in the same component
UnfoundedBody(r) ==
  {a \in Program.rules[r].pos \cap sources.unfounded : \E b \in ufs : a \in Component(b)}

Before(a, b) == LET order == SelectSeq(propagation.assignment, LAMBDA l : Address(l) \in {a, b})
                IN  Len(order) > 0 /\ Address(order[1]) = a

\* useAsNewSourceForHeadAtom: no other head atom was true earlier.
UsesAsSource(a, r) ==
  /\ a \in sources.unfounded
  /\ \A b \in Heads(Program, r) \ {a} : ~(Satisfied(propagation, b) /\ Before(b, a))

SearchUnchanged == UNCHANGED <<propagation, currentDL, exhaustedDL, decisionLiteral, flipped, nogoodsToAdd,
                         analysis, instance, models>>

\* The outer loop of getUnfoundedSet.
StartUnfoundedSet ==
  /\ NoConflict
  /\ sources.unfounded # {}
  /\ ufs' = {Min(sources.unfounded)}
  /\ pc' = "unfounded set"
  /\ SearchUnchanged /\ UNCHANGED sources

\* The inner loop: the first possible source rule makes the set grow, ...
ExtendUnfoundedSet ==
  /\ pc = "unfounded set"
  /\ PossibleSourceRules(ufs) # {}
  /\ LET supportingRule == Min(PossibleSourceRules(ufs))
     IN  /\ UnfoundedBody(supportingRule) # {}
         /\ ufs' = ufs \cup UnfoundedBody(supportingRule)
  /\ SearchUnchanged /\ UNCHANGED <<sources, pc>>

\* ... or becomes the source of its head atoms.
UseAsNewSource ==
  /\ pc = "unfounded set"
  /\ PossibleSourceRules(ufs) # {}
  /\ LET supportingRule == Min(PossibleSourceRules(ufs))
         heads == {a \in Heads(Program, supportingRule) : UsesAsSource(a, supportingRule)}
     IN  /\ UnfoundedBody(supportingRule) = {}
         /\ sources' = [sourceRule |-> [a \in DOMAIN sources.sourceRule \cup heads |->
                                          IF a \in heads THEN supportingRule ELSE sources.sourceRule[a]],
                        unfounded |-> sources.unfounded \ heads]
         /\ ufs' = ufs \ heads
         /\ pc' = IF ufs' = {} THEN "propagating" ELSE pc
  /\ SearchUnchanged

\* Fault: the rules that support the set from outside are ignored.
LoopNogoodAlone == {Min(ufs)}

\* getLoopNogood: an atom of the set, and for each rule that supports the set from
\* outside a literal that satisfies the rule.
LoopNogood ==
  {Min(ufs)} \cup UNION {FirstOf(IndependentlySatisfied(r, ufs), 1) : r \in ExternalSupport(ufs)}

\* Fault: the loop nogood is not added.
LearnNoLoopNogood ==
  /\ pc = "unfounded set"
  /\ PossibleSourceRules(ufs) = {}
  /\ ufs' = {}
  /\ pc' = "propagating"
  /\ SearchUnchanged /\ UNCHANGED sources

\* Without a possible source rule the set is unfounded, and the loop of getNextModel
\* goes on even if the assignment is complete.
LearnLoopNogood ==
  /\ pc = "unfounded set"
  /\ PossibleSourceRules(ufs) = {}
  /\ propagation' = AddNogoods(propagation, {LoopNogood})
  /\ ufs' = {}
  /\ pc' = "propagating"
  /\ UNCHANGED <<currentDL, exhaustedDL, decisionLiteral, flipped, nogoodsToAdd,
                 analysis, instance, models, sources>>

-----------------------------------------------------------------------------
(* The solver.                                                             *)

\* The constructor ends with setEDB.
ASPInit == Init /\ sources = InitSourcePointers /\ ufs = {}

\* Here the body of the loop does not end with loadAddedNogoods.
FlipDecision ==
  /\ Backtracking
  /\ FactsAbove = {}
  /\ propagation' = IF flipped = 0 THEN propagation ELSE SetFact(propagation, flipped, currentDL, NoCause)
  /\ flipped' = 0
  /\ pc' = LoopOrReturn(propagation')
  /\ UNCHANGED <<currentDL, exhaustedDL, decisionLiteral, nogoodsToAdd, analysis, instance, models>>

\* New nogoods make the loop go on even if the assignment is complete.
LearnFromPropagators ==
  /\ NoConflict
  /\ \E learned \in SUBSET instance.problem.late :
       /\ propagation' = AddNogoods(propagation, nogoodsToAdd \cup learned)
       /\ Nogoods(propagation') # Nogoods(propagation)
  /\ nogoodsToAdd' = {}
  /\ UNCHANGED <<currentDL, exhaustedDL, decisionLiteral, flipped, analysis, pc, instance, models>>

\* The unit nogood with the lowest index comes first: some fixed order.
PropagateFirst ==
  /\ propagation.unitNogoods # {}
  /\ PropagateUnit(CHOOSE ng \in propagation.unitNogoods : TRUE)

\* The actions of the base class that this one shares.
NoUnfoundedSet == sources.unfounded = {} /\ (LearnFromPropagators \/ Guess \/ NothingToGuess)

SetOrClear == PropagateFirst \/ BacktrackFact \/ FlipDecision \/ SetAssumption \/ NoUnfoundedSet

KeepFacts ==
  \/ ConflictAtDL0
  \/ ConflictBelowExhausted
  \/ StartAnalysis
  \/ ResolveImplied
  \/ Backjump
  \/ ReturnModel
  \/ AssumptionsSet

UnfoundedSetCheck == StartUnfoundedSet \/ ExtendUnfoundedSet \/ UseAsNewSource \/ LearnLoopNogood

ASPSearch ==
  \/ SetOrClear /\ SourcesFollow /\ UNCHANGED ufs
  \/ KeepFacts /\ UNCHANGED <<sources, ufs>>
  \/ UnfoundedSetCheck

ASPCall == (GetNextModel \/ LeaveModel \/ NoMoreModels \/ AddNogood) /\ UNCHANGED <<sources, ufs>>

ASPNext == ASPSearch \/ ASPCall \/ (Terminating /\ UNCHANGED <<sources, ufs>>)

ASPSpec == ASPInit /\ [][ASPNext]_aspVars /\ WF_aspVars(ASPSearch)

-----------------------------------------------------------------------------
(* Answer sets.                                                            *)

\* A set of atoms satisfies the reduct of a program with respect to another set.
SatisfiesReduct(P, S, T) ==
  \A r \in Rules(P) :
    P.rules[r].pos \subseteq T /\ P.rules[r].neg \cap S = {} => Heads(P, r) \cap T # {}

AnswerSets == [I \in Instances |->
  LET P == I.program
      reductModels(S) == {T \in SUBSET S : P.edb \subseteq T /\ SatisfiesReduct(P, S, T)}
  IN  {S \in SUBSET Ordinary(P) : reductModels(S) = {S}}]

\* the assignment of all atoms that belongs to a set of ordinary atoms
AssignmentOf(S) ==
  LET P == Program
      holds(body) == \A lit \in body : (lit > 0) = (Address(lit) \in S)
      bodyAtoms == {BodyAtom(P, r) : r \in {q \in Rules(P) : holds(Body(P, q))}}
      shifted == {ShiftedBodyAtom(P, s[1], s[2]) : s \in {t \in RealShifted(P) : holds(ShiftedBody(P, t[1], t[2]))}}
      true == S \cup bodyAtoms \cup shifted
  IN  {IF a \in true THEN a ELSE -a : a \in Atoms}

OutputProjection(M) == M \cap Ordinary(Program)

\* No nogood that is learned, a loop nogood or one of the conflict analysis, excludes
\* an answer set that the nogoods added from outside allow.
LearnedKeepAnswerSets ==
  \A S \in AnswerSets[instance.problem] :
    LET M == AssignmentOf(S)
    IN  (\A ng \in Late : ~ng \subseteq M) => \A ng \in Learned : ~ng \subseteq M

\* The answers are the answer sets, each once, and none is missed.
ASPEnumeration == INSTANCE SolutionEnumeration WITH
  solutions <- IF Late = {} THEN AnswerSets[instance.problem] ELSE SUBSET Ordinary(Program),
  required <- {S \in AnswerSets[instance.problem] : \A ng \in Late \cap Nogoods(propagation) : ~ng \subseteq AssignmentOf(S)},
  found <- {OutputProjection(M) : M \in models},
  asked <- pc \notin {"idle", "assuming", "exhausted"},
  finished <- pc = "exhausted"
ImplementsAnswerSets == ASPEnumeration!Spec

\* The atoms that may depend on each other and are neither false nor unfounded have
\* sources, and following the sources never leads back.
SourcesWellFounded ==
  LET founded == {a \in NonSingular : ~Falsified(propagation, a)} \ sources.unfounded
      supported(atoms) == {a \in founded : /\ a \in DOMAIN sources.sourceRule
                                           /\ \/ sources.sourceRule[a] = Fact
                                              \/ Program.rules[sources.sourceRule[a]].pos \cap founded \subseteq atoms}
  IN  \A atoms \in SUBSET founded : supported(atoms) \subseteq atoms => atoms = founded

\* "fact becomes unfounded if it has no source pointer and if it is non-singular":
\* whatever is assigned and cleared, only facts do without a source rule.
UnsourcedAreUnfounded ==
  \A a \in NonSingular \ (sources.unfounded \cup Program.edb) :
    ~Falsified(propagation, a) => a \in DOMAIN sources.sourceRule /\ sources.sourceRule[a] # Fact
===============================================================================
